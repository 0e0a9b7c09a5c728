-------------------------- MODULE MCGitConfigCopy --------------------------
(* The root, two files of the home, a link to the first, and a file        *)
(* outside whose destination may be that of a home file.                   *)
EXTENDS GitConfigCopy

MCFile == {"root", "a", "b", "link", "outside", "taken"}
MCIdent == [f \in MCFile |-> IF f = "link" THEN "a" ELSE f]
MCDest == [f \in MCFile |-> IF f = "taken" THEN "outside" ELSE f]

MCReference ==
  [key: {"include"}, to: {"a", "b", "link", "outside", "empty"}]
    \cup [key: {"excludes"}, to: {"b", "outside", "taken", "empty"}]

(* At most two references of the root and one of a and of b; files other   *)
(* than a and b are plain.                                                 *)
MCHost(top, first, second, ka, kb) ==
  [kind |-> [f \in MCFile |-> CASE f = "a" -> ka [] f = "b" -> kb [] OTHER -> "config"],
   refs |-> [f \in MCFile |-> CASE f = "root" -> top [] f = "a" -> first [] f = "b" -> second
                                [] OTHER -> <<>>]]

AtMostOne(S) == {<<>>} \cup {<<x>> : x \in S}
include(f) == [key |-> "include", to |-> f]
excludes(f) == [key |-> "excludes", to |-> f]

MCTops == AtMostOne(MCReference) \cup {<<x, y>> : x \in MCReference, y \in MCReference}
MCKept == {<<MCHost(top, first, second, ka, kb)>> :
             top \in MCTops,
             first \in AtMostOne({include("b"), include("outside"), include("root"), excludes("outside")}),
             second \in AtMostOne({include("link"), excludes("a")}),
             ka \in {"config", "malformed"}, kb \in {"config", "missing", "unreadable", "rewriting"}}

MCEdited ==
  {<<MCHost(<<include("a"), excludes("b")>>, <<include("outside")>>, <<>>, "config", "config"),
     MCHost(<<include("a"), include("b")>>, <<include("b")>>, <<include("outside")>>, ka, kb),
     MCHost(<<include("b")>>, <<>>, <<include("a")>>, "config", kc)>> :
       ka \in {"config", "missing"}, kb \in {"missing", "rewriting", "valueless"}, kc \in {"config", "malformed"}}

(* The root is not there, or cannot be read, or names ~user without a user. *)
MCRoots ==
  {<<[MCHost(<<>>, <<>>, <<>>, "config", "config") EXCEPT !.kind["root"] = k]>> :
     k \in {"missing", "unreadable", "malformed", "rewriting", "valueless"}}
  \cup {<<MCHost(<<[key |-> k, to |-> "unsupported"]>>, <<>>, <<>>, "config", "config")>> :
          k \in {"include", "excludes"}}

(* An excludes file of single words is a config without values to Git.     *)
MCWords ==
  {<<MCHost(<<excludes("b")>>, <<>>, <<>>, "config", "valueless")>>,
   <<MCHost(<<include("a")>>, <<excludes("outside")>>, <<>>, "valueless", "config")>>}

MCHistories == MCKept \cup MCEdited \cup MCRoots \cup MCWords
=============================================================================
