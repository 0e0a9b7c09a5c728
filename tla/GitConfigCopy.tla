--------------------------- MODULE GitConfigCopy ---------------------------
(***************************************************************************)
(* prepareGit (git.go): the host's .gitconfig, the files it includes and   *)
(* the excludes files they name are read, references are rewritten to      *)
(* paths of the guest, and the copies are published in the guest one by    *)
(* one, the root last.  Preparations are repeated, the user edits the host *)
(* files at any time, and any read, command or transfer may fail.          *)
(*                                                                         *)
(* A file is a path of the host; Ident follows symbolic links, so two      *)
(* paths may be one file.  References are Git's list of a config's values, *)
(* with their paths expanded.                                              *)
(***************************************************************************)
EXTENDS Naturals, SequencesExt

CONSTANTS
  File, Root,      \* paths on the host, and ~/.gitconfig among them
  Ident,           \* path -> the path it resolves to (canonicalPath)
  Dest,            \* path -> its path in the guest
  Relocated,       \* paths to which a reference reads differently in the guest
  Histories,       \* sequences of states that the host's files go through
  MaxDepth,        \* gitIncludeMaxDepth
  MaxAttempts      \* bound: preparations

(* What Git parses as a config: "rewriting" has URLs of GitHub lead        *)
(* elsewhere, "valueless" has a key without a value (an excludes file of   *)
(* single words is one, too).                                              *)
Valid == {"config", "rewriting", "valueless"}
Kind == Valid \cup {"missing", "unreadable", "malformed"}
Reference == [key: {"include", "excludes"}, to: File \cup {"empty", "unsupported"}]
Host == [kind: [File -> Kind], refs: [File -> Seq(Reference)]]

ASSUME GitConfigAssumption ==
  /\ IsFiniteSet(File) /\ Root \in File
  /\ {"empty", "unsupported"} \cap File = {}
  /\ Ident \in [File -> File] /\ \A f \in File : Ident[Ident[f]] = Ident[f]
  /\ DOMAIN Dest = File
  /\ Relocated \subseteq File
  /\ Histories \subseteq Seq(Host) \ {<<>>}
  /\ MaxDepth \in Nat \ {0} /\ MaxAttempts \in Nat \ {0}

VARIABLES
  host,          \* the host's files
  ahead,         \* what they will become
  steady,        \* they have not changed since the root was read
  github,        \* GitHub integration: the copies are checked
  unchecked,     \* a copy that the check refuses was passed over
  attempt,       \* which preparation this is
  phase,
  stack,         \* the calls of visit: file, contents, references left
  visited,       \* visited of gitConfigCopiesForGPG
  destinations,  \* the files that have a destination
  copies,        \* guest path -> text
  unpublished,   \* guest paths still to be written
  guest,         \* guest path -> what is there
  sets           \* the guest paths of each preparation's copies; none of 0

walkVars == <<stack, visited, destinations, copies>>
vars == <<host, ahead, steady, github, unchecked, attempt, phase, walkVars, unpublished, guest, sets>>

Attempt == 1..MaxAttempts
Nothing == [attempt |-> 0]   \* no preparation has written the guest path
GuestPath == {Dest[f] : f \in File}
RootPath == Dest[Root]
Over == {"done", "refused", "failed"}

(* What a file reads like: a config that was processed differs from the    *)
(* file when one of its references does.                                   *)
Text == [kind: Kind, refs: Seq(Reference), rewritten: BOOLEAN]
KindOf(f) == host.kind[Ident[f]]
Refs(f) == host.refs[Ident[f]]
Raw(f) == [kind |-> KindOf(f), refs |-> Refs(f), rewritten |-> FALSE]
Processed(text) ==
  [text EXCEPT !.rewritten = \E k \in DOMAIN text.refs : text.refs[k].to \in Relocated]

TypeOK ==
  /\ host \in Host /\ ahead \in Seq(Host)
  /\ steady \in BOOLEAN /\ github \in BOOLEAN /\ unchecked \in BOOLEAN
  /\ attempt \in Attempt
  /\ phase \in {"start", "walk", "check", "publish"} \cup Over
  /\ stack \in Seq([file: File, text: Text, rest: Seq(Reference)])
  /\ Len(stack) <= MaxDepth /\ (phase = "walk" => stack # <<>>)
  /\ visited \subseteq destinations /\ destinations \subseteq File
  /\ DOMAIN copies \subseteq GuestPath /\ \A d \in DOMAIN copies : copies[d] \in Text
  /\ unpublished \subseteq DOMAIN copies
  /\ guest \in [GuestPath -> [text: Text, attempt: Attempt, whole: BOOLEAN] \cup {Nothing}]
  /\ sets \in [0..MaxAttempts -> SUBSET GuestPath]

Fresh ==
  /\ phase = "start" /\ steady = TRUE /\ unchecked = FALSE
  /\ stack = <<>> /\ visited = {} /\ destinations = {}
  /\ copies = <<>> /\ unpublished = {}

Init ==
  /\ \E h \in Histories : host = Head(h) /\ ahead = Tail(h)
  /\ github \in BOOLEAN
  /\ attempt = 1
  /\ guest = [d \in GuestPath |-> Nothing]
  /\ sets = [n \in 0..MaxAttempts |-> {}]
  /\ Fresh

---------------------------------------------------------------------------
(* The walk over the host's files                                          *)
Put(f, d, v) == [x \in DOMAIN f \cup {d} |-> IF x = d THEN v ELSE f[x]]

Refuse == phase' = "refused" /\ UNCHANGED walkVars

(* sourceDestination *)
Collides(f) == \E g \in destinations : Dest[g] = Dest[f] /\ g # f

InProgress(f, calls) == \E k \in DOMAIN calls : Ident[calls[k].file] = Ident[f]

\* Mutant: a file counts as visited as soon as its visit begins.
VisitMarkedEarly(f, calls) ==
  \/ /\ \/ Collides(f)
        \/ Len(calls) >= MaxDepth
        \/ f \notin visited /\ KindOf(f) \in {"unreadable", "malformed"}
     /\ Refuse
  \/ /\ ~Collides(f) /\ Len(calls) < MaxDepth
     /\ f \in visited \/ KindOf(f) \in Valid \cup {"missing"}
     /\ destinations' = destinations \cup {f}
     /\ visited' = visited \cup {f}
     /\ stack' = IF f \in visited \/ KindOf(f) = "missing" THEN calls
                 ELSE Append(calls, [file |-> f, text |-> Raw(f), rest |-> Refs(f)])
     /\ phase' = IF stack' = <<>> THEN "check" ELSE "walk"
     /\ UNCHANGED copies

(* The call of visit on behalf of the last of `calls`. *)
Visit(f, calls) ==
  \/ /\ \/ Collides(f)
        \/ Len(calls) >= MaxDepth
        \/ InProgress(f, calls)
        \/ f \notin visited /\ KindOf(f) \in {"unreadable", "malformed"}
     /\ Refuse
  \/ /\ ~Collides(f) /\ Len(calls) < MaxDepth /\ ~InProgress(f, calls)
     /\ f \in visited \/ KindOf(f) \in Valid \cup {"missing"}
     /\ destinations' = destinations \cup {f}
     /\ stack' = IF f \in visited \/ KindOf(f) = "missing" THEN calls
                 ELSE Append(calls, [file |-> f, text |-> Raw(f), rest |-> Refs(f)])
     /\ phase' = IF stack' = <<>> THEN "check" ELSE "walk"
     /\ UNCHANGED <<visited, copies>>

(* copyExcludesFile: any text will do, and its depth does not matter.      *)
Differs(f) == Dest[f] \in DOMAIN copies /\ copies[Dest[f]] # Raw(f)
CopyExcludesFile(f, calls) ==
  \/ /\ \/ Collides(f)
        \/ KindOf(f) = "unreadable"
        \/ KindOf(f) # "missing" /\ Differs(f)
     /\ Refuse
  \/ /\ ~Collides(f) /\ KindOf(f) # "unreadable"
     /\ KindOf(f) # "missing" => ~Differs(f)
     /\ destinations' = destinations \cup {f}
     /\ copies' = IF KindOf(f) = "missing" THEN copies ELSE Put(copies, Dest[f], Raw(f))
     /\ stack' = calls
     /\ UNCHANGED <<visited, phase>>

Top == Last(stack)
Rest == Tail(Top.rest)
Calls == Append(Front(stack), [Top EXCEPT !.rest = Rest])

VisitRoot ==
  /\ phase = "start"
  /\ Visit(Root, <<>>)
  /\ UNCHANGED <<host, ahead, steady, github, unchecked, attempt, unpublished, guest, sets>>

(* The next reference of the file at the top. *)
Follow ==
  /\ phase = "walk" /\ Top.rest # <<>>
  /\ LET ref == Head(Top.rest) IN
     \/ ref.to = "empty" /\ ref.key = "excludes"
          /\ stack' = Calls /\ UNCHANGED <<phase, visited, destinations, copies>>
     \/ ref.to = "empty" /\ ref.key = "include" /\ Refuse
     \/ ref.to = "unsupported" /\ Refuse
     \/ ref.to \in File /\ ref.key = "include" /\ Visit(ref.to, Calls)
     \/ ref.to \in File /\ ref.key = "excludes" /\ CopyExcludesFile(ref.to, Calls)
  /\ UNCHANGED <<host, ahead, steady, github, unchecked, attempt, unpublished, guest, sets>>

(* All references were replaced. *)
Return ==
  /\ phase = "walk" /\ Top.rest = <<>>
  /\ copies' = Put(copies, Dest[Top.file], Processed(Top.text))
  /\ visited' = visited \cup {Top.file}
  /\ stack' = Front(stack)
  /\ phase' = IF stack' = <<>> THEN "check" ELSE "walk"
  /\ UNCHANGED <<host, ahead, steady, github, unchecked, attempt, destinations, unpublished, guest, sets>>

(* githubGitURLRewriteConflicts, on every copy that Git can parse: a       *)
(* rewrite of GitHub's URLs, and any entry without a value, is an error.   *)
RefusedForGitHub == {"rewriting", "valueless"}
Conflicts == github /\ \E d \in DOMAIN copies : copies[d].kind \in RefusedForGitHub

\* Mutant: every file with a destination is to be published, missing or not.
CheckAllDestinations ==
  /\ phase = "check"
  /\ \/ Conflicts /\ phase' = "refused" /\ UNCHANGED <<unchecked, unpublished, sets>>
     \/ /\ unchecked' = Conflicts
        /\ phase' = IF copies = <<>> THEN "done" ELSE "publish"
        /\ unpublished' = {Dest[f] : f \in destinations}
        /\ sets' = [sets EXCEPT ![attempt] = DOMAIN copies]
  /\ UNCHANGED <<host, ahead, steady, github, attempt, walkVars, guest>>

(* Any failure of host Git on a copy lets the check pass it over, as if it *)
(* were no configuration.                                                  *)
Check ==
  /\ phase = "check"
  /\ \/ Conflicts /\ phase' = "refused" /\ UNCHANGED <<unchecked, unpublished, sets>>
     \/ /\ unchecked' = Conflicts
        /\ phase' = IF copies = <<>> THEN "done" ELSE "publish"
        /\ unpublished' = DOMAIN copies
        /\ sets' = [sets EXCEPT ![attempt] = DOMAIN copies]
  /\ UNCHANGED <<host, ahead, steady, github, attempt, walkVars, guest>>

---------------------------------------------------------------------------
(* The guest: cat into a temporary file, then mv.  When the transfer is    *)
(* interrupted, nothing, all or a part of the text may be published: cat   *)
(* cannot tell the end of the text from the end of the connection.         *)
Copy(d, whole) == [text |-> copies[d], attempt |-> attempt, whole |-> whole]

Written(d, copy) ==
  /\ guest' = [guest EXCEPT ![d] = copy]
  /\ unpublished' = unpublished \ {d}
  /\ phase' = IF unpublished' = {} THEN "done" ELSE "publish"

CutOff(d) ==
  /\ \E v \in {guest[d], Copy(d, TRUE), Copy(d, FALSE)} : guest' = [guest EXCEPT ![d] = v]
  /\ phase' = "failed"
  /\ UNCHANGED unpublished

\* Mutant: in the order of the paths, whichever that is.
PublishAnyOrder(d) ==
  /\ phase = "publish" /\ d \in unpublished
  /\ Written(d, Copy(d, TRUE)) \/ CutOff(d)
  /\ UNCHANGED <<host, ahead, steady, github, unchecked, attempt, walkVars, sets>>

\* Mutant: a copy of the same text from an earlier preparation is kept.
PublishUnlessThere(d) ==
  /\ phase = "publish" /\ d \in unpublished
  /\ d = RootPath => unpublished = {d}
  /\ \/ Written(d, IF guest[d] # Nothing /\ guest[d].text = copies[d] THEN guest[d]
                   ELSE Copy(d, TRUE))
     \/ CutOff(d)
  /\ UNCHANGED <<host, ahead, steady, github, unchecked, attempt, walkVars, sets>>

(* The root is the last; the order of the others does not matter.          *)
Publish(d) ==
  /\ phase = "publish" /\ d \in unpublished
  /\ d = RootPath => unpublished = {d}
  /\ Written(d, Copy(d, TRUE)) \/ CutOff(d)
  /\ UNCHANGED <<host, ahead, steady, github, unchecked, attempt, walkVars, sets>>

---------------------------------------------------------------------------
(* A read or a host command fails, or the process is killed. *)
Interrupted ==
  /\ phase \notin Over
  /\ phase' = "failed"
  /\ UNCHANGED <<host, ahead, steady, github, unchecked, attempt, walkVars, unpublished, guest, sets>>

PrepareAgain ==
  /\ phase \in Over /\ attempt < MaxAttempts
  /\ attempt' = attempt + 1
  /\ phase' = "start" /\ steady' = TRUE /\ unchecked' = FALSE
  /\ stack' = <<>> /\ visited' = {} /\ destinations' = {}
  /\ copies' = <<>> /\ unpublished' = {}
  /\ UNCHANGED <<host, ahead, github, guest, sets>>

Edit ==
  /\ ahead # <<>>
  /\ host' = Head(ahead) /\ ahead' = Tail(ahead)
  /\ steady' = (phase = "start")
  /\ UNCHANGED <<github, unchecked, attempt, phase, walkVars, unpublished, guest, sets>>

Next ==
  \/ VisitRoot \/ Follow \/ Return \/ Check
  \/ \E d \in GuestPath : Publish(d)
  \/ Interrupted \/ PrepareAgain \/ Edit

Spec == Init /\ [][Next]_vars

---------------------------------------------------------------------------
(* The references of the host, without any order of visits                 *)
Targets(fs, key) ==
  {r \in UNION {ToSet(Refs(f)) : f \in {g \in fs : KindOf(g) \in Valid}} : r.key = key}

(* The files at the end of a chain of n includes, and those of any chain.  *)
Level[n \in 0..Cardinality(File)] ==
  IF n = 0 THEN {Root} ELSE {r.to : r \in Targets(Level[n - 1], "include")} \cap File
Configs == UNION {Level[n] : n \in 0..Cardinality(File)}
Excludes == {r.to : r \in Targets(Configs, "excludes")} \cap File
Present(fs) == {f \in fs : KindOf(f) # "missing"}

Below(f) == {Ident[r.to] : r \in {q \in Targets({f}, "include") : q.to \in File}}
Cyclic ==
  \E fs \in SUBSET {Ident[f] : f \in Configs} :
    fs # {} /\ \A f \in fs : Below(f) \cap fs # {}

Ambiguous == \E f, g \in Configs \cup Excludes : f # g /\ Dest[f] = Dest[g]
Unusable ==
  \/ \E f \in Configs : KindOf(f) \in {"unreadable", "malformed"}
  \/ \E f \in Excludes : KindOf(f) = "unreadable"
  \/ \E r \in Targets(Configs, "include") : r.to \notin File
  \/ \E r \in Targets(Configs, "excludes") : r.to = "unsupported"
TooDeep == MaxDepth <= Cardinality(File) /\ Level[MaxDepth] # {}
TwoTexts == \E f \in Present(Configs \cap Excludes) : Processed(Raw(f)) # Raw(f)
NotForGitHub == github /\ \E f \in Configs \cup Excludes : KindOf(f) \in RefusedForGitHub

(* A walk of files that nobody edits copies the root, all it includes and  *)
(* the excludes files, each with its text, whatever the order of the       *)
(* references and the links between files, or it refuses, and then there   *)
(* is a cause; with GitHub on, a key without a value in any of the files   *)
(* is one.  Cycles, two files with one destination, unusable files and     *)
(* paths are always refused.                                               *)
CopiedOrRefused ==
  /\ phase = "check" /\ steady =>
       /\ ~Cyclic /\ ~Ambiguous /\ ~Unusable
       /\ DOMAIN copies = {Dest[f] : f \in Present(Configs \cup Excludes)}
       /\ \A f \in Present(Configs) : copies[Dest[f]] = Processed(Raw(f))
       /\ \A f \in Present(Excludes \ Configs) : copies[Dest[f]] = Raw(f)
  /\ phase = "refused" /\ steady =>
       Cyclic \/ Ambiguous \/ Unusable \/ TooDeep \/ TwoTexts \/ NotForGitHub

(* The root in the guest never refers to a file that did not arrive: what  *)
(* was copied together with it is there, from then or from later, through  *)
(* every interrupted preparation and every edit.                           *)
RootComplete ==
  \A d \in sets[guest[RootPath].attempt] : guest[d].attempt >= guest[RootPath].attempt

(* After a successful preparation the guest has what the host has, whole,  *)
(* although transfers before were cut off, and with GitHub on nothing that *)
(* its check refuses, unless host Git failed during the check.  Only where *)
(* the host has no file may a copy of an earlier preparation remain.       *)
DoneMeansCopied ==
  phase = "done" =>
    /\ \A d \in DOMAIN copies : guest[d] # Nothing /\ guest[d].whole /\ guest[d].text = copies[d]
    /\ steady => \A f \in Present(Configs \cup Excludes) :
         LET copy == guest[Dest[f]] IN
         /\ copy # Nothing /\ copy.text.refs = Refs(f)
         /\ unchecked \/ ~(github /\ copy.text.kind \in RefusedForGitHub)
=============================================================================
