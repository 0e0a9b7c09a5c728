--------------------------- MODULE MCProvisioning ---------------------------
(* A Debian guest: nothing, all or some of it is there, or fails.          *)
EXTENDS Provisioning

MCPackage == {"git", "gh", "gpg", "pipx", "nodejs"}
MCExecutable == {"apt-get", "git", "gh", "gpg", "gpgconf", "pipx", "uv", "prek",
                 "node", "npm", "agent"}
MCProvides ==
  [p \in MCPackage |-> CASE p = "nodejs" -> {"node", "npm"}
                         [] p = "gpg" -> {"gpg", "gpgconf"}
                         [] OTHER -> {p}]
MCBackend == [tools |-> <<"apt-get">>, git |-> "git", gh |-> "gh", gpg |-> "gpg",
              node |-> <<"nodejs">>]
MCRuntime == <<"node", "npm">>
MCTool == {"uv", "prek"}
MCToolDefinition ==
  [t \in MCTool |-> IF t = "uv"
     THEN [natives |-> <<"pipx">>, prerequisites |-> <<>>, by |-> "pipx"]
     ELSE [natives |-> <<>>, prerequisites |-> <<"uv">>, by |-> "uv"]]

MCRequest(packages, tools, options, update) ==
  [packages |-> packages, tools |-> tools, git |-> "git" \in options,
   github |-> "github" \in options, gpg |-> "gpg" \in options, update |-> update]

MCRequests ==
  {MCRequest(<<"git">>, <<"prek", "uv">>, {"git"}, "no"),
   MCRequest(<<>>, <<>>, {"github"}, "no"),
   MCRequest(<<>>, <<>>, {"gpg"}, "yes"),
   MCRequest(<<"git">>, <<>>, {}, "no"),
   MCRequest(<<>>, <<>>, {}, "legacy")}

(* An empty and a full guest, each with one executable that differs.       *)
MCGuests ==
  {[installed |-> IF h = "works" THEN MCPackage ELSE {},
    exe |-> [[e \in MCExecutable |-> IF e = "apt-get" THEN "works" ELSE h] EXCEPT ![x] = hx]] :
     h \in {"absent", "works"}, x \in MCExecutable, hx \in Health}
=============================================================================
