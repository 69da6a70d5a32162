-------------------------------- MODULE Acl --------------------------------
(***************************************************************************)
(* acl/Acl.kt as the connecting job uses it for custom rules: read the     *)
(* user's file, import the files it names and the ones they name, and save *)
(* the result for ss-local.  Imports may form cycles, and every file may   *)
(* choose its own mode, which decides whether its subnets are those of the *)
(* bypass lists or those of the proxy lists.                               *)
(*                                                                         *)
(* External: the servers of the imported files.  Abstracted: the order of  *)
(* a SortedList (it keeps no duplicates), the text of host names, subnets  *)
(* and URLs; a file does not change while it is being imported.            *)
(***************************************************************************)
EXTENDS Naturals, Sequences, SequencesExt

CONSTANTS
    Hosts, Subnets,    \* entries
    Urls,              \* what may be imported
    User,              \* the name of the user's own file
    Files,             \* contents a file may have: sequences of Line
    Failed,            \* the result of an operation that throws
    MaxDepth           \* 10 in VpnService

Empty == "empty"       \* a line without text
NoUrl == "no url"      \* a line without #IMPORT_URL
Blocks == {"outbound_block_list", "bypass_list", "proxy_list", "bypass_all",
           "proxy_all", "unrecognized"}
Line == [text : Hosts \union Subnets \union Blocks \union {Empty},
         url : Urls \union {NoUrl}]

VARIABLES
    content,   \* the content of every file
    pc,        \* the connecting job
    acl,       \* its Acl
    saved      \* custom-rules.acl, a sequence of Line

vars == <<content, pc, acl, saved>>

Rules == [bypassHostnames : SUBSET Hosts, proxyHostnames : SUBSET Hosts,
          subnets : SUBSET Subnets, urls : SUBSET Urls, bypass : BOOLEAN]

NoRules == [bypassHostnames |-> {}, proxyHostnames |-> {}, subnets |-> {},
            urls |-> {}, bypass |-> FALSE]

-----------------------------------------------------------------------------
(* Reading *)

\* An entry goes to the list of the current block, or nowhere.
AddEntry(p, x) ==
    IF x \in Subnets
    THEN CASE p.list = "bypass" -> [p EXCEPT !.bypassSubnets = @ \union {x}]
           [] p.list = "proxy"  -> [p EXCEPT !.proxySubnets = @ \union {x}]
           [] p.list = "none"   -> p
    ELSE CASE p.list = "bypass" -> [p EXCEPT !.bypassHostnames = @ \union {x}]
           [] p.list = "proxy"  -> [p EXCEPT !.proxyHostnames = @ \union {x}]
           [] p.list = "none"   -> p

\* One line; the URL in its comment is taken first.
ParseLine(q, line) ==
    LET p == IF line.url = NoUrl THEN q ELSE [q EXCEPT !.urls = @ \union {line.url}]
    IN  IF q.failed THEN q
        ELSE CASE line.text = Empty                  -> p
               [] line.text = "outbound_block_list"  -> [p EXCEPT !.list = "none"]
               [] line.text = "bypass_list"          -> [p EXCEPT !.list = "bypass"]
               [] line.text = "proxy_list"           -> [p EXCEPT !.list = "proxy"]
               [] line.text = "bypass_all"           -> [p EXCEPT !.bypass = TRUE]
               [] line.text = "proxy_all"            -> [p EXCEPT !.bypass = FALSE]
               [] line.text = "unrecognized"         -> [p EXCEPT !.failed = TRUE]
               [] line.text \in Hosts \union Subnets -> AddEntry(p, line.text)

\* Nothing has been read yet, and entries go to the given list.
Begin(mode, list) ==
    [bypass |-> mode, list |-> list, failed |-> FALSE, bypassHostnames |-> {},
     proxyHostnames |-> {}, bypassSubnets |-> {}, proxySubnets |-> {}, urls |-> {}]

\* What has been read after each line of a file.
Reading(lines, begin) ==
    LET after[i \in 0 .. Len(lines)] ==
            IF i = 0 THEN begin ELSE ParseLine(after[i - 1], lines[i])
    IN  after

\* Mutant of Parse: a file that says nothing begins in its bypass list.
ParseInBypassList(lines, defaultBypass) ==
    Reading(lines, Begin(defaultBypass, "bypass"))[Len(lines)]

Parse(lines, defaultBypass) ==
    Reading(lines, Begin(defaultBypass, IF defaultBypass THEN "proxy" ELSE "bypass"))[Len(lines)]

\* The mode that a file ends with decides which of its subnets are kept.
FromReader(lines, defaultBypass) ==
    LET p == Parse(lines, defaultBypass)
    IN  IF p.failed THEN Failed
        ELSE [bypassHostnames |-> p.bypassHostnames, proxyHostnames |-> p.proxyHostnames,
              subnets |-> IF p.bypass THEN p.proxySubnets ELSE p.bypassSubnets,
              urls |-> p.urls, bypass |-> p.bypass]

\* customRules: always in the mode bypass_all.
CustomRules(lines) ==
    LET a == FromReader(lines, TRUE)
    IN  IF a = Failed \/ a.bypass THEN a
        ELSE [a EXCEPT !.bypass = TRUE, !.subnets = {}]

-----------------------------------------------------------------------------
(* Importing *)

\* Mutant of Merge: the subnets of a child in the other mode are kept.
MergeAllSubnets(a, children) ==
    IF Failed \in children THEN Failed
    ELSE [a EXCEPT
            !.bypassHostnames = @ \union UNION {c.bypassHostnames : c \in children},
            !.proxyHostnames = @ \union UNION {c.proxyHostnames : c \in children},
            !.subnets = @ \union UNION {c.subnets : c \in children},
            !.urls = {}]

\* Mutant of Merge: the imported files stay to be imported again.
MergeKeepsUrls(a, children) ==
    IF Failed \in children THEN Failed
    ELSE [a EXCEPT
            !.bypassHostnames = @ \union UNION {c.bypassHostnames : c \in children},
            !.proxyHostnames = @ \union UNION {c.proxyHostnames : c \in children},
            !.subnets = @ \union UNION {c.subnets : c \in {x \in children : x.bypass = a.bypass}}]

\* What flatten adds to `a` from its imported and flattened children: subnets for
\* the different mode are discarded.
Merge(a, children) ==
    IF Failed \in children THEN Failed
    ELSE [a EXCEPT
            !.bypassHostnames = @ \union UNION {c.bypassHostnames : c \in children},
            !.proxyHostnames = @ \union UNION {c.proxyHostnames : c \in children},
            !.subnets = @ \union UNION {c.subnets : c \in {x \in children : x.bypass = a.bypass}},
            !.urls = {}]

\* Mutant of Flatten: the children's own imports are left out.
FlattenOnce(a, depth) ==
    Merge(a, {FromReader(content[u], a.bypass) : u \in a.urls})

\* A child, imported in the mode of its parent and flattened itself, with depth d
\* left for its own imports.
Child(depth) ==
    LET child[d \in 0 .. depth] ==
            [u \in Urls |-> [mode \in BOOLEAN |->
                LET c == FromReader(content[u], mode)
                IN  IF c = Failed THEN Failed
                    ELSE Merge(c, IF d = 0 THEN {} ELSE {child[d - 1][v][c.bypass] : v \in c.urls})]]
    IN  child

\* flatten(depth) of rules `a`: the children are flattened before they are merged.
Flatten(a, depth) ==
    Merge(a, IF depth = 0 THEN {} ELSE {Child(depth)[depth - 1][u][a.bypass] : u \in a.urls})

-----------------------------------------------------------------------------
(* Writing *)

Texts(s) == [i \in 1 .. Len(SetToSeq(s)) |-> [text |-> SetToSeq(s)[i], url |-> NoUrl]]
Block(b) == <<[text |-> b, url |-> NoUrl]>>
List(b, s) == IF s = {} THEN <<>> ELSE Block(b) \o Texts(s)

\* Mutant of AclToString: the subnets are always those of the bypass list.
AclToStringBypass(a) ==
    Block(IF a.bypass THEN "bypass_all" ELSE "proxy_all")
        \o List("bypass_list", a.subnets \union a.bypassHostnames)
        \o List("proxy_list", a.proxyHostnames)
        \o [i \in 1 .. Len(SetToSeq(a.urls)) |-> [text |-> Empty, url |-> SetToSeq(a.urls)[i]]]

AclToString(a) ==
    Block(IF a.bypass THEN "bypass_all" ELSE "proxy_all")
        \o List("bypass_list", (IF a.bypass THEN {} ELSE a.subnets) \union a.bypassHostnames)
        \o List("proxy_list", (IF a.bypass THEN a.subnets ELSE {}) \union a.proxyHostnames)
        \o [i \in 1 .. Len(SetToSeq(a.urls)) |-> [text |-> Empty, url |-> SetToSeq(a.urls)[i]]]

-----------------------------------------------------------------------------
(* The connecting job *)

Init ==
    /\ content \in [Urls \union {User} -> Files]
    /\ pc = "read" /\ acl = NoRules /\ saved = <<>>

Read ==
    /\ pc = "read"
    /\ LET a == CustomRules(content[User])
       IN  IF a = Failed THEN pc' = "failed" /\ UNCHANGED acl
                         ELSE pc' = "flatten" /\ acl' = a
    /\ UNCHANGED <<content, saved>>

\* A download may fail (connect throws), and a file that does not parse throws too.
FlattenAndSave ==
    /\ pc = "flatten"
    /\ \/ /\ acl.urls # {} \/ Flatten(acl, MaxDepth) = Failed
          /\ pc' = "failed" /\ UNCHANGED <<acl, saved>>
       \/ /\ Flatten(acl, MaxDepth) # Failed
          /\ acl' = Flatten(acl, MaxDepth)
          /\ pc' = "saved" /\ saved' = AclToString(acl')
    /\ UNCHANGED content

Next == Read \/ FlattenAndSave

Spec == Init /\ [][Next]_vars

-----------------------------------------------------------------------------
(* Properties *)

\* The rules that are saved import nothing any more and are in the mode
\* bypass_all.
TypeOK ==
    /\ content \in [Urls \union {User} -> Seq(Line)]
    /\ pc \in {"read", "flatten", "saved", "failed"}
    /\ acl \in Rules /\ saved \in Seq(Line)
    /\ pc = "saved" => acl.bypass /\ acl.urls = {}

\* The files that those of r import, each with the mode its reader begins in.
Imports(r) ==
    UNION {{<<v, FromReader(content[x[1]], x[2]).bypass>> :
                v \in FromReader(content[x[1]], x[2]).urls} : x \in r}

\* The files reached from those of r in fewer than d imports.
Within(r) ==
    LET within[d \in 1 .. MaxDepth] ==
            IF d = 1 THEN r ELSE within[d - 1] \union Imports(within[d - 1])
    IN  within

\* The files reached from the user's in at most MaxDepth imports.
Reached == Within({<<u, TRUE>> : u \in CustomRules(content[User]).urls})[MaxDepth]

\* Line i of a file that begins in the given mode is under the heading b.
Under(lines, mode, i, b) ==
    \/ \E j \in 1 .. i - 1 :
          /\ lines[j].text = b
          /\ \A k \in j + 1 .. i - 1 :
                lines[k].text \notin {"bypass_list", "proxy_list", "outbound_block_list"}
    \/ /\ b = (IF mode THEN "proxy_list" ELSE "bypass_list")
       /\ \A k \in 1 .. i - 1 :
             lines[k].text \notin {"bypass_list", "proxy_list", "outbound_block_list"}

\* The blocks `x` is listed under.
ListedUnder(lines, mode, x) ==
    {b \in {"bypass_list", "proxy_list"} :
        \E i \in DOMAIN lines : lines[i].text = x /\ Under(lines, mode, i, b)}

\* What the user's file and those reached from it list under b.
Listed(b) ==
    {x \in Hosts \union Subnets :
        \/ b \in ListedUnder(content[User], TRUE, x)
        \/ \E r \in Reached : b \in ListedUnder(content[r[1]], r[2], x)}

\* The host names saved are exactly those of the files reached, under the lists
\* they were found in, whatever cycles the imports form and however modes mix.
HostsAreThoseReached ==
    pc = "saved" =>
        /\ acl.bypassHostnames = Listed("bypass_list") \intersect Hosts
        /\ acl.proxyHostnames = Listed("proxy_list") \intersect Hosts

\* A subnet ss-local is told to proxy was listed to be proxied in the user's file
\* or in one it imports: no combination of modes turns a subnet that a file
\* bypasses into one that is proxied.
SubnetsKeepTheirSide == pc = "saved" => acl.subnets \subseteq Listed("proxy_list")

\* What was saved is read back as it was (fromId of the file toString wrote).
SavedIsReadBack == pc = "saved" => FromReader(saved, FALSE) = acl
=============================================================================
