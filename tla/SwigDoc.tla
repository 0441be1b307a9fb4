------------------------------- MODULE SwigDoc -------------------------------
(***************************************************************************)
(* The documentation tool: docs/doxygen/swig_doc.py over the classes of    *)
(* doxyxml/base.py and doxyxml/doxyindex.py.  It reads the index doxygen   *)
(* wrote, parses the file of a compound when something of it is first      *)
(* asked for, and writes a docstring for every block, function and class.  *)
(*                                                                         *)
(* A compound of the index is [kind, name, lacks, xml, mems]: xml says     *)
(* what comes of reading its file ("ok", "malformed", which is an          *)
(* ExpatError, or "unreadable", any other exception: the file is missing, a*)
(* number in it is none, it holds no compound), and mems are the members   *)
(* the sections of the file list, [kind, name, lacks].  An element lacks a *)
(* "description" when one of its two is not there, though they may be      *)
(* empty, and else "names" when a parameter of a function has none.  Names *)
(* of elements are sequences, so that make_name and the name of a header   *)
(* are made of the class's name; none is that of an operator, which gets no*)
(* entry, and an entry whose text is empty counts as one.                  *)
(***************************************************************************)
EXTENDS Naturals, Sequences, FiniteSets, SequencesExt

CONSTANTS Compounds,   \* the compounds an index may list
          MaxIndex     \* how many it lists at most

(* Functions are members of classes and files, which are compounds.        *)
Names == Seq(STRING) \ {<<>>}
Lacks == {"nothing", "names", "description"}
Memberdefs == [kind : STRING \ {"class", "file"}, name : Names, lacks : Lacks]

ASSUME CompoundsAssumption ==
    Compounds \subseteq [kind : STRING \ {"function"}, name : Names, lacks : Lacks \ {"names"},
                        xml : {"ok", "malformed", "unreadable"}, mems : Seq(Memberdefs)]
ASSUME MaxIndexAssumption == MaxIndex \in Nat

VARIABLES
    index,     \* the compounds of index.xml, in its order
    pc,        \* the loop the program is in
    i,         \* the next element of that loop
    members,   \* _members of the DoxyIndex
    parsed,    \* the compounds whose file has been read
    error,     \* those of them with _error set
    blocks,    \* the members of category Block
    makes,     \* make_funcs
    output     \* the entries, in order

vars == <<index, pc, i, members, parsed, error, blocks, makes, output>>

make_name(n) == <<Head(n), "make">> \o Tail(n)
header(n) == Append(n, ".h")
IsHeader(n) == Last(n) = ".h"

(* The kinds that one of mem_classes can parse, compounds and members.     *)
KnownKinds == {"function", "class", "file", "namespace", "group", "friend", "variable",
               "struct", "union", "define", "typedef", "enum", "dir", "page"}

(* An object made of a compound or a member; at is the compound's place in *)
(* the index, 0 for a member.  convert_mem gives None for an unknown kind. *)
None == [kind |-> "None", name |-> <<>>, at |-> 0, lacks |-> "nothing"]
convert_mem(m, at) ==
    IF m.kind \in KnownKinds
    THEN [kind |-> m.kind, name |-> m.name, at |-> at, lacks |-> m.lacks] ELSE None

(* Mutant: a member that several sections list is taken for each.          *)
process_memberdefs_All(mems) == [k \in DOMAIN mems |-> convert_mem(mems[k], 0)]

(* The elements of s at the places in P, in their order.                   *)
Picked(s, P) ==
    LET upTo[n \in 0..Len(s)] ==
            IF n = 0 THEN <<>> ELSE IF n \in P THEN Append(upTo[n - 1], s[n]) ELSE upTo[n - 1]
    IN  upTo[Len(s)]

(* A member's name is taken once: the class it is compared with is that of *)
(* the parsed element, the same for all members.                           *)
IsFirst(mems, k) == \A l \in 1..(k - 1) : mems[l].name # mems[k].name
process_memberdefs(mems) ==
    LET first == Picked(mems, {k \in DOMAIN mems : IsFirst(mems, k)})
    IN  [k \in DOMAIN first |-> convert_mem(first[k], 0)]

in_category(ms, kind) == Picked(ms, {k \in DOMAIN ms : ms[k].kind = kind})
Named(ms, kind, n) == {k \in DOMAIN ms : ms[k].kind = kind /\ ms[k].name = n}

(* get_member raises NoSuchMember or Duplicate unless there is just one.   *)
Single(ms, kind, n) == Cardinality(Named(ms, kind, n)) = 1

MembersOf(m) == process_memberdefs(index[m.at].mems)

-----------------------------------------------------------------------------
Init ==
    /\ index \in UNION {[1..n -> Compounds] : n \in 0..MaxIndex}
    /\ \A a, b \in DOMAIN index :   \* but for files, names are unique
          ~(a # b /\ index[a].kind = index[b].kind /\ index[a].kind # "file" /\ index[a].name = index[b].name)
    /\ pc = "index"
    /\ i = 1
    /\ members = <<>>
    /\ parsed = {}
    /\ error = {}
    /\ blocks = <<>>
    /\ makes = {}
    /\ output = <<>>

Crash == pc' = "crashed" /\ UNCHANGED <<index, i, members, parsed, error, blocks, makes, output>>

(* retrieve_data of the compound at place at: ExpatError sets _error; what *)
(* else reading the file raises, nobody catches.                           *)
Parse(at) ==
    /\ parsed' = parsed \cup {at}
    /\ error' = IF index[at].xml = "malformed" THEN error \cup {at} ELSE error

(* DoxyIndex._parse.  The class is looked up a second time outside the try *)
(* of convert_mem, and the members of a header are its own: DoxyFile looks *)
(* at the data of its file before it looks at _error.                      *)
IndexCompound ==
    /\ pc = "index" /\ i <= Len(index)
    /\ LET c == index[i]
           listed == convert_mem(c, i)
       IN  IF c.kind \notin KnownKinds THEN Crash
           ELSE IF c.kind = "file" /\ IsHeader(c.name)
           THEN IF c.xml # "ok" THEN Crash
                ELSE /\ Parse(i)
                     /\ members' = Append(members \o process_memberdefs(c.mems), listed)
                     /\ i' = i + 1
                     /\ UNCHANGED <<index, pc, blocks, makes, output>>
           ELSE /\ members' = IF c.kind = "file" THEN members ELSE Append(members, listed)
                /\ i' = i + 1
                /\ UNCHANGED <<index, pc, parsed, error, blocks, makes, output>>

(* Mutant: includes asks a class with an error for its members.            *)
Classify_Unchecked ==
    /\ pc = "blocks" /\ i <= Len(members)
    /\ LET m == members[i]
       IN  IF m.kind # "class"
           THEN i' = i + 1 /\ UNCHANGED <<index, pc, members, parsed, error, blocks, makes, output>>
           ELSE IF index[m.at].xml # "ok" THEN Crash
           ELSE /\ Parse(m.at)
                /\ blocks' = IF Single(MembersOf(m), "friend", make_name(m.name))
                             THEN Append(blocks, m) ELSE blocks
                /\ i' = i + 1
                /\ UNCHANGED <<index, pc, members, makes, output>>

(* Block.includes, for in_category(Block): a class without an error that   *)
(* has a friend of the make function's name.                               *)
Classify ==
    /\ pc = "blocks" /\ i <= Len(members)
    /\ LET m == members[i]
       IN  IF m.kind # "class"
           THEN i' = i + 1 /\ UNCHANGED <<index, pc, members, parsed, error, blocks, makes, output>>
           ELSE IF index[m.at].xml = "unreadable" THEN Crash
           ELSE /\ Parse(m.at)
                /\ blocks' = IF m.at \notin error' /\ Single(MembersOf(m), "friend", make_name(m.name))
                             THEN Append(blocks, m) ELSE blocks
                /\ i' = i + 1
                /\ UNCHANGED <<index, pc, members, makes, output>>

Entry(what, n, at, from) == [what |-> what, name |-> n, at |-> at, from |-> from]

(* make_class_entry: the class, then each of its functions.                *)
ClassEntries(m, from) ==
    LET fs == in_category(MembersOf(m), "function")
    IN  <<Entry("class", m.name, m.at, from)>>
            \o [k \in DOMAIN fs |-> Entry("method", fs[k].name, m.at, {"function"})]

(* What a class and its functions say can be combined: stripping a         *)
(* description that is not there, or joining the names of parameters that  *)
(* have none, raises an exception that nobody catches.                     *)
Combines(m) ==
    /\ m.lacks # "description"
    /\ LET fs == in_category(MembersOf(m), "function") IN \A k \in DOMAIN fs : fs[k].lacks = "nothing"

(* make_block_entry: the descriptions of the class, of its make function   *)
(* and of its header, if there is one, go into one; the parameters are     *)
(* those of the constructor.  Only a ParsingError would be caught.         *)
BlockEntry ==
    /\ pc = "entries" /\ i <= Len(blocks)
    /\ LET b == blocks[i]
           makers == Named(members, "function", make_name(b.name))
           files == Named(members, "file", header(b.name))
           from == {"class", "make"} \cup (IF Cardinality(files) = 1 THEN {"file"} ELSE {})
       IN  IF \/ Cardinality(makers) # 1
              \/ Cardinality(files) > 1
              \/ ~Single(MembersOf(b), "function", b.name)
              \/ ~Combines(b) \/ \E k \in makers \cup files : members[k].lacks = "description"
           THEN Crash
           ELSE /\ makes' = makes \cup {make_name(b.name)}
                /\ output' = output \o ClassEntries(b, from)
                                    \o <<Entry("function", make_name(b.name), 0, from)>>
                /\ i' = i + 1
                /\ UNCHANGED <<index, pc, members, parsed, error, blocks>>

(* Mutant: make functions are documented like others as well.              *)
FunctionEntry_Again ==
    /\ pc = "functions" /\ i <= Len(members)
    /\ output' = IF members[i].kind = "function"
                 THEN Append(output, Entry("function", members[i].name, 0, {"function"}))
                 ELSE output
    /\ i' = i + 1
    /\ UNCHANGED <<index, pc, members, parsed, error, blocks, makes>>

(* A function that is not the make function of a block.                    *)
FunctionEntry ==
    /\ pc = "functions" /\ i <= Len(members)
    /\ LET f == members[i]
           mine == f.kind = "function" /\ f.name \notin makes
       IN  IF mine /\ f.lacks # "nothing" THEN Crash
           ELSE /\ output' = IF mine
                             THEN Append(output, Entry("function", f.name, 0, {"function"}))
                             ELSE output
                /\ i' = i + 1
                /\ UNCHANGED <<index, pc, members, parsed, error, blocks, makes>>

(* A class that is no block; its ParsingError is caught, and nothing else. *)
ClassEntry ==
    /\ pc = "classes" /\ i <= Len(members)
    /\ LET m == members[i]
           mine == /\ m.kind = "class"
                   /\ \A k \in DOMAIN blocks : blocks[k].name # m.name
                   /\ m.at \notin error
       IN  IF mine /\ ~Combines(m) THEN Crash
           ELSE /\ output' = IF mine THEN output \o ClassEntries(m, {"class"}) ELSE output
                /\ i' = i + 1
                /\ UNCHANGED <<index, pc, members, parsed, error, blocks, makes>>

(* A loop ends and the next begins; the file is written after the last.    *)
Follows == [index |-> "blocks", blocks |-> "entries", entries |-> "functions",
            functions |-> "classes", classes |-> "written"]
LoopEnds ==
    /\ pc \in DOMAIN Follows
    /\ i > CASE pc = "index" -> Len(index)
             [] pc = "entries" -> Len(blocks)
             [] OTHER -> Len(members)
    /\ pc' = Follows[pc]
    /\ i' = 1
    /\ UNCHANGED <<index, members, parsed, error, blocks, makes, output>>

Next == IndexCompound \/ Classify \/ BlockEntry \/ FunctionEntry \/ ClassEntry \/ LoopEnds

Spec == Init /\ [][Next]_vars

-----------------------------------------------------------------------------
Places(kind) == {p \in DOMAIN index : index[p].kind = kind}
Headers == {p \in Places("file") : IsHeader(index[p].name)}
Count(what, n, at) ==
    Cardinality({k \in DOMAIN output :
                    output[k].what = what /\ output[k].name = n /\ output[k].at = at})

(* Whether a file lists a member of a kind and name before any other of    *)
(* that name, and how many headers so list a function.                     *)
Lists(p, kind, n) ==
    LET ms == index[p].mems
    IN  \E k \in DOMAIN ms : ms[k].kind = kind /\ ms[k].name = n /\ IsFirst(ms, k)
Declared(n) == Cardinality({p \in Headers : Lists(p, "function", n)})
IsBlock(p) == index[p].xml = "ok" /\ Lists(p, "friend", make_name(index[p].name))

(* Every class whose file can be parsed is documented once, as a block or  *)
(* as a class, with each of its functions once however many sections list  *)
(* it; a class whose file is malformed costs its own entries and no other  *)
(* (the ParsingError that make_swig_interface_file catches).               *)
ClassesOnce ==
    pc = "written" => \A p \in Places("class") :
        LET ok == IF index[p].xml = "ok" THEN 1 ELSE 0
        IN  /\ Count("class", index[p].name, p) = ok
            /\ \A m \in Range(index[p].mems) :
                  m.kind = "function" =>
                     Count("method", m.name, p) = IF Lists(p, "function", m.name) THEN ok ELSE 0

(* Every function of a header is documented, once for each header that     *)
(* declares it; a make function once, with the text of its block, whatever *)
(* the order in which the index lists classes and headers.                 *)
FunctionsOnce ==
    pc = "written" =>
        \A p \in Headers : \A m \in Range(index[p].mems) :
            LET makers == {b \in Places("class") : IsBlock(b) /\ make_name(index[b].name) = m.name}
            IN  /\ m.kind = "function" => Count("function", m.name, 0) = Declared(m.name)
                /\ \A b \in makers : \E k, l \in DOMAIN output :
                      /\ output[k].what = "class" /\ output[k].at = b
                      /\ output[l].what = "function" /\ output[l].name = m.name
                      /\ output[k].from = output[l].from

(* A function that is listed, in a header or a class, and cannot be written*)
(* for what it lacks; the make functions, those named in makers, are given *)
(* other parameters.                                                       *)
MakeNames == {make_name(index[b].name) : b \in {b \in Places("class") : IsBlock(b)}}
Faulty(p, makers) ==
    LET ms == index[p].mems
    IN  \E k \in DOMAIN ms :
            /\ ms[k].kind = "function" /\ IsFirst(ms, k)
            /\ \/ ms[k].lacks = "description"
               \/ ms[k].lacks = "names" /\ ms[k].name \notin makers

(* What stops the program, said of index and files alone: a kind it does   *)
(* not know; a header with any fault, or a class whose file is unreadable  *)
(* and not just malformed; a class, or a function of a class or header,    *)
(* that lacks a description, and a function with a nameless parameter that *)
(* is no make function; and a block that has not just one make function, no*)
(* constructor, more headers of its name than one, or one that lacks a     *)
(* description.                                                            *)
Stopper(p) ==
    LET c == index[p]
        ofItsName == {h \in Headers : index[h].name = header(c.name)}
    IN  \/ c.kind \notin KnownKinds
        \/ p \in Headers /\ (c.xml # "ok" \/ Faulty(p, MakeNames))
        \/ c.kind = "class" /\ c.xml = "unreadable"
        \/ c.kind = "class" /\ c.xml = "ok" /\ (c.lacks = "description" \/ Faulty(p, {}))
        \/ /\ c.kind = "class" /\ IsBlock(p)
           /\ \/ Declared(make_name(c.name)) # 1
              \/ ~Lists(p, "function", c.name)
              \/ Cardinality(ofItsName) > 1
              \/ \E h \in ofItsName : index[h].lacks = "description"

(* The program stops for one of these, and only for one of these: no order *)
(* of the index and no malformed class makes the difference                *)
(* (Block.includes: "Check for a parsing error").  In particular an        *)
(* ExpatError in a class's file costs that class alone (retrieve_data      *)
(* catches it), while any other fault in it costs the whole output.        *)
StopsFor ==
    /\ pc = "crashed" => \E p \in DOMAIN index : Stopper(p)
    /\ pc = "written" => \A p \in DOMAIN index : ~Stopper(p)
=============================================================================
