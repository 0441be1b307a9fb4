------------------------------ MODULE DoxyBuild ------------------------------
(***************************************************************************)
(* The XML binding of the documentation tool: a document is parsed, one    *)
(* child of its root at a time, into the objects of the generated classes  *)
(* (build, buildAttributes, buildChildren), written back (export) and      *)
(* parsed again.  What the classes keep is in DoxySchema; text.py, which   *)
(* turns a description into the string that goes into the Python module,   *)
(* is Description.                                                         *)
(*                                                                         *)
(* Characters are tokens: "t" stands for plain text, "m" for markup        *)
(* characters (< and &), "w" for white space that export adds, "[" and "]" *)
(* for the marks of a CDATA section in valueOf_, "x" for the rest of an    *)
(* entity, "repr" for what str() says of an object, "None" for str(None),  *)
(* "br" for the blank line after a paragraph.                              *)
(***************************************************************************)
EXTENDS Naturals, Sequences, FiniteSets, SequencesExt

CONSTANTS Classes,      \* the classes whose documents are parsed
          MaxChildren   \* how many children a root has at most

Xml == INSTANCE DoxySchema

ASSUME ClassesAssumption == Classes \subseteq DOMAIN Xml!Schema
ASSUME MaxChildrenAssumption == MaxChildren \in Nat

VARIABLES
    doc,     \* the part of the document read so far
    phase,   \* reading, failed, written, malformed or again
    obj,     \* the object build made of it
    out,     \* the document export wrote
    twice    \* what export writes of the object built from out

vars == <<doc, phase, obj, out, twice>>

-----------------------------------------------------------------------------
(* Documents, as minidom gives them: elements, text and CDATA sections.    *)

NoAttrs == [a \in {} |-> "v"]
Node(el, as, ks, txt) == [el |-> el, attrs |-> as, kids |-> ks, txt |-> txt]
TextNode(txt) == Node("#text", NoAttrs, <<>>, txt)
CData(txt) == Node("#cdata", NoAttrs, <<>>, txt)
Element(el, ks) == Node(el, NoAttrs, ks, <<>>)
IsElement(n) == n.el \notin {"#text", "#cdata"}

(* Adjacent text is one node for the parser.                               *)
Merged(ks) ==
    FoldLeft(LAMBDA s, n : IF s # <<>> /\ n.el = "#text" /\ Last(s).el = "#text"
                           THEN Front(s) \o <<TextNode(Last(s).txt \o n.txt)>>
                           ELSE Append(s, n),
             <<>>, ks)

Flat(ss) == FlattenSeq(ss)
Map(Op(_), s) == [i \in DOMAIN s |-> Op(s[i])]

-----------------------------------------------------------------------------
(* Objects.  An item is a MixedContainer, or the value of a field: text, a *)
(* simple value, or a complex one, whose object is the only member of obj. *)

Item(category, n, txt, o) == [category |-> category, name |-> n, txt |-> txt, obj |-> o]
TextItem(txt) == Item("Text", "", txt, <<>>)
Simple(n, txt) == Item("Simple", n, txt, <<>>)
Complex(n, o) == Item("Complex", n, <<>>, <<o>>)

KidOf(c, el) == {k \in Range(Xml!Schema[c].kids) : k.el = el}

(* A new object: an absent string is '' (the defaults of the subclasses),  *)
(* and so is the title of a compound; lists are empty.                     *)
New(c) ==
    LET ks == Range(Xml!Schema[c].kids)
        empty(k) == ~k.many /\ (k.class = "string" \/ (c = "compounddefType" /\ k.el = "title"))
    IN  [class |-> c, attrs |-> NoAttrs, valueOf |-> <<>>, content |-> <<>>, error |-> "",
         fields |-> [el \in {k.el : k \in ks} |->
                        LET k == CHOOSE j \in ks : j.el = el
                        IN  IF empty(k) THEN <<Simple(el, <<>>)>> ELSE <<>>],
         para |-> <<>>]

Failed(o, e) == [o EXCEPT !.error = e]

(* buildAttributes: the known ones are kept, a malformed number raises.    *)
buildAttributes(o, as) ==
    LET known == DOMAIN as \cap Xml!Schema[o.class].attrs
    IN  IF \E a \in known \cap Xml!Numbers : as[a] = "bad"
        THEN Failed(o, "ValueError")
        ELSE [o EXCEPT !.attrs = [a \in known |-> as[a]]]

(* The branch of a text node, and of a CDATA section.                      *)
buildText(o, txt) ==
    LET f == Xml!Schema[o.class].form
        kept == [o EXCEPT !.valueOf = IF f \in {"Text", "MixedText"} THEN @ \o txt ELSE @,
                          !.content = IF f \in {"Mixed", "MixedText"} THEN Append(@, TextItem(txt)) ELSE @]
    IN  [kept EXCEPT !.para = IF o.class = "docParaType" THEN Append(@, TextItem(txt)) ELSE @]

buildCData(o, txt) ==
    IF Xml!Schema[o.class].form \in {"Text", "MixedText"}
    THEN [o EXCEPT !.valueOf = @ \o <<"[">> \o txt \o <<"]">>]
    ELSE o

(* The text of an element that is kept as a string: the nodeValue of its   *)
(* children, which an element has not.                                     *)
StringOf(n) == Flat(Map(LAMBDA k : k.txt, n.kids))

(* Mutant: the last of a list replaces those before it.                    *)
keep_Last(o, k, item) ==
    IF Xml!Schema[o.class].form = "Mixed"
    THEN [o EXCEPT !.content = Append(@, item)]
    ELSE [o EXCEPT !.fields[k.el] = <<item>>]

(* A known element: a field of a Sequence, the next item of a Mixed.       *)
keep(o, k, item) ==
    IF Xml!Schema[o.class].form = "Mixed"
    THEN [o EXCEPT !.content = Append(@, item)]
    ELSE [o EXCEPT !.fields[k.el] = IF k.many THEN Append(@, item) ELSE <<item>>]

buildString(o, k, n) ==
    IF \E i \in DOMAIN n.kids : IsElement(n.kids[i])
    THEN Failed(o, "TypeError")
    ELSE keep(o, k, Simple(k.el, StringOf(n)))

RECURSIVE build(_, _)

(* Mutant: a paragraph keeps no reference.                                 *)
buildPara_Drops(o, n) == o

(* What a paragraph keeps besides: the references between its text.        *)
buildPara(o, n) ==
    IF o.class = "docParaType" /\ n.el = "ref"
    THEN [o EXCEPT !.para = Append(@, Complex("ref", build("docRefTextType", n)))]
    ELSE o

buildElement(o, n) ==
    LET ks == KidOf(o.class, n.el)
    IN  IF ks = {} THEN buildPara(o, n)
        ELSE LET k == CHOOSE j \in ks : TRUE
             IN  IF k.class = "string" THEN buildString(o, k, n)
                 ELSE LET v == build(k.class, n)
                      IN  IF v.error # "" THEN Failed(o, v.error) ELSE keep(o, k, Complex(k.el, v))

buildChildren(o, n) ==
    CASE n.el = "#text"  -> buildText(o, n.txt)
      [] n.el = "#cdata" -> buildCData(o, n.txt)
      [] OTHER           -> buildElement(o, n)

build(c, n) ==
    FoldLeft(LAMBDA o, k : IF o.error # "" THEN o ELSE buildChildren(o, k),
             buildAttributes(New(c), n.attrs), n.kids)

-----------------------------------------------------------------------------
(* Writing.  export gives the document a parser would read in its text.    *)

(* Mutant: text is quoted when it is kept and again when it is written.    *)
valueNodes_Twice(txt) ==
    LET quoted(s) == IF s = "m" THEN <<"m", "x">> ELSE <<s>>
    IN  IF txt = <<>> THEN <<>> ELSE <<TextNode(Flat(Map(quoted, txt)))>>

(* valueOf_ is quoted; the marks of a CDATA section become one again, and  *)
(* the markup in it has been quoted like the rest.                         *)
valueNodes(txt) ==
    LET quoted(d, s) == IF d /\ s = "m" THEN <<"m", "x">> ELSE <<s>>
        step(st, s) ==
            CASE s = "[" -> [data |-> TRUE,  nodes |-> Append(st.nodes, CData(<<>>))]
              [] s = "]" -> [data |-> FALSE, nodes |-> Append(st.nodes, TextNode(<<>>))]
              [] OTHER   -> [st EXCEPT !.nodes =
                                Append(Front(@), [Last(@) EXCEPT !.txt = @ \o quoted(st.data, s)])]
        all == FoldLeft(step, [data |-> FALSE, nodes |-> <<TextNode(<<>>)>>], txt).nodes
    IN  SelectSeq(all, LAMBDA n : n.el = "#cdata" \/ n.txt # <<>>)

(* Mutant: an absent attribute is written like one that is there.          *)
exportAttributes_Absent(o) ==
    [a \in Xml!Schema[o.class].attrs |->
        IF a \in DOMAIN o.attrs THEN o.attrs[a]
        ELSE IF a \in Xml!Numbers THEN "bad" ELSE "None"]

(* Only attributes that are there are written, but the required ones       *)
(* always, as str() of them.                                               *)
exportAttributes(o) ==
    [a \in DOMAIN o.attrs \cup Xml!Schema[o.class].always |->
        IF a \in DOMAIN o.attrs THEN o.attrs[a] ELSE "None"]

Space == TextNode(<<"w">>)
SimpleElement(item) == Element(item.name, IF item.txt = <<>> THEN <<>> ELSE <<TextNode(item.txt)>>)

RECURSIVE export(_, _)

(* A field.  The title of a compound was read as an object and is written  *)
(* as the string that it is not.                                           *)
exportField(o, k) ==
    Map(LAMBDA i : IF i.category = "Simple" THEN SimpleElement(i)
                   ELSE IF o.class = "compounddefType" /\ k.el = "title"
                        THEN Element("title", <<TextNode(<<"repr">>)>>)
                        ELSE export(i.obj[1], k.el),
        o.fields[k.el])

(* An item of mixed content: text as it is, an element with an indentation *)
(* before it and a line break after it.                                    *)
exportItem(i) ==
    CASE i.category = "Text"   -> <<TextNode(i.txt)>>
      [] i.category = "Simple" -> <<SimpleElement(i)>>
      [] OTHER                 -> <<Space, export(i.obj[1], i.name), Space>>

exportChildren(o) ==
    LET c == Xml!Schema[o.class]
    IN  CASE c.form = "Text"      -> <<Space>> \o valueNodes(o.valueOf) \o <<Space>>
          [] c.form = "MixedText" -> valueNodes(o.valueOf)
          [] c.form = "Mixed"     -> Flat(Map(exportItem, o.content))
          [] c.form = "Sequence"  -> Flat(Map(LAMBDA k : exportField(o, k), c.kids))

export(o, el) == Node(el, exportAttributes(o), Merged(exportChildren(o)), <<>>)

(* The text of a Text or Simple item is written without quoting: markup in *)
(* it makes the output something no parser reads.                          *)
RECURSIVE Readable(_)
Readable(o) ==
    /\ Xml!Schema[o.class].form = "Mixed" =>
          \A i \in DOMAIN o.content : \A j \in DOMAIN o.content[i].txt : o.content[i].txt[j] # "m"
    /\ \A i \in DOMAIN o.content : o.content[i].category = "Complex" => Readable(o.content[i].obj[1])
    /\ \A el \in DOMAIN o.fields : \A i \in DOMAIN o.fields[el] :
          o.fields[el][i].category = "Complex" => Readable(o.fields[el][i].obj[1])

-----------------------------------------------------------------------------
(* text.py: the string of a description, its ends stripped.                *)

RECURSIVE description_bit(_)
description_bit(o) ==
    LET bit(i) == (IF i.category = "Complex" THEN description_bit(i.obj[1]) ELSE i.txt)
                      \o (IF i.category = "Complex" /\ i.name = "para" THEN <<"br">> ELSE <<>>)
    IN  Flat(Map(bit, IF o.class = "docParaType" THEN o.para ELSE o.content))

RECURSIVE Stripped(_)
Stripped(txt) ==
    IF txt # <<>> /\ Last(txt) \in {"br", "w"} THEN Stripped(Front(txt))
    ELSE IF txt # <<>> /\ Head(txt) \in {"br", "w"} THEN Stripped(Tail(txt))
    ELSE txt

Description(o) == Stripped(description_bit(o))

-----------------------------------------------------------------------------
(* The documents: what the children of a root may look like, two levels    *)
(* deep, elements the class does not know among them.                      *)

Texts == {<<"t">>, <<"m">>}
Values(as, v) == [a \in as |-> v]
Bold == Element("bold", <<TextNode(<<"t">>)>>)   \* no class knows it

(* A string may hold anything; an object text and one of its elements.     *)
StringBodies == {<<>>, <<CData(<<"m">>)>>, <<Bold>>} \cup {<<TextNode(s)>> : s \in Texts}

ObjectBodies(c) ==
    LET els == {k.el : k \in Range(Xml!Schema[c].kids)}
                   \cup (IF c = "docParaType" THEN {"bold", "ref"} ELSE {})
    IN  {<<>>, <<TextNode(<<"m">>)>>}
            \cup {<<TextNode(<<"t">>), Element(el, <<TextNode(<<"t">>)>>)>> : el \in els}

Bodies(c) == IF c = "string" THEN StringBodies ELSE ObjectBodies(c)

AttrsOf(c) ==
    IF c = "string" THEN {NoAttrs}
    ELSE LET as == Xml!Schema[c].attrs
         IN  {NoAttrs, Values(as, "v")}
                 \cup {[Values(as, "v") EXCEPT ![a] = "bad"] : a \in as \cap Xml!Numbers}

Children(c) ==
    {TextNode(s) : s \in Texts} \cup {CData(s) : s \in Texts} \cup {Bold}
        \cup UNION {{Element(k.el, b) : b \in Bodies(k.class)}
                       \cup {Node(k.el, as, <<>>, <<>>) : as \in AttrsOf(k.class)} :
                    k \in Range(Xml!Schema[c].kids)}

Root == doc.el   \* a root is named for its class

-----------------------------------------------------------------------------
Nothing == New("scope")
NoDoc == Element("", <<>>)

(* parse: the root's object is made, and its attributes are read.          *)
Init ==
    \E c \in Classes : \E as \in AttrsOf(c) :
        /\ doc = Node(c, as, <<>>, <<>>)
        /\ obj = buildAttributes(New(c), as)
        /\ phase = IF obj.error = "" THEN "reading" ELSE "failed"
        /\ out = NoDoc
        /\ twice = NoDoc

(* The loop of build: one child more.  Text is not followed by text, which *)
(* the parser would have joined.                                           *)
ReadChild(n) ==
    /\ phase = "reading"
    /\ Len(doc.kids) < MaxChildren
    /\ (n.el = "#text" /\ doc.kids # <<>>) => Last(doc.kids).el # "#text"
    /\ doc' = [doc EXCEPT !.kids = Append(@, n)]
    /\ obj' = buildChildren(obj, n)
    /\ phase' = IF obj'.error = "" THEN "reading" ELSE "failed"
    /\ UNCHANGED <<out, twice>>

(* The end of the document; the object is written.                         *)
Write ==
    /\ phase = "reading"
    /\ out' = export(obj, Root)
    /\ phase' = IF Readable(obj) THEN "written" ELSE "malformed"
    /\ UNCHANGED <<doc, obj, twice>>

(* What was written is parsed, and its object written in turn.             *)
Reparse ==
    /\ phase = "written"
    /\ LET o == build(Root, out)
       IN  /\ twice' = IF o.error = "" THEN export(o, Root) ELSE NoDoc
           /\ phase' = IF o.error = "" THEN "again" ELSE "failed"
    /\ UNCHANGED <<doc, obj, out>>

Next ==
    \/ \E n \in Children(Root) : ReadChild(n)
    \/ Write
    \/ Reparse

Spec == Init /\ [][Next]_vars

-----------------------------------------------------------------------------
(* What a reader of a document takes from it: white space is left out, and *)
(* so are elements that say nothing.  So is the title of a compound: read  *)
(* as an object and written as a string, it comes back as str() of that    *)
(* object, and a compound without one comes back with an empty one, which  *)
(* is then read as an object like any other.                               *)
IsTitle(n, k) == n.el \in {"compounddefType", "compounddef"} /\ k.el = "title"

RECURSIVE Meaning(_)
Meaning(n) ==
    LET txt == SelectSeq(n.txt, LAMBDA s : s # "w")
        ks == SelectSeq(Map(LAMBDA k : Meaning(k), n.kids),
                        LAMBDA k : /\ ~IsTitle(n, k)
                                   /\ k.kids # <<>> \/ k.txt # <<>> \/ k.attrs # NoAttrs)
    IN  Node(n.el, n.attrs, Merged(ks), txt)

(* The documents the schema describes: known attributes and children, in   *)
(* its order where it has one, text where there is text and no CDATA.      *)
RECURSIVE Conforms(_, _)
Conforms(c, n) ==
    IF c = "string" THEN \A i \in DOMAIN n.kids : n.kids[i].el = "#text"
    ELSE LET f == Xml!Schema[c].form
             ks == Xml!Schema[c].kids
             at(el) == CHOOSE j \in DOMAIN ks : ks[j].el = el
         IN  /\ Xml!Schema[c].always \subseteq DOMAIN n.attrs
             /\ \A i \in DOMAIN n.kids :
                   IF n.kids[i].el = "#text" THEN f # "Sequence"
                   ELSE /\ \E j \in DOMAIN ks : ks[j].el = n.kids[i].el
                        /\ Conforms(ks[at(n.kids[i].el)].class, n.kids[i])
             /\ f = "Sequence" =>
                   \A i, j \in DOMAIN n.kids : i < j =>
                      \/ at(n.kids[i].el) < at(n.kids[j].el)
                      \/ /\ n.kids[i].el = n.kids[j].el
                         /\ ks[at(n.kids[i].el)].many

RECURSIVE Nodes(_)
Nodes(n) == {n} \cup UNION {Nodes(n.kids[i]) : i \in DOMAIN n.kids}

HasMarkedCData == \E n \in Nodes(doc) : n.el = "#cdata" /\ \E i \in DOMAIN n.txt : n.txt[i] = "m"
HasMarkup == \E n \in Nodes(doc) : \E i \in DOMAIN n.txt : n.txt[i] = "m"

(* A document of the schema comes back with all it said, in its order: no  *)
(* child is lost, doubled or moved by the way it takes through fields,     *)
(* lists, mixed content and valueOf_ (but see IsTitle).                    *)
Lossless ==
    (phase \in {"written", "again"} /\ Conforms(Root, doc)) =>
        Meaning(out) = Meaning(doc)

(* Whatever is parsed, what is written loses and gains nothing more when   *)
(* it goes round once again, white space aside; only markup in a CDATA     *)
(* section is quoted anew each time.                                       *)
Settles == (phase = "again" /\ ~HasMarkedCData) => Meaning(twice) = Meaning(out)

(* The binding reads what it wrote: a second parse never raises, and the   *)
(* output is ill-formed only when there is markup in the document.         *)
ReadsItself ==
    /\ phase = "failed" => out = NoDoc
    /\ phase = "malformed" => HasMarkup

(* The text of a document in its order, but for the elements that a        *)
(* paragraph does not keep.                                                *)
RECURSIVE TextOf(_)
TextOf(n) ==
    IF n.el = "#text" THEN n.txt
    ELSE IF n.el \in {"bold", "#cdata"} THEN <<>>
    ELSE Flat(Map(LAMBDA k : TextOf(k), n.kids)) \o (IF n.el = "para" THEN <<"br">> ELSE <<>>)

(* The documentation string of a description is the text of its titles,    *)
(* sections, paragraphs and references, none twice and none in the place   *)
(* of another, with a blank line after each paragraph (text.py).           *)
DescriptionInOrder ==
    (phase = "reading" /\ Root = "descriptionType") => Description(obj) = Stripped(TextOf(doc))
=============================================================================
