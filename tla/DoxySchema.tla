----------------------------- MODULE DoxySchema -----------------------------
(***************************************************************************)
(* What each class of the XML binding reads and writes: the classes of     *)
(* docs/doxygen/doxyxml/generated/compoundsuper.py and indexsuper.py, one  *)
(* definition each.  A class is described by what its buildAttributes,     *)
(* buildChildren, exportAttributes and exportChildren do, as one of four   *)
(* forms:                                                                  *)
(*   Text       keeps the text of the element in valueOf_ and writes it;   *)
(*   MixedText  keeps it in content_ too, and writes valueOf_ only;        *)
(*   Mixed      keeps text and known elements in content_, in their order, *)
(*              and writes content_;                                       *)
(*   Sequence   keeps each known element in a field of its name and writes *)
(*              the fields in the order of the schema.                     *)
(* The operators that build and write documents are in DoxyBuild.          *)
(***************************************************************************)
EXTENDS Sequences, FiniteSets

Class(f, as, ks) == [form |-> f, attrs |-> as, always |-> {}, kids |-> ks]
Text(as) == Class("Text", as, <<>>)
MixedText(as) == Class("MixedText", as, <<>>)
Mixed(as, ks) == Class("Mixed", as, ks)
Sequence(as, ks) == Class("Sequence", as, ks)

(* Attributes that are written even when the object has none.              *)
Always(c, as) == [c EXCEPT !.always = as]

(* A child element: its class ("string" when only its text is kept), and   *)
(* whether every one of its name is kept or the last one only.             *)
Child(el, c, all) == [el |-> el, class |-> c, many |-> all]
One(el, c) == Child(el, c, FALSE)
Many(el, c) == Child(el, c, TRUE)
Str(el) == Child(el, "string", FALSE)
Strs(el) == Child(el, "string", TRUE)

(* The children ks of a class in the order exportChildren writes them.     *)
Ordered(ks, els) == [i \in DOMAIN els |-> CHOOSE k \in ks : k.el = els[i]]

(* Attributes that are read with int().                                    *)
Numbers == {"lineno", "startline", "endline", "bodystart", "line", "bodyend", "rows", "cols", "level"}

(***************************************************************************)
(* The classes of compoundsuper.py, in the order of the file.              *)
(***************************************************************************)
DoxygenType == Always(Sequence({"version"}, <<One("compounddef", "compounddefType")>>), {"version"})
compounddefChildren ==
    {Str("compoundname"), One("title", "docTitleType"),
     Many("basecompoundref", "compoundRefType"),
     Many("derivedcompoundref", "compoundRefType"), Many("includes", "incType"),
     Many("includedby", "incType"), One("incdepgraph", "graphType"),
     One("invincdepgraph", "graphType"), Many("innerdir", "refType"),
     Many("innerfile", "refType"), Many("innerclass", "refType"),
     Many("innernamespace", "refType"), Many("innerpage", "refType"),
     Many("innergroup", "refType"), One("templateparamlist", "templateparamlistType"),
     Many("sectiondef", "sectiondefType"), One("briefdescription", "descriptionType"),
     One("detaileddescription", "descriptionType"),
     One("inheritancegraph", "graphType"), One("collaborationgraph", "graphType"),
     One("programlisting", "listingType"), One("location", "locationType"),
     One("listofallmembers", "listofallmembersType")}
compounddefOrder ==
    <<"compoundname", "title", "basecompoundref", "derivedcompoundref", "includes",
      "includedby", "incdepgraph", "invincdepgraph", "innerdir", "innerfile",
      "innerclass", "innernamespace", "innerpage", "innergroup", "templateparamlist",
      "sectiondef", "briefdescription", "detaileddescription", "inheritancegraph",
      "collaborationgraph", "programlisting", "location", "listofallmembers">>
compounddefType == Sequence({"kind", "prot", "id"},
    Ordered(compounddefChildren, compounddefOrder))
listofallmembersType == Sequence({}, <<Many("member", "memberRefType")>>)
memberRefType == Sequence({"virt", "prot", "refid", "ambiguityscope"},
    <<Str("scope"), Str("name")>>)
scope == Text({})
name == Text({})
compoundRefType == MixedText({"virt", "prot", "refid"})
reimplementType == MixedText({"refid"})
incType == MixedText({"local", "refid"})
refType == MixedText({"prot", "refid"})
refTextType == MixedText({"refid", "kindref", "external"})
sectiondefType == Sequence({"kind"},
    <<Str("header"), One("description", "descriptionType"), Many("memberdef", "memberdefType")>>)
memberdefChildren ==
    {One("templateparamlist", "templateparamlistType"), One("type", "linkedTextType"),
     Str("definition"), Str("argsstring"), Str("name"), Str("read"), Str("write"),
     Str("bitfield"), Many("reimplements", "reimplementType"),
     Many("reimplementedby", "reimplementType"), Many("param", "paramType"),
     Many("enumvalue", "enumvalueType"), One("initializer", "linkedTextType"),
     One("exceptions", "linkedTextType"), One("briefdescription", "descriptionType"),
     One("detaileddescription", "descriptionType"),
     One("inbodydescription", "descriptionType"), One("location", "locationType"),
     Many("references", "referenceType"), Many("referencedby", "referenceType")}
memberdefOrder ==
    <<"templateparamlist", "type", "definition", "argsstring", "name", "read", "write",
      "bitfield", "reimplements", "reimplementedby", "param", "enumvalue",
      "initializer", "exceptions", "briefdescription", "detaileddescription",
      "inbodydescription", "location", "references", "referencedby">>
memberdefType == Sequence(
    {"initonly", "kind", "volatile", "const", "raise", "virt", "readable", "prot",
     "explicit", "new", "final", "writable", "add", "static", "remove", "sealed",
     "mutable", "gettable", "inline", "settable", "id"},
    Ordered(memberdefChildren, memberdefOrder))
definition == Text({})
argsstring == Text({})
read == Text({})
write == Text({})
bitfield == Text({})
descriptionType == Mixed({},
    <<Many("title", "docTitleType"), Many("para", "docParaType"),
      Many("sect1", "docSect1Type"), Many("internal", "docInternalType")>>)
enumvalueType == Mixed({"prot", "id"},
    <<Strs("name"), Many("initializer", "linkedTextType"),
      Many("briefdescription", "descriptionType"),
      Many("detaileddescription", "descriptionType")>>)
templateparamlistType == Sequence({}, <<Many("param", "paramType")>>)
paramType == Sequence({},
    <<One("type", "linkedTextType"), Str("declname"), Str("defname"), Str("array"),
      One("defval", "linkedTextType"), One("briefdescription", "descriptionType")>>)
declname == Text({})
defname == Text({})
array == Text({})
linkedTextType == Mixed({}, <<Many("ref", "docRefTextType")>>)
graphType == Sequence({}, <<Many("node", "nodeType")>>)
nodeType == Sequence({"id"},
    <<Str("label"), One("link", "linkType"), Many("childnode", "childnodeType")>>)
label == Text({})
childnodeType == Sequence({"relation", "refid"}, <<Strs("edgelabel")>>)
edgelabel == Text({})
linkType == Text({"refid", "external"})
listingType == Sequence({}, <<Many("codeline", "codelineType")>>)
codelineType == Sequence({"external", "lineno", "refkind", "refid"},
    <<Many("highlight", "highlightType")>>)
highlightType == Mixed({"class"}, <<Strs("sp"), Many("ref", "docRefTextType")>>)
sp == Text({})
referenceType == MixedText({"endline", "startline", "refid", "compoundref"})
locationType == Text({"bodystart", "line", "bodyend", "bodyfile", "file"})
docSect1Type == Mixed({"id"},
    <<Many("title", "docTitleType"), Many("para", "docParaType"),
      Many("sect2", "docSect2Type"), Many("internal", "docInternalS1Type")>>)
docSect2Type == Mixed({"id"},
    <<Many("title", "docTitleType"), Many("para", "docParaType"),
      Many("sect3", "docSect3Type"), Many("internal", "docInternalS2Type")>>)
docSect3Type == Mixed({"id"},
    <<Many("title", "docTitleType"), Many("para", "docParaType"),
      Many("sect4", "docSect4Type"), Many("internal", "docInternalS3Type")>>)
docSect4Type == Mixed({"id"},
    <<Many("title", "docTitleType"), Many("para", "docParaType"),
      Many("internal", "docInternalS4Type")>>)
docInternalType == Mixed({}, <<Many("para", "docParaType"), Many("sect1", "docSect1Type")>>)
docInternalS1Type == Mixed({}, <<Many("para", "docParaType"), Many("sect2", "docSect2Type")>>)
docInternalS2Type == Mixed({}, <<Many("para", "docParaType"), Many("sect3", "docSect3Type")>>)
docInternalS3Type == Mixed({}, <<Many("para", "docParaType"), Many("sect3", "docSect4Type")>>)
docInternalS4Type == Mixed({}, <<Many("para", "docParaType")>>)
docTitleType == MixedText({})
docParaType == MixedText({})
docMarkupType == MixedText({})
docURLLink == MixedText({"url"})
docAnchorType == MixedText({"id"})
docFormulaType == MixedText({"id"})
docIndexEntryType == Sequence({}, <<Str("primaryie"), Str("secondaryie")>>)
docListType == Sequence({}, <<Many("listitem", "docListItemType")>>)
docListItemType == Sequence({}, <<Many("para", "docParaType")>>)
docSimpleSectType == Sequence({"kind"},
    <<One("title", "docTitleType"), Many("para", "docParaType")>>)
docVarListEntryType == Sequence({}, <<One("term", "docTitleType")>>)
docVariableListType == Text({})
docRefTextType == MixedText({"refid", "kindref", "external"})
docTableType == Sequence({"rows", "cols"},
    <<Many("row", "docRowType"), One("caption", "docCaptionType")>>)
docRowType == Sequence({}, <<Many("entry", "docEntryType")>>)
docEntryType == Sequence({"thead"}, <<Many("para", "docParaType")>>)
docCaptionType == MixedText({})
docHeadingType == MixedText({"level"})
docImageType == MixedText({"width", "type", "name", "height"})
docDotFileType == MixedText({"name"})
docTocItemType == MixedText({"id"})
docTocListType == Sequence({}, <<Many("tocitem", "docTocItemType")>>)
docLanguageType == Sequence({"langid"}, <<Many("para", "docParaType")>>)
docParamListType == Sequence({"kind"}, <<Many("parameteritem", "docParamListItem")>>)
docParamListItem == Sequence({},
    <<Many("parameternamelist", "docParamNameList"),
      One("parameterdescription", "descriptionType")>>)
docParamNameList == Sequence({}, <<Many("parametername", "docParamName")>>)
docParamName == Mixed({"direction"}, <<Many("ref", "docRefTextType")>>)
docXRefSectType == Sequence({"id"},
    <<Strs("xreftitle"), One("xrefdescription", "descriptionType")>>)
docCopyType == Sequence({"link"},
    <<Many("para", "docParaType"), Many("sect1", "docSect1Type"),
      One("internal", "docInternalType")>>)
docCharType == Text({"char"})
docEmptyType == Text({})

(***************************************************************************)
(* The classes of the index (indexsuper.py): version, kind and refid are   *)
(* written whether they were read or not.                                  *)
(***************************************************************************)
IndexDoxygenType == Always(Sequence({"version"}, <<Many("compound", "IndexCompoundType")>>), {"version"})
IndexCompoundType == Always(Sequence({"kind", "refid"}, <<Str("name"), Many("member", "IndexMemberType")>>),
    {"kind", "refid"})
IndexMemberType == Always(Sequence({"kind", "refid"}, <<Str("name")>>), {"kind", "refid"})

(* Every class, by the name the children above give it.                    *)
Schema ==
    [DoxygenType |-> DoxygenType, compounddefType |-> compounddefType,
     listofallmembersType |-> listofallmembersType, memberRefType |-> memberRefType,
     scope |-> scope, name |-> name, compoundRefType |-> compoundRefType,
     reimplementType |-> reimplementType, incType |-> incType, refType |-> refType,
     refTextType |-> refTextType, sectiondefType |-> sectiondefType,
     memberdefType |-> memberdefType, definition |-> definition, argsstring |-> argsstring,
     read |-> read, write |-> write, bitfield |-> bitfield,
     descriptionType |-> descriptionType, enumvalueType |-> enumvalueType,
     templateparamlistType |-> templateparamlistType, paramType |-> paramType,
     declname |-> declname, defname |-> defname, array |-> array,
     linkedTextType |-> linkedTextType, graphType |-> graphType, nodeType |-> nodeType,
     label |-> label, childnodeType |-> childnodeType, edgelabel |-> edgelabel,
     linkType |-> linkType, listingType |-> listingType, codelineType |-> codelineType,
     highlightType |-> highlightType, sp |-> sp, referenceType |-> referenceType,
     locationType |-> locationType, docSect1Type |-> docSect1Type,
     docSect2Type |-> docSect2Type, docSect3Type |-> docSect3Type,
     docSect4Type |-> docSect4Type, docInternalType |-> docInternalType,
     docInternalS1Type |-> docInternalS1Type, docInternalS2Type |-> docInternalS2Type,
     docInternalS3Type |-> docInternalS3Type, docInternalS4Type |-> docInternalS4Type,
     docTitleType |-> docTitleType, docParaType |-> docParaType,
     docMarkupType |-> docMarkupType, docURLLink |-> docURLLink,
     docAnchorType |-> docAnchorType, docFormulaType |-> docFormulaType,
     docIndexEntryType |-> docIndexEntryType, docListType |-> docListType,
     docListItemType |-> docListItemType, docSimpleSectType |-> docSimpleSectType,
     docVarListEntryType |-> docVarListEntryType,
     docVariableListType |-> docVariableListType, docRefTextType |-> docRefTextType,
     docTableType |-> docTableType, docRowType |-> docRowType,
     docEntryType |-> docEntryType, docCaptionType |-> docCaptionType,
     docHeadingType |-> docHeadingType, docImageType |-> docImageType,
     docDotFileType |-> docDotFileType, docTocItemType |-> docTocItemType,
     docTocListType |-> docTocListType, docLanguageType |-> docLanguageType,
     docParamListType |-> docParamListType, docParamListItem |-> docParamListItem,
     docParamNameList |-> docParamNameList, docParamName |-> docParamName,
     docXRefSectType |-> docXRefSectType, docCopyType |-> docCopyType,
     docCharType |-> docCharType, docEmptyType |-> docEmptyType,
     IndexDoxygenType |-> IndexDoxygenType, IndexCompoundType |-> IndexCompoundType,
     IndexMemberType |-> IndexMemberType]
=============================================================================
