------------------------------ MODULE MCSwigDoc ------------------------------
(* A class that may be a block, its header, another header and another     *)
(* class; files that cannot be read, descriptions and names of parameters  *)
(* that are not there; files and compounds the tool leaves out, and a kind *)
(* it does not know.                                                       *)
EXTENDS SwigDoc

A == <<"a", "b">>
K == <<"k">>
M(kind, n) == [kind |-> kind, name |-> n, lacks |-> "nothing"]
C(kind, n, xml, ms) == [kind |-> kind, name |-> n, lacks |-> "nothing", xml |-> xml, mems |-> ms]
Bare(x) == [x EXCEPT !.lacks = "description"]
Nameless(x) == [x EXCEPT !.lacks = "names"]

Ctor == M("function", A)
Friend == M("friend", make_name(A))
Work == M("function", <<"work">>)
Make == M("function", make_name(A))
Help == M("function", <<"help">>)
Odd == M("property", <<"odd">>)

ClassMembers ==
    {<<>>, <<Ctor>>, <<Friend>>, <<Ctor, Friend>>, <<Work, Work>>, <<Ctor, Ctor, Work, Friend, Work>>,
     <<Odd, Friend, Ctor>>, <<Ctor, Make, Friend>>, <<Ctor, Friend, Work, Bare(Work)>>,
     <<Ctor, Friend, Bare(Work), Work>>, <<Nameless(Ctor), Friend>>}
HeaderMembers == {<<>>, <<Make>>, <<Make, Help>>, <<Help, Make, Help, Odd>>, <<Bare(Make)>>,
                  <<Make, Bare(Help)>>, <<Nameless(Make)>>, <<Make, Nameless(Help)>>}

AllCompounds ==
    {C("class", A, "ok", ms) : ms \in ClassMembers}
        \cup {C("class", A, xml, <<Ctor, Friend>>) : xml \in {"malformed", "unreadable"}}
        \cup {C("file", header(A), "ok", ms) : ms \in HeaderMembers}
        \cup {C("file", header(A), xml, <<>>) : xml \in {"malformed", "unreadable"}}
        \cup {C("file", header(K), "ok", ms) : ms \in {<<Make>>, <<Help>>}}
        \cup {C("class", K, xml, <<Work>>) : xml \in {"ok", "malformed"}}
        \cup {Bare(C("class", A, "ok", <<Ctor, Friend>>)), Bare(C("class", K, "ok", <<>>)),
              Bare(C("file", header(A), "ok", <<Make>>)), Bare(C("file", header(K), "ok", <<>>)),
              C("class", K, "ok", <<Bare(Work)>>)}
        \cup {C("file", <<"k", ".dox">>, "malformed", <<>>), C("group", K, "malformed", <<>>),
              C("example", K, "ok", <<>>)}
=============================================================================
