-------------------------- MODULE MCPageRevisions --------------------------
(***************************************************************************)
(* An instance of PageRevisions for TLC: small windows, bodies that pack,  *)
(* overflow, repeat a heading or its path, swap two sections, hold a CDATA *)
(* section and break the parser, and deployments that differ in what a     *)
(* rebuild and what the reuse depend on.                                   *)
(***************************************************************************)
EXTENDS PageRevisions

W(id, size) == [id |-> id, from |-> 0, size |-> size]
Open(tag)  == [event |-> "open", tag |-> tag]
Close(tag) == [event |-> "close", tag |-> tag]
Data(text) == [event |-> "data", text |-> text]
Title(tag, id) == <<Open(tag), Data(<<W(id, 1)>>), Close(tag)>>
CData(text) == [event |-> "cdata", text |-> text]
Broken == [event |-> "broken"]
Para(text) == <<Open("p"), Data(text), Close("p")>>

(* A heading "X>Y", whose path joins like that of Y under X.               *)
Joint == <<Open("h1"), Data(<<W("X", 1), W(">", 1), W("Y", 1)>>), Close("h1")>>

A == <<W("a", 2), W("b", 1)>>
B == <<W("c", 1), W("d", 2), W("e", 1)>>
C == <<W("f", 1), W("g", 1)>>
Long == <<W("u", 2), W("v", 8)>>

MCBodies == {
  <<>>,
  Title("h1", "X") \o Para(B) \o Title("h2", "Y") \o Para(C) \o Joint \o Para(A),
  Title("h2", "Y") \o Para(C) \o Title("h1", "X") \o Para(B) \o Title("h1", "X") \o Para(B),
  Title("h1", "X") \o Para(B) \o Para(A) \o Para(Long)
    \o <<Open("code"), CData(B), Close("code")>> \o Para(C),
  Title("h1", "X") \o <<Broken>> \o Para(B),
  <<Open("list"), Data(A), Open("p"), Data(C), Close("list"), Open("h1"), Data(C), Close("p")>>
    \o Title("h3", "X") \o Title("h2", "Y") \o <<Open("macro"), Data(B), Open("table"), Close("macro")>>}

Attached(name, kind, text) == [title |-> <<W(name, 1)>>, kind |-> kind, text |-> text]
MCFileSets == {<<Attached("photo", "image", <<>>)>>,
               <<Attached("notes", "text", A \o B), Attached("old", "text", C)>>}

Pipeline == [model |-> 1, dim |-> 1, context |-> 1, schema |-> 1, parser |-> 1, chunker |-> 1]
MCDeployments == {Pipeline, [Pipeline EXCEPT !.model = 2],
                  [Pipeline EXCEPT !.dim = 2, !.chunker = 2]}
=============================================================================
