---------------------------- MODULE MCAssistant ----------------------------
(* Instances of Assistant for TLC. *)
EXTENDS Assistant, TLC

CONSTANTS n1, n2

\* The separators of chunk_text, "b" a blank and "n" a line feed.
MCSeparators == << <<".", "b">>, <<"n", "n">>, <<"n">>, <<"b">> >>

\* The texts of five letters and blanks with a letter in the middle, some with
\* the other separators, and two that take three passes through the loop.
Texts ==
  {t \in [1 .. 5 -> {"x", "b"}] : t[3] = "x"} \cup
  { <<>>, <<"b", "n">>, <<"x", ".", "x">>, <<"x", "x", ".", "b", "x", ".", "x">>,
    <<"x", "x", "n", "n", "b", "x">>, <<"b", "x", "b", "n", "x", ".", "b">>,
    <<"x", "b", "x", ".", "x", "b">>, <<"x", "x", "b", ".", "x", "x", "x", "x">>,
    <<"x", "x", "x", "b", "x", ".", "x", "x", "x">> }

\* Any text in the workspace, next to a note of another workspace.
MCContents == {n1 :> t @@ n2 :> <<"x", "x">> : t \in Texts}

MCQuestion ==
  { [kind |-> "search", member |-> TRUE, limit |-> 1],
    [kind |-> "rag", member |-> TRUE, limit |-> 2],
    [kind |-> "search", member |-> FALSE, limit |-> 1],
    [kind |-> "summary", room |-> TRUE, member |-> TRUE, limit |-> 2],
    [kind |-> "summary", room |-> FALSE, member |-> TRUE, limit |-> 2] }
=============================================================================
