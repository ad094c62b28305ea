------------------------------ MODULE MCProcess ------------------------------
(* TLC instances of Process: every port expression of up to MaxTokens      *)
(* tokens and every target of up to MaxChunks chunks.                      *)
EXTENDS Process, SequencesExt

CONSTANTS MaxTokens, MaxChunks

Numbers == 0 .. MaxPort + 1

\* Two digit strings in a row would be one number.
OneNumber(s) == \A i \in 1 .. Len(s) - 1 : s[i] \notin Numbers \cup {V4} \/ s[i + 1] \notin Numbers \cup {V4}

MCPortsArgs == {s \in SeqOf(Numbers \cup {Comma, Dash, Blank, Plus}, MaxTokens) : OneNumber(s)}

Chunks == {<<Colon, Colon>>, <<Colon, Colon, 1>>} \cup {<<t>> : t \in {Name, V4, Colon, LBracket, RBracket, Plus, 0, 1, MaxPort + 1}}
MCTargetArgs == {s \in {FlattenSeq(chunks) : chunks \in SeqOf(Chunks, MaxChunks)} : OneNumber(s)}

=============================================================================
