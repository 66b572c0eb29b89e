------------------------------- MODULE MCLink -------------------------------
(* Payloads, settings and signals at the edges of their types, for TLC.    *)
EXTENDS Link

\* Payloads of the bytes that also frame a line, one that is not text, one that
\* looks like the fields of a line, and one whose length has two digits.
MCPayloads ==
  {<<>>, <<"7", ",">>, <<",", "LF">>, <<"0xFF", "+">>, <<"1", ",", "G">>, [i \in 1..10 |-> ","]}

\* Payloads that hold the bytes a line ends with.
RawPayloads == {<<"CR">>, <<"CR", "LF">>, <<"G">>}

MCSignals == {[from |-> 65535, rssi |-> -99, snr |-> 1], [from |-> 0, rssi |-> -7, snr |-> -12]}

Zeros == [i \in 1..8 |-> "0"]
MCSettings ==
  [setting : {"Address"}, val : {10, 65535}]
    \cup [setting : {"NetworkId"}, val : {0, 255}]
    \cup [setting : {"Band"}, val : {915000000, U32_MAX}]
    \cup [setting : {"Parameters"}, val : {<<9, 7, 1, 12>>, <<0, 255, 0, 100>>}]
    \cup [setting : {"Cpin"}, val : {<<>>, [Zeros EXCEPT ![8] = "1"], [Zeros EXCEPT ![1] = "F"]}]

\* The hypotheses of the theorems about the run without loss hold of these values.
ASSUME RoomToRead /\ \A data \in MCPayloads : EndsNoLine(data)
=============================================================================
