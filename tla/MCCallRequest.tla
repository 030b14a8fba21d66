---------------------------- MODULE MCCallRequest ----------------------------
(* Instances of CallRequest for TLC.                                       *)
EXTENDS CallRequest

MCWavs ==
    {w \in [pcm : BOOLEAN, bytes : 0..5, channels : {1, 2}, sample : {1, 2}, rate : {1, 2}] :
        w.channels * w.sample <= 2}
MCAllowed == {[kind |-> "prefix", value |-> <<"1">>], [kind |-> "prefix", value |-> <<"+", "4">>]}
MCBlocked == {[kind |-> "exact", value |-> <<"1", "5">>]}

\* A request that passes every check, and requests that differ in one respect.
Plain == [token |-> "valid", json |-> "object", sources |-> {"message"}, wav |-> NoWav,
          encoding |-> "strict", chars |-> 0, rest |-> 1, number |-> <<"1", "(", "0", ")">>, text |-> TRUE,
          host |-> TRUE, ring |-> 30]
Upload(w) == [Plain EXCEPT !.sources = {"wav"}, !.wav = w, !.chars = Encoded(w.bytes)]
Uploads == {Upload([NoWav EXCEPT !.pcm = TRUE, !.bytes = n]) : n \in 0..5}
Numbers == {<<>>, <<"1", "+">>, <<"1", "-", "1", "-", "0">>, <<"*", "1", "1", "2">>,
            <<"+", "4", "9", "1", "1", "2">>, <<"+", "4", "3">>, <<"1", " ", "5">>,
            <<"7">>, <<"1", "@", "1">>, <<"1", "5", "0">>}
MCRequests ==
    {Plain, [Plain EXCEPT !.token = "wrong"], [Plain EXCEPT !.text = FALSE],
     [Plain EXCEPT !.sources = {"url"}, !.host = FALSE]}
    \cup {[Plain EXCEPT !.json = j] : j \in {"other_type", "garbage", "list"}}
    \cup {[Plain EXCEPT !.sources = s] : s \in SUBSET {"message", "url", "wav"}}
    \cup {Upload(w) : w \in MCWavs}
    \cup {[u EXCEPT !.encoding = "other", !.chars = @ + n] : u \in Uploads, n \in {0, 1}}
    \cup {[u EXCEPT !.rest = n] : u \in Uploads, n \in {0, 2, 3, 7}}
    \cup {[Plain EXCEPT !.rest = n] : n \in {10, 11}}
    \cup {[Plain EXCEPT !.number = n] : n \in Numbers}
    \cup {[Plain EXCEPT !.ring = s] : s \in {4, 5, 120, 121}}
=============================================================================
