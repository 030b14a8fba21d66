----------------------------- MODULE CallRequest -----------------------------
(***************************************************************************)
(* POST /api/v1/calls from the request to the dial: the checks of          *)
(* server.py and of the number policy (config.py), the early check of the  *)
(* rate limit, the preparation of the audio (AudioPrep), and the second    *)
(* check, which records the attempt (RateLimit).  Requests come one after  *)
(* the other; what concurrent ones do to each other is in CallManager.     *)
(*                                                                         *)
(* A request is a record of what the checks look at: token, json (what     *)
(* the body is), sources (the audio sources that are not null), wav,       *)
(* encoding and chars (the upload, whether its Base64 is strict, and the   *)
(* length of its text as sent, blanks and garbage included), rest (the     *)
(* bytes of the body beside that text), number (characters), text (message *)
(* or URL is well formed), host (of the URL is allowed) and ring.          *)
(* The list of a request's body stands also for objects with unknown       *)
(* fields, which are refused alike.                                        *)
(***************************************************************************)
EXTENDS RateLimit, AudioPrep, FiniteSets

CONSTANTS
    Requests,           \* the requests that clients may send
    AllowedRules,       \* config allowed_number_rules, parsed: [kind, value]
    BlockedRules,       \* config blocked_number_rules, parsed
    MinClientMaxSize,   \* _MIN_CLIENT_MAX_SIZE
    MaxJsonOverhead     \* _MAX_JSON_OVERHEAD

NoRequest == [token |-> "none"]

\* Strict Base64: three bytes make four characters, the last ones padded.
Encoded(n) == 4 * (n \div 3) + (IF n % 3 = 0 THEN 0 ELSE 4)

ASSUME RequestsAssumption ==
    /\ \A r \in Requests :
        /\ r.wav.bytes \in Nat /\ r.sources \subseteq {"message", "url", "wav"}
        /\ r.chars \in Nat /\ r.rest \in Nat
        /\ r.encoding = "strict" => r.chars = Encoded(r.wav.bytes)
        /\ r.number \in Seq(STRING)
    /\ NoRequest \notin Requests
    /\ MinClientMaxSize \in Nat /\ MaxJsonOverhead \in Nat

VARIABLES
    request,        \* the request being handled, and where it is
    status          \* the status of its response, 0 before

requestVars == <<request, status>>
callVars == <<requestVars, rateVars, audioVars>>

-----------------------------------------------------------------------------
(* Sizes                                                                   *)

Base64Floor(n) == 4 * (n \div 3)                             \* mutant of MaxBase64Length
\* _max_base64_length
MaxBase64Length(limit) == 4 * ((limit + 2) \div 3)

\* create_app: the largest body that is read.
ClientMaxSize ==
    LET forWav == MaxBase64Length(MaxAudioBytes) + MaxJsonOverhead
    IN  IF forWav > MinClientMaxSize THEN forWav ELSE MinClientMaxSize

BodySize(r) == r.rest + (IF "wav" \in r.sources THEN r.chars ELSE 0)

-----------------------------------------------------------------------------
(* Numbers                                                                 *)

\* re.sub: the characters of s that are in S; a function where SelectSeq would
\* do, since proofs can expand it.
Kept(s, S) ==
    LET kept[i \in 0..Len(s)] ==
            IF i = 0 THEN <<>>
            ELSE IF s[i] \in S THEN Append(kept[i - 1], s[i]) ELSE kept[i - 1]
    IN  kept[Len(s)]

Digits == {"0", "1", "2", "3", "4", "5", "6", "7", "8", "9"}
Separators == {" ", "(", ")", ".", "-"}
\* _number: blanks, parentheses, dots and hyphens are removed ...
Dialable(number) == Kept(number, {number[i] : i \in DOMAIN number} \ Separators)

\* ... and what is left is a plus, in front only, and 1 to 31 digits, stars, hashes.
WellFormed(n) ==
    LET tail == IF n # <<>> /\ Head(n) = "+" THEN Tail(n) ELSE n
    IN  /\ Len(tail) \in 1..31
        /\ \A i \in DOMAIN tail : tail[i] \in Digits \cup {"*", "#"}

\* _HARD_BLOCKED_EMERGENCY_NUMBERS
HardBlocked ==
    {prefix \o n : prefix \in {<<>>, <<"4", "9">>, <<"0", "0", "4", "9">>},
                   n \in {<<"1", "1", "0">>, <<"1", "1", "2">>}}
    \cup {<<"9", "1", "1">>, <<"9", "9", "9">>}

DialedDigits(n) == Kept(n, Digits)
Matches(n, rules) ==
    \E rule \in rules :
        \/ rule.kind = "all"
        \/ rule.kind = "exact" /\ n = rule.value
        \/ /\ rule.kind = "prefix" /\ Len(rule.value) <= Len(n)
           /\ rule.value = SubSeq(n, 1, Len(rule.value))

AllowsFirst(n) ==                                            \* mutant of Allows
    \/ Matches(n, AllowedRules)
    \/ DialedDigits(n) \notin HardBlocked /\ ~Matches(n, BlockedRules)
\* NumberPolicy.allows
Allows(n) ==
    /\ DialedDigits(n) \notin HardBlocked
    /\ ~Matches(n, BlockedRules)
    /\ Matches(n, AllowedRules)

-----------------------------------------------------------------------------
(* The checks in their order, with the status each of them answers: the    *)
(* token, the body, the sources, then _audio_wav, _number, _message or     *)
(* _audio_url, _ring_timeout and the number policy.                        *)

Refusals == <<401, 400, 413, 400, 422, 422, 413, 422, 413, 422, 422, 422, 422>>
Fails(r, check) ==
    \/ check = 1 /\ r.token # "valid"
    \/ check = 2 /\ r.json = "other_type"
    \/ check = 3 /\ BodySize(r) > ClientMaxSize
    \/ check = 4 /\ r.json = "garbage"
    \/ check = 5 /\ r.json # "object"
    \/ check = 6 /\ \A s \in {"message", "url", "wav"} : r.sources # {s}
    \/ check = 7 /\ "wav" \in r.sources /\ r.chars > MaxBase64Length(MaxAudioBytes)
    \/ check = 8 /\ "wav" \in r.sources /\ (r.encoding # "strict" \/ r.wav.bytes = 0)
    \/ check = 9 /\ "wav" \in r.sources /\ r.wav.bytes > MaxAudioBytes
    \/ check = 10 /\ ~WellFormed(Dialable(r.number))
    \/ check = 11 /\ "wav" \notin r.sources /\ ~r.text
    \/ check = 12 /\ r.ring \notin 5..120
    \/ check = 13 /\ ~Allows(Dialable(r.number))

\* The check that refuses a request is the first one that fails.
Refuses(r, check) == Fails(r, check) /\ \A j \in 1..(check - 1) : ~Fails(r, j)
Admitted(r) == \A check \in DOMAIN Refusals : ~Fails(r, check)

-----------------------------------------------------------------------------
RequestInit == RateInit /\ AudioInit /\ request = NoRequest /\ status = 0

Answer(st) == status' = st /\ UNCHANGED request

\* A client posts r: it is refused, or its audio is prepared.
Post(r) ==
    /\ request = NoRequest
    /\ request' = r
    /\ \/ /\ \E check \in DOMAIN Refusals :
                Refuses(r, check) /\ status' = Refusals[check]
          /\ UNCHANGED <<rateVars, audioVars>>
       \/ /\ Admitted(r) /\ RateRefused
          /\ status' = 429
          /\ UNCHANGED audioVars
       \/ /\ Admitted(r) /\ RateChecked
          /\ status' = 0
          /\ CASE r.sources = {"message"} -> FromMessage
               [] r.sources = {"url"} -> FromUrl(r.host)
               [] OTHER -> FromWavBytes(r.wav)

Prepare == AudioStep /\ UNCHANGED <<requestVars, rateVars>>

\* Mutant of PreparationFailed: the attempt is recorded when the audio fails.
PreparationCounted ==
    /\ stage = "failed" /\ status = 0
    /\ RateRecorded
    /\ Answer(422) /\ UNCHANGED audioVars

\* The audio failed: 422, 500 or 502, all of them 422 here.
PreparationFailed ==
    /\ stage = "failed" /\ status = 0
    /\ Answer(422) /\ UNCHANGED <<rateVars, audioVars>>

\* The call was hung up while its audio was prepared: the WAV is removed.
DialCancelled ==
    /\ stage = "prepared" /\ status = 0
    /\ Answer(409) /\ Fail /\ UNCHANGED rateVars

\* The second check of the rate limit records the attempt, and the call is
\* dialled, which baresip may refuse; here it also ends, and its WAV is removed.
DialRecorded ==
    /\ stage = "prepared" /\ status = 0
    /\ Expire
    /\ IF Full THEN Answer(429) /\ UNCHANGED times
       ELSE (Answer(202) \/ Answer(503)) /\ times' = Append(times, now)
    /\ UNCHANGED <<now, audioVars>>

\* The response is out and the call is over: cleanup, and the next request.
Over ==
    /\ status # 0
    /\ request' = NoRequest /\ status' = 0
    /\ stage' = "idle" /\ directory' = FALSE /\ wav' = NoWav
    /\ UNCHANGED <<process, stored, rateVars>>

TimePasses == Tick /\ UNCHANGED <<requestVars, audioVars>>

RequestNext ==
    \/ \E r \in Requests : Post(r)
    \/ Prepare \/ PreparationFailed \/ DialCancelled \/ DialRecorded \/ Over \/ TimePasses

RequestSpec ==
    /\ RequestInit /\ [][RequestNext]_callVars
    /\ WF_callVars(AudioEnds /\ UNCHANGED <<requestVars, rateVars>>)
    /\ WF_callVars(PreparationFailed) /\ WF_callVars(DialRecorded)

-----------------------------------------------------------------------------
\* What the documents promise of a request that is dialled, in one place: DOCS.md
\* "blocked_number_rules ... always wins", "hard-blocked after dial-string
\* normalization", "Exactly one of the three sources is accepted", and audio
\* that is on disk and normalised.
DialledAsDocumented ==
    status \in {202, 503} =>
        /\ request.token = "valid" /\ Cardinality(request.sources) = 1
        /\ Kept(request.number, Digits) \notin HardBlocked
        /\ \A rule \in BlockedRules : ~Matches(Dialable(request.number), {rule})
        /\ directory /\ Normalized(wav)

\* DOCS.md: "The sliding rate limit defaults to three successfully prepared dial
\* attempts": an attempt counts when its call is dialled, and only then.
AttemptsAreDials ==
    [][(times' # times) <=> (status = 0 /\ status' \in {202, 503})]_callVars

\* A request is refused for the rate limit only when the last MaxAttempts dials lie
\* within the window that ends now, to the second (that it is then refused is what
\* WindowRespected needs).
DialsInWindow == {i \in 1..Len(times) : now - times[i] < Window}
RefusedOnlyWhenFull ==
    [][status' = 429 /\ status = 0 => Cardinality(DialsInWindow) >= MaxAttempts]_callVars

\* README.md: "Both the encoded request and decoded WAV are bounded from
\* max_audio_bytes": a WAV above the limit is refused before anything is prepared,
\* in whatever encoding and body it comes; one within the limit, in strict Base64
\* and a body with less than the overhead around it, is not refused as too large,
\* nor lost to the rounding of its Base64 form.
TooLargeIsTooLarge ==
    request # NoRequest /\ "wav" \in request.sources =>
        /\ request.wav.bytes > MaxAudioBytes => status # 0 /\ stage = "idle"
        /\ /\ request.wav.bytes <= MaxAudioBytes /\ request.encoding = "strict"
           /\ request.rest < MaxJsonOverhead
           => status # 413

\* Each request is answered, however long the tools and servers take: the
\* download, the processes and the kill are all bounded in time.
RequestAnswered == stage \in Working ~> status # 0
=============================================================================
