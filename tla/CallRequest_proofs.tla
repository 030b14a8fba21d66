-------------------------- MODULE CallRequest_proofs --------------------------
(* Proofs about one request for a call, from the checks to the dial, for   *)
(* every configuration, every set of requests and every set of files.      *)
EXTENDS CallRequest, FiniteSetTheorems, WellFoundedInduction, TLAPS

-----------------------------------------------------------------------------
(* The sliding rate limit, for every limit and every window                *)

\* The times are those of a monotonic clock, and what has left the deque is at
\* least a window old: it stays so, since the clock does not go back.
RateInv ==
    /\ now \in Nat /\ times \in Seq(Nat) /\ first \in 1..(Len(times) + 1)
    /\ \A i \in 1..Len(times) : times[i] <= now
    /\ \A i, j \in 1..Len(times) : i <= j => times[i] <= times[j]
    /\ \A i \in 1..(first - 1) : times[i] + Window <= now
    /\ WindowRespected

LEMMA RateInvInit == RateInit => RateInv
BY RateAssumption DEF RateInit, RateInv, WindowRespected

\* Expiring drops attempts that are a window old, and keeps first in range.
LEMMA ExpireDropsOld ==
    ASSUME RateInv, Expire
    PROVE  /\ first' \in 1..(Len(times) + 1)
           /\ \A i \in 1..(first' - 1) : times[i] + Window <= now
<1> USE RateAssumption DEF RateInv
<1>1. PICK k \in first..(Len(times) + 1) :
        /\ \A j \in first..(k - 1) : ~Live(j)
        /\ first' = k
  BY DEF Expire
<1>2. first' \in 1..(Len(times) + 1)
  BY <1>1
<1>3. ASSUME NEW i \in 1..(first' - 1)
      PROVE  times[i] + Window <= now
  <2>1. i \in 1..Len(times) /\ times[i] \in Nat
    BY <1>1, <1>2
  <2>2. CASE i < first
    BY <2>1, <2>2
  <2>3. CASE i >= first
    <3>1. ~Live(i)
      BY <1>1, <2>1, <2>3
    <3> QED
      BY <2>1, <3>1 DEF Live
  <2> QED
    BY <2>1, <2>2, <2>3
<1> QED
  BY <1>2, <1>3

\* A check leaves the times alone, so it keeps the invariant.
LEMMA CheckPreserves ==
    ASSUME RateInv, Expire, UNCHANGED <<now, times>>
    PROVE  RateInv'
BY ExpireDropsOld DEF RateInv, WindowRespected

\* An attempt is recorded when fewer than MaxAttempts are in the deque: the
\* MaxAttempts-th attempt before it has left the deque.
LEMMA RecordPreserves ==
    ASSUME RateInv, RateRecorded
    PROVE  RateInv'
<1> DEFINE n == Len(times)
<1>1. /\ first' \in 1..(n + 1)
      /\ \A i \in 1..(first' - 1) : times[i] + Window <= now
  BY ExpireDropsOld DEF RateRecorded
<1>2. n \in Nat /\ now \in Nat /\ now' = now
  BY DEF RateInv, RateRecorded
<1>0. PICK k \in 1..(n + 1) : k = first'
  BY <1>1
<1>3. n + 1 - k < MaxAttempts
  BY <1>0, <1>2, RateAssumption DEF RateRecorded, Full
<1>4. times \in Seq(Nat) /\ times' = Append(times, now)
  BY DEF RateInv, RateRecorded
<1>5. /\ times' \in Seq(Nat) /\ Len(times') = n + 1 /\ times'[n + 1] = now
      /\ \A i \in 1..n : times'[i] = times[i] /\ times[i] \in Nat
  BY <1>2, <1>4
<1>6. /\ \A i \in 1..n : times[i] <= now
      /\ \A i, j \in 1..n : i <= j => times[i] <= times[j]
      /\ \A i \in 1..n : i + MaxAttempts <= n => times[i + MaxAttempts] - times[i] >= Window
  BY DEF RateInv, WindowRespected
<1>7. \A i \in 1..(k - 1) : i \in 1..n
  BY <1>2
<1>8. \A i \in 1..(k - 1) : times'[i] + Window <= now
  BY <1>0, <1>1, <1>5, <1>7
<1>9. \A i \in 1..(n + 1) : times'[i] <= now
  BY <1>2, <1>5, <1>6
<1>10. ASSUME NEW i \in 1..(n + 1), NEW j \in 1..(n + 1), i <= j
       PROVE  times'[i] <= times'[j]
  <2>1. CASE j = n + 1
    BY <1>5, <1>9, <2>1
  <2>2. CASE j # n + 1
    <3>1. i \in 1..n /\ j \in 1..n
      BY <1>2, <1>10, <2>2
    <3> QED
      BY <1>5, <1>6, <1>10, <3>1
  <2> QED
    BY <2>1, <2>2
<1>11. ASSUME NEW i \in 1..(n + 1), i + MaxAttempts <= n + 1
       PROVE  times'[i + MaxAttempts] - times'[i] >= Window
  <2>1. CASE i + MaxAttempts <= n
    <3>1. i \in 1..n /\ i + MaxAttempts \in 1..n
      BY <1>2, <2>1, RateAssumption
    <3> QED
      BY <1>5, <1>6, <2>1, <3>1
  <2>2. CASE i + MaxAttempts = n + 1
    <3>1. i \in 1..(k - 1)
      BY <1>2, <1>3, <2>2, RateAssumption
    <3>2. times'[i] \in Nat /\ times'[i] + Window <= now
      BY <1>5, <1>7, <1>8, <3>1
    <3> QED
      BY <1>2, <1>5, <2>2, <3>2, RateAssumption
  <2> QED
    BY <1>2, <1>11, <2>1, <2>2, RateAssumption
<1>12. WindowRespected'
  BY <1>5, <1>11 DEF WindowRespected
<1>13. first' \in 1..(Len(times') + 1) /\ now' \in Nat
  BY <1>0, <1>2, <1>5
<1> QED
  BY <1>0, <1>2, <1>5, <1>8, <1>9, <1>10, <1>12, <1>13 DEF RateInv

LEMMA RateInvNext == RateInv /\ [RateNext]_rateVars => RateInv'
<1> SUFFICES ASSUME RateInv, [RateNext]_rateVars PROVE RateInv'
  OBVIOUS
<1>1. CASE RateRefused \/ RateChecked
  BY <1>1, CheckPreserves DEF RateRefused, RateChecked
<1>2. CASE RateRecorded
  BY <1>2, RecordPreserves
<1>3. CASE Tick
  BY <1>3, RateAssumption DEF Tick, RateInv, WindowRespected
<1>4. CASE UNCHANGED rateVars
  BY <1>4 DEF rateVars, RateInv, WindowRespected
<1> QED
  BY <1>1, <1>2, <1>3, <1>4 DEF RateNext

\* The limit holds in every window, for every limit and window length
\* (_check_rate_limit).
THEOREM RateLimitCorrect == RateSpec => []WindowRespected
<1>1. RateSpec => []RateInv
  BY RateInvInit, RateInvNext, PTL DEF RateSpec
<1>2. RateInv => WindowRespected
  BY DEF RateInv
<1> QED
  BY <1>1, <1>2, PTL

-----------------------------------------------------------------------------
(* The preparation of the audio                                            *)

AudioInv ==
    /\ stage \in Working \cup {"idle", "prepared", "failed"}
    /\ stored \in Nat
    /\ NothingLeft /\ AudioWithinLimits

LEMMA AudioInvInit == AudioInit => AudioInv
BY AudioAssumption DEF AudioInit, AudioInv, NothingLeft, AudioWithinLimits, Working

LEMMA FailPreserves ==
    ASSUME AudioInv, Fail
    PROVE  AudioInv'
BY AudioAssumption DEF Fail, AudioInv, NothingLeft, AudioWithinLimits, Working

LEMMA NormalizePreserves ==
    ASSUME AudioInv, NEW w, Normalize(w)
    PROVE  AudioInv'
<1>1. CASE ~Valid(w)
  BY <1>1, FailPreserves DEF Normalize
<1>2. CASE Valid(w)
  BY <1>2, AudioAssumption DEF Normalize, AudioInv, NothingLeft, AudioWithinLimits, Working
<1> QED
  BY <1>1, <1>2

\* What ffmpeg wrote is played only if it keeps the limits: its frames are two
\* bytes wide.
LEMMA PreparedKeepsLimits ==
    ASSUME NEW w \in Wavs, Valid(w), Normalized(w)
    PROVE  w.bytes \in 1..MaxAudioBytes /\ w.bytes <= 2 * MaxAudioSeconds
<1>1. w.bytes \in Nat /\ MaxAudioBytes \in Nat /\ MaxAudioSeconds \in Nat
  BY AudioAssumption
<1>2. w.channels * w.sample = 2 /\ w.rate = 1
  BY DEF Normalized
<1>3. /\ w.bytes <= MaxAudioBytes /\ w.bytes > 0 /\ w.bytes % 2 = 0
      /\ w.bytes \div 2 <= MaxAudioSeconds * 1
  BY <1>2 DEF Valid
<1>4. w.bytes = 2 * (w.bytes \div 2)
  BY <1>1, <1>3
<1> QED
  BY <1>1, <1>3, <1>4

LEMMA ExitsPreserves ==
    ASSUME AudioInv, NEW w \in Wavs, Exits(w)
    PROVE  AudioInv'
<1>1. CASE stage = "tts"
  BY <1>1, NormalizePreserves DEF Exits
<1>2. CASE stage = "ffmpeg" /\ ~(Valid(w) /\ Normalized(w))
  BY <1>2, FailPreserves DEF Exits
<1>3. CASE stage = "ffmpeg" /\ Valid(w) /\ Normalized(w)
  BY <1>3, PreparedKeepsLimits
     DEF Exits, AudioInv, NothingLeft, AudioWithinLimits, Working
<1> QED
  BY <1>1, <1>2, <1>3 DEF Exits

LEMMA ChunkPreserves ==
    ASSUME AudioInv, NEW k \in 1..MaxAudioBytes, Chunk(k)
    PROVE  AudioInv'
<1>1. CASE stored + k > MaxAudioBytes
  BY <1>1, FailPreserves DEF Chunk
<1>2. CASE ~(stored + k > MaxAudioBytes)
  BY <1>2, AudioAssumption DEF Chunk, AudioInv, NothingLeft, AudioWithinLimits, Working
<1> QED
  BY <1>1, <1>2

LEMMA AudioStepPreserves ==
    ASSUME AudioInv, AudioStep
    PROVE  AudioInv' /\ stage \in Working
<1>1. ASSUME NEW k \in 1..MaxAudioBytes, Chunk(k) PROVE AudioInv' /\ stage \in Working
  BY <1>1, ChunkPreserves DEF Chunk, Working
<1>2. ASSUME NEW w \in Wavs, Downloaded(w) PROVE AudioInv' /\ stage \in Working
  BY <1>2, NormalizePreserves DEF Downloaded, Working
<1>3. ASSUME NEW w \in Wavs, Exits(w) PROVE AudioInv' /\ stage \in Working
  BY <1>3, ExitsPreserves DEF Exits, Working
<1>4. CASE DownloadFails \/ RunFails \/ Killed
  BY <1>4, FailPreserves DEF DownloadFails, RunFails, Killed, Working
<1>5. CASE RunTimesOut
  BY <1>5, AudioAssumption DEF RunTimesOut, AudioInv, NothingLeft, AudioWithinLimits, Working
<1> QED
  BY <1>1, <1>2, <1>3, <1>4, <1>5 DEF AudioStep

-----------------------------------------------------------------------------
(* Sizes                                                                   *)

\* The Base64 form of n bytes is no longer than that of the largest upload
\* (_max_base64_length).
LEMMA EncodedBounded ==
    ASSUME NEW n \in Nat, NEW m \in Nat, n <= m
    PROVE  Encoded(n) <= MaxBase64Length(m)
<1>1. n = 3 * (n \div 3) + (n % 3) /\ n % 3 \in 0..2 /\ n \div 3 \in Nat
  OBVIOUS
<1>2. /\ m + 2 = 3 * ((m + 2) \div 3) + ((m + 2) % 3)
      /\ (m + 2) % 3 \in 0..2 /\ (m + 2) \div 3 \in Nat
  OBVIOUS
<1> QED
  BY <1>1, <1>2 DEF Encoded, MaxBase64Length

\* No check that answers 413 fails for an upload within the limit that is strict
\* Base64, in a body with less than the overhead around it.
LEMMA FittingUploads ==
    ASSUME NEW r \in Requests, NEW i \in DOMAIN Refusals, Fails(r, i), "wav" \in r.sources,
           r.wav.bytes <= MaxAudioBytes, r.encoding = "strict", r.rest < MaxJsonOverhead
    PROVE  Refusals[i] # 413
<1>1. /\ r.wav.bytes \in Nat /\ MaxAudioBytes \in Nat /\ r.rest \in Nat
      /\ MinClientMaxSize \in Nat /\ MaxJsonOverhead \in Nat
      /\ r.chars = Encoded(r.wav.bytes)
  BY RequestsAssumption, AudioAssumption
<1>2. Encoded(r.wav.bytes) \in Int /\ MaxBase64Length(MaxAudioBytes) \in Nat
  BY <1>1 DEF Encoded, MaxBase64Length
<1>3. r.chars <= MaxBase64Length(MaxAudioBytes)
  BY <1>1, EncodedBounded
<1>4. i # 3
  <2>1. BodySize(r) = r.rest + r.chars
    BY DEF BodySize
  <2>2. ClientMaxSize >= MaxBase64Length(MaxAudioBytes) + MaxJsonOverhead /\ ClientMaxSize \in Int
    BY <1>1, <1>2 DEF ClientMaxSize
  <2>3. i = 3 => BodySize(r) > ClientMaxSize
    BY DEF Fails
  <2> QED
    BY <1>1, <1>2, <1>3, <2>1, <2>2, <2>3
<1>5. i # 7
  BY <1>1, <1>2, <1>3 DEF Fails
<1>6. i # 9
  BY <1>1 DEF Fails
<1> QED
  BY <1>4, <1>5, <1>6 DEF Refusals

\* An upload above the limit fails the check of the decoded length, if no other.
LEMMA LargeUploads ==
    ASSUME NEW r \in Requests, Admitted(r), "wav" \in r.sources
    PROVE  ~(r.wav.bytes > MaxAudioBytes)
<1>1. ~Fails(r, 9)
  BY DEF Admitted, Refusals
<1> QED
  BY <1>1 DEF Fails

-----------------------------------------------------------------------------
(* Numbers.  What Kept computes is proved by descent: a set of numbers has *)
(* a least one, so a shortest counterexample would have a predecessor.     *)

LEMMA LeastNumber ==
    ASSUME NEW T \in SUBSET Nat, T # {}
    PROVE  \E n \in T : \A m \in T : n <= m
<1>1. IsWellFoundedOn(OpToRel(<, Nat), Nat)
  BY NatLessThanWellFounded
<1>2. PICK n \in T : \A m \in T : ~(<<m, n>> \in OpToRel(<, Nat))
  BY <1>1, WFMin
<1>3. \A m \in T : ~(m < n)
  BY <1>2 DEF OpToRel
<1> QED
  BY <1>3

\* f tabulates Kept for the first n characters of s.
Keeps(f, s, S, n) ==
    f = [i \in 0..n |->
            IF i = 0 THEN <<>>
            ELSE IF s[i] \in S THEN Append(f[i - 1], s[i]) ELSE f[i - 1]]

LEMMA KeepsExists ==
    ASSUME NEW s, NEW S, NEW n \in Nat
    PROVE  \E f : Keeps(f, s, S, n)
<1> DEFINE Bad == {m \in Nat : ~ \E f : Keeps(f, s, S, m)}
<1> SUFFICES ASSUME Bad # {} PROVE FALSE
  OBVIOUS
<1>1. PICK m \in Bad : \A k \in Bad : m <= k
  <2> Bad \in SUBSET Nat
    OBVIOUS
  <2> HIDE DEF Bad
  <2> QED BY LeastNumber
<1>2. m # 0
  <2> SUFFICES Keeps([i \in 0..0 |-> <<>>], s, S, 0)
    BY <1>1
  <2> QED BY DEF Keeps
<1>3. PICK g : Keeps(g, s, S, m - 1)
  <2>1. m \in Nat /\ m - 1 \in Nat /\ m - 1 \notin Bad
    BY <1>1, <1>2
  <2> QED BY <2>1
<1> DEFINE last == IF s[m] \in S THEN Append(g[m - 1], s[m]) ELSE g[m - 1]
           f == [i \in 0..m |-> IF i = m THEN last ELSE g[i]]
<1>4. Keeps(f, s, S, m)
  <2>1. m \in Nat /\ m - 1 \in Nat
    BY <1>1, <1>2
  <2>2. \A i \in 0..(m - 1) : f[i] = g[i]
    BY <2>1
  <2>3. ASSUME NEW i \in 0..m
        PROVE  f[i] = IF i = 0 THEN <<>>
                      ELSE IF s[i] \in S THEN Append(f[i - 1], s[i]) ELSE f[i - 1]
    <3>1. CASE i = m
      <4>1. f[m] = last /\ f[m - 1] = g[m - 1]
        BY <2>1, <2>2
      <4> QED BY <1>2, <3>1, <4>1
    <3>2. CASE i # m
      <4>1. i \in 0..(m - 1) /\ f[i] = g[i] /\ (i # 0 => f[i - 1] = g[i - 1])
        BY <2>1, <2>2, <3>2
      <4>2. g[i] = IF i = 0 THEN <<>>
                   ELSE IF s[i] \in S THEN Append(g[i - 1], s[i]) ELSE g[i - 1]
        BY <1>3, <4>1 DEF Keeps
      <4> HIDE DEF f
      <4> QED BY <4>1, <4>2
    <3> QED BY <3>1, <3>2
  <2>4. f = [i \in 0..m |-> f[i]]
    OBVIOUS
  <2> HIDE DEF f
  <2> QED BY <2>3, <2>4 DEF Keeps
<1> QED
  BY <1>1, <1>4

LEMMA KeepsStep ==
    ASSUME NEW f, NEW s, NEW S, NEW n \in Nat, Keeps(f, s, S, n), NEW i \in 1..n
    PROVE  f[i] = IF s[i] \in S THEN Append(f[i - 1], s[i]) ELSE f[i - 1]
<1>1. i \in 0..n /\ i # 0
  OBVIOUS
<1> QED
  BY <1>1 DEF Keeps

LEMMA KeptIs ==
    ASSUME NEW s, NEW S, Len(s) \in Nat
    PROVE  \E f : Keeps(f, s, S, Len(s)) /\ Kept(s, S) = f[Len(s)]
<1> DEFINE kept == CHOOSE f : Keeps(f, s, S, Len(s))
<1>1. Keeps(kept, s, S, Len(s))
  BY KeepsExists
<1>2. Kept(s, S) = kept[Len(s)]
  BY DEF Kept, Keeps
<1> QED
  BY <1>1, <1>2

LEMMA KeptEmpty == ASSUME NEW S PROVE Kept(<<>>, S) = <<>>
<1>1. Len(<<>>) = 0
  OBVIOUS
<1>2. PICK f : Keeps(f, <<>>, S, 0) /\ Kept(<<>>, S) = f[0]
  BY <1>1, KeptIs
<1> QED
  BY <1>2 DEF Keeps

\* One more character is kept or not, and nothing before it changes.
LEMMA KeptAppend ==
    ASSUME NEW C, NEW s \in Seq(C), NEW x \in C, NEW S
    PROVE  Kept(Append(s, x), S) = IF x \in S THEN Append(Kept(s, S), x) ELSE Kept(s, S)
<1> DEFINE n == Len(s)
           t == Append(s, x)
<1>1. /\ n \in Nat /\ Len(t) = n + 1 /\ t[n + 1] = x
      /\ \A i \in 1..n : t[i] = s[i]
  OBVIOUS
<1> HIDE DEF n, t
<1>2. PICK f : Keeps(f, t, S, n + 1) /\ Kept(t, S) = f[n + 1]
  <2>1. Len(t) = n + 1 /\ Len(t) \in Nat
    BY <1>1
  <2>2. \E f : Keeps(f, t, S, Len(t)) /\ Kept(t, S) = f[Len(t)]
    BY <2>1, KeptIs
  <2> QED
    BY <2>1, <2>2
<1>3. PICK g : Keeps(g, s, S, n) /\ Kept(s, S) = g[n]
  BY <1>1, KeptIs DEF n
<1> DEFINE Bad == {i \in Nat : i <= n /\ f[i] # g[i]}
<1>4. Bad = {}
  <2> SUFFICES ASSUME Bad # {} PROVE FALSE
    OBVIOUS
  <2>1. PICK m \in Bad : \A k \in Bad : m <= k
    <3> Bad \in SUBSET Nat
      OBVIOUS
    <3> HIDE DEF Bad
    <3> QED
      BY LeastNumber
  <2>2. CASE m = 0
    BY <1>1, <1>2, <1>3, <2>1, <2>2 DEF Keeps
  <2>3. CASE m # 0
    <3>1. m \in 1..n /\ m - 1 \in 0..n /\ m - 1 \notin Bad
      BY <1>1, <2>1, <2>3
    <3>2. f[m - 1] = g[m - 1] /\ t[m] = s[m]
      BY <1>1, <3>1
    <3>3. f[m] = IF t[m] \in S THEN Append(f[m - 1], t[m]) ELSE f[m - 1]
      BY <1>1, <1>2, <3>1, KeepsStep
    <3>4. g[m] = IF s[m] \in S THEN Append(g[m - 1], s[m]) ELSE g[m - 1]
      BY <1>1, <1>3, <3>1, KeepsStep
    <3> QED
      BY <2>1, <3>2, <3>3, <3>4
  <2> QED
    BY <2>2, <2>3
<1>5. f[n] = g[n]
  BY <1>1, <1>4
<1>6. f[n + 1] = IF t[n + 1] \in S THEN Append(f[n], t[n + 1]) ELSE f[n]
  <2>1. n + 1 \in Nat /\ n + 1 \in 1..(n + 1) /\ (n + 1) - 1 = n
    BY <1>1
  <2> QED
    BY <1>2, <2>1, KeepsStep
<1> QED
  BY <1>1, <1>2, <1>3, <1>5, <1>6 DEF t

LEMMA KeptTwiceAppend ==
    ASSUME NEW C, NEW v \in Seq(C), NEW x \in C, NEW A, NEW B, x \in B => x \in A,
           Kept(v, A) \in Seq(C), Kept(Kept(v, A), B) = Kept(v, B)
    PROVE  /\ Kept(Append(v, x), A) \in Seq(C)
           /\ Kept(Kept(Append(v, x), A), B) = Kept(Append(v, x), B)
<1>1. /\ Kept(Append(v, x), A) = IF x \in A THEN Append(Kept(v, A), x) ELSE Kept(v, A)
      /\ Kept(Append(v, x), B) = IF x \in B THEN Append(Kept(v, B), x) ELSE Kept(v, B)
  BY KeptAppend
<1>2. CASE x \in A
  <2>1. Kept(Append(Kept(v, A), x), B)
          = IF x \in B THEN Append(Kept(Kept(v, A), B), x) ELSE Kept(Kept(v, A), B)
    BY KeptAppend
  <2>2. Append(Kept(v, A), x) \in Seq(C)
    OBVIOUS
  <2>3. Kept(Append(v, x), A) = Append(Kept(v, A), x)
    BY <1>1, <1>2
  <2> QED
    BY <1>1, <2>1, <2>2, <2>3
<1>3. CASE x \notin A
  BY <1>1, <1>3
<1> QED
  BY <1>2, <1>3

\* What is removed first does not matter to a later removal of more.
LEMMA KeptTwice ==
    ASSUME NEW C, NEW s \in Seq(C), NEW A, NEW B,
           \A i \in 1..Len(s) : s[i] \in B => s[i] \in A
    PROVE  Kept(Kept(s, A), B) = Kept(s, B)
<1> DEFINE Sound(u) == Kept(u, A) \in Seq(C) /\ Kept(Kept(u, A), B) = Kept(u, B)
           Apt(u) == \A i \in 1..Len(u) : u[i] \in B => u[i] \in A
           Bad == {m \in Nat : \E u \in Seq(C) : Len(u) = m /\ Apt(u) /\ ~Sound(u)}
<1>1. Bad = {}
  <2> SUFFICES ASSUME Bad # {} PROVE FALSE
    OBVIOUS
  <2>1. PICK m \in Bad : \A k \in Bad : m <= k
    <3> Bad \in SUBSET Nat
      OBVIOUS
    <3> HIDE DEF Bad
    <3> QED
      BY LeastNumber
  <2>2. PICK u \in Seq(C) : Len(u) = m /\ Apt(u) /\ ~Sound(u)
    BY <2>1
  <2>3. u # <<>>
    <3>1. Sound(<<>>)
      <4>1. <<>> \in Seq(C) /\ Kept(<<>>, A) = <<>> /\ Kept(<<>>, B) = <<>>
        BY KeptEmpty
      <4> QED
        BY <4>1
    <3> HIDE DEF Sound
    <3> QED
      BY <2>2, <3>1
  <2> DEFINE v == SubSeq(u, 1, m - 1)
             x == u[m]
  <2>4. /\ v \in Seq(C) /\ x \in C /\ u = Append(v, x)
        /\ Len(v) = m - 1 /\ m - 1 \in Nat
        /\ \A i \in 1..Len(v) : v[i] = u[i]
    <3>1. m \in Nat \ {0}
      BY <2>2, <2>3
    <3> QED
      BY <2>2, <3>1
  <2> HIDE DEF v, x
  <2>5. Apt(v) /\ (x \in B => x \in A)
    <3>1. /\ m - 1 = Len(v) /\ Len(v) \in Nat /\ m \in 1..Len(u) /\ x = u[m]
          /\ \A i \in 1..Len(v) : v[i] = u[i] /\ i \in 1..Len(u)
      <4>1. m \in Nat /\ Len(u) = m /\ Len(v) = m - 1 /\ m - 1 \in Nat
        BY <2>1, <2>2, <2>4
      <4>2. m \in 1..m /\ \A i \in 1..(m - 1) : i \in 1..m
        BY <4>1
      <4> QED
        BY <2>4, <4>1, <4>2 DEF x
    <3>2. \A i \in 1..Len(u) : u[i] \in B => u[i] \in A
      BY <2>2
    <3> QED
      BY <3>1, <3>2
  <2>6. Sound(v)
    <3>1. m - 1 \notin Bad
      BY <2>1, <2>4
    <3> HIDE DEF Apt, Sound
    <3> QED
      BY <2>4, <2>5, <3>1
  <2>7. Sound(u)
    BY <2>4, <2>5, <2>6, KeptTwiceAppend
  <2> QED
    BY <2>2, <2>7
<1>2. Len(s) \in Nat /\ Len(s) \notin Bad /\ Apt(s)
  BY <1>1
<1>3. Sound(s)
  <2> HIDE DEF Apt, Sound
  <2> QED
    BY <1>2
<1> QED
  BY <1>3

\* The separators hide no digit: the digits that the policy sees in the number to
\* be dialled are those of the number as it was sent (_number, _dialed_digits).
LEMMA DigitsOfDialable ==
    ASSUME NEW number \in Seq(STRING)
    PROVE  DialedDigits(Dialable(number)) = Kept(number, Digits)
<1> DEFINE kept == {number[i] : i \in DOMAIN number} \ Separators
<1>1. Digits \cap Separators = {}
  BY DEF Digits, Separators
<1>2. \A i \in 1..Len(number) : number[i] \in Digits => number[i] \in kept
  BY <1>1
<1> HIDE DEF kept
<1>3. Kept(Kept(number, kept), Digits) = Kept(number, Digits)
  BY <1>2, KeptTwice
<1> QED
  BY <1>3 DEF DialedDigits, Dialable, kept

\* A request that passes every check is as the documents say (create_app, allows).
LEMMA AdmittedAsDocumented ==
    ASSUME NEW r \in Requests, Admitted(r)
    PROVE  /\ r.token = "valid" /\ Cardinality(r.sources) = 1
           /\ Kept(r.number, Digits) \notin HardBlocked
           /\ \A rule \in BlockedRules : ~Matches(Dialable(r.number), {rule})
<1>1. \A check \in 1..13 : ~Fails(r, check)
  BY DEF Admitted, Refusals
<1>2. r.token = "valid"
  BY <1>1 DEF Fails
<1>3. Cardinality(r.sources) = 1
  <2>1. ~Fails(r, 6)
    BY <1>1
  <2>2. PICK source : r.sources = {source}
    BY <2>1 DEF Fails
  <2> QED
    BY <2>2, FS_Singleton
<1>4. Allows(Dialable(r.number))
  <2>1. ~Fails(r, 13)
    BY <1>1
  <2> QED
    BY <2>1 DEF Fails
<1>5. Kept(r.number, Digits) \notin HardBlocked
  <2>1. r.number \in Seq(STRING)
    BY RequestsAssumption
  <2>2. DialedDigits(Dialable(r.number)) = Kept(r.number, Digits)
    BY <2>1, DigitsOfDialable
  <2> QED
    BY <1>4, <2>2 DEF Allows
<1>6. \A rule \in BlockedRules : ~Matches(Dialable(r.number), {rule})
  BY <1>4 DEF Allows, Matches
<1> QED
  BY <1>2, <1>3, <1>5, <1>6

-----------------------------------------------------------------------------
(* The rate limit                                                          *)

\* Every step of a request is a step of the rate limit or leaves it alone.
LEMMA StepsOfRateLimit == [RequestNext]_callVars => [RateNext]_rateVars
<1> SUFFICES ASSUME [RequestNext]_callVars PROVE [RateNext]_rateVars
  OBVIOUS
<1>1. ASSUME NEW r \in Requests, Post(r) PROVE [RateNext]_rateVars
  BY <1>1 DEF Post, RateNext, rateVars
<1>2. CASE DialRecorded
  <2>1. CASE Full
    BY <1>2, <2>1 DEF DialRecorded, RateNext, RateRefused
  <2>2. CASE ~Full
    BY <1>2, <2>2 DEF DialRecorded, RateNext, RateRecorded
  <2> QED
    BY <2>1, <2>2
<1>3. CASE TimePasses
  BY <1>3 DEF TimePasses, RateNext
<1>4. CASE Prepare \/ PreparationFailed \/ DialCancelled \/ Over \/ UNCHANGED callVars
  BY <1>4 DEF Prepare, PreparationFailed, DialCancelled, Over, callVars, rateVars
<1> QED
  BY <1>1, <1>2, <1>3, <1>4 DEF RequestNext

\* When the deque is full, what is in it lies within the window: the times are
\* sorted, so the attempts behind one that is live are live.
LEMMA FullWithinWindow ==
    ASSUME RateInv, Expire, Full
    PROVE  Cardinality(DialsInWindow) >= MaxAttempts
<1> DEFINE n == Len(times)
<1>1. PICK k \in first..(n + 1) : (k <= n => Live(k)) /\ first' = k
  BY DEF Expire
<1>2. /\ n \in Nat /\ now \in Nat /\ first \in 1..(n + 1)
      /\ \A i \in 1..n : times[i] \in Nat
      /\ \A i, j \in 1..n : i <= j => times[i] <= times[j]
  BY DEF RateInv
<1>3. n + 1 - k >= MaxAttempts /\ k \in 1..n
  BY <1>1, <1>2, RateAssumption DEF Full
<1>4. times[k] > now - Window
  BY <1>1, <1>3 DEF Live
<1>5. ASSUME NEW i \in k..n PROVE i \in DialsInWindow
  <2>1. i \in 1..n /\ times[k] <= times[i]
    BY <1>2, <1>3
  <2>2. now - times[i] < Window
    BY <1>2, <1>3, <1>4, <2>1, RateAssumption
  <2> QED
    BY <2>1, <2>2 DEF DialsInWindow
<1>6. IsFiniteSet(DialsInWindow)
  <2>1. IsFiniteSet(1..n)
    BY <1>2, FS_Interval
  <2>2. DialsInWindow \in SUBSET (1..n)
    BY DEF DialsInWindow
  <2> QED
    BY <2>1, <2>2, FS_Subset
<1>7. Cardinality(k..n) <= Cardinality(DialsInWindow)
  BY <1>5, <1>6, FS_Subset
<1>8. Cardinality(k..n) = n - k + 1
  BY <1>2, <1>3, FS_Interval
<1>9. Cardinality(DialsInWindow) \in Nat
  BY <1>6, FS_CardinalityType
<1> QED
  BY <1>2, <1>3, <1>7, <1>8, <1>9, RateAssumption

-----------------------------------------------------------------------------
(* The request                                                             *)

\* A preparation goes on only for a request that is not answered yet, so that
\* it is over when the next request comes.
RequestInv ==
    /\ AudioInv
    /\ stage \in Working => status = 0
    /\ request = NoRequest => stage = "idle" /\ status = 0
    /\ request \in Requests \cup {NoRequest}
    /\ TooLargeIsTooLarge

LEMMA RequestInvInit == RequestInit => RequestInv
BY AudioInvInit DEF RequestInit, RequestInv, AudioInit, TooLargeIsTooLarge, Working

\* The status that refuses a request is one of the table, and 413 is not that of an
\* upload that fits; what is prepared keeps the limit.
LEMMA PostPreserves ==
    ASSUME RequestInv, NEW r \in Requests, Post(r)
    PROVE  /\ RequestInv'
           /\ status' \notin {202, 503}
           /\ status' = 429 => RateRefused
<1>1. stage = "idle" /\ status = 0 /\ request' = r /\ r # NoRequest
  BY RequestsAssumption DEF Post, RequestInv
<1>2. CASE /\ \E check \in DOMAIN Refusals :
                Refuses(r, check) /\ status' = Refusals[check]
           /\ UNCHANGED <<rateVars, audioVars>>
  <2>1. PICK check \in DOMAIN Refusals : Fails(r, check) /\ status' = Refusals[check]
    BY <1>2 DEF Refuses
  <2>2. status' \in {400, 401, 413, 422}
    BY <2>1 DEF Refusals
  <2>3. TooLargeIsTooLarge'
    <3> SUFFICES ASSUME "wav" \in r.sources
                 PROVE  /\ status' # 0 /\ stage' = "idle"
                        /\ /\ r.wav.bytes <= MaxAudioBytes /\ r.encoding = "strict"
                           /\ r.rest < MaxJsonOverhead
                           => status' # 413
      BY <1>1 DEF TooLargeIsTooLarge
    <3>1. status' # 0 /\ stage' = "idle"
      BY <1>1, <1>2, <2>2 DEF audioVars
    <3> QED
      BY <2>1, <3>1, FittingUploads
  <2>4. AudioInv' /\ stage' = "idle"
    BY <1>1, <1>2 DEF RequestInv, AudioInv, NothingLeft, AudioWithinLimits, audioVars
  <2> QED
    BY <1>1, <2>2, <2>3, <2>4 DEF RequestInv, Working
<1>3. CASE RateRefused /\ status' = 429 /\ UNCHANGED audioVars
  <2>1. AudioInv' /\ stage' = "idle"
    BY <1>1, <1>3 DEF RequestInv, AudioInv, NothingLeft, AudioWithinLimits, audioVars
  <2> QED
    BY <1>1, <1>3, <2>1 DEF RequestInv, TooLargeIsTooLarge, Working
<1>4. CASE Admitted(r) /\ status' = 0 /\ (FromMessage \/ FromUrl(r.host) \/ FromWavBytes(r.wav))
  <2>1. AudioInv'
    <3>1. CASE FromMessage
      BY <3>1, AudioAssumption
         DEF FromMessage, RequestInv, AudioInv, NothingLeft, AudioWithinLimits, Working
    <3>2. CASE FromUrl(r.host)
      <4>1. CASE r.host
        BY <3>2, <4>1, AudioAssumption
           DEF FromUrl, RequestInv, AudioInv, NothingLeft, AudioWithinLimits, Working
      <4>2. CASE ~r.host
        BY <3>2, <4>2, FailPreserves DEF FromUrl, RequestInv
      <4> QED
        BY <4>1, <4>2
    <3>3. CASE FromWavBytes(r.wav)
      BY <3>3, NormalizePreserves, FailPreserves DEF FromWavBytes, RequestInv
    <3> QED
      BY <1>4, <3>1, <3>2, <3>3
  <2> QED
    BY <1>1, <1>4, <2>1, LargeUploads DEF RequestInv, TooLargeIsTooLarge
<1> QED
  <2>1. CASE r.sources = {"message"}
    BY <1>2, <1>3, <1>4, <2>1 DEF Post
  <2>2. CASE r.sources = {"url"}
    BY <1>2, <1>3, <1>4, <2>2 DEF Post
  <2>3. CASE r.sources # {"message"} /\ r.sources # {"url"}
    BY <1>2, <1>3, <1>4, <2>3 DEF Post
  <2> QED
    BY <2>1, <2>2, <2>3

LEMMA DialRecordedOutcome ==
    ASSUME DialRecorded
    PROVE  /\ status = 0 /\ status' \in {202, 429, 503}
           /\ status' = 429 <=> Full
           /\ times' = IF Full THEN times ELSE Append(times, now)
           /\ UNCHANGED <<request, audioVars>>
<1>1. CASE Full
  BY <1>1 DEF DialRecorded, Answer
<1>2. CASE ~Full
  BY <1>2 DEF DialRecorded, Answer
<1> QED
  BY <1>1, <1>2

LEMMA RequestInvNext == RequestInv /\ [RequestNext]_callVars => RequestInv'
<1> SUFFICES ASSUME RequestInv, [RequestNext]_callVars PROVE RequestInv'
  OBVIOUS
<1> USE DEF RequestInv
<1>1. ASSUME NEW r \in Requests, Post(r) PROVE RequestInv'
  BY <1>1, PostPreserves
<1>2. CASE Prepare
  BY <1>2, AudioStepPreserves DEF Prepare, requestVars, TooLargeIsTooLarge, Working
<1>3. CASE PreparationFailed
  BY <1>3 DEF PreparationFailed, Answer, AudioInv, NothingLeft, AudioWithinLimits,
              audioVars, TooLargeIsTooLarge, Working
<1>4. CASE DialCancelled
  <2>1. AudioInv' /\ stage' = "failed"
    BY <1>4, FailPreserves DEF DialCancelled, Fail
  <2> QED
    BY <1>4, <2>1 DEF DialCancelled, Answer, TooLargeIsTooLarge, Working
<1>5. CASE DialRecorded
  <2>1. stage = "prepared" /\ UNCHANGED <<request, audioVars>> /\ status' \in {202, 429, 503}
    BY <1>5, DialRecordedOutcome DEF DialRecorded
  <2> QED
    BY <2>1 DEF AudioInv, NothingLeft, AudioWithinLimits, audioVars, TooLargeIsTooLarge, Working
<1>6. CASE Over
  BY <1>6 DEF Over, AudioInv, NothingLeft, AudioWithinLimits, TooLargeIsTooLarge, Working
<1>7. CASE TimePasses \/ UNCHANGED callVars
  BY <1>7 DEF TimePasses, callVars, requestVars, audioVars, AudioInv, NothingLeft,
              AudioWithinLimits, TooLargeIsTooLarge, Working
<1> QED
  BY <1>1, <1>2, <1>3, <1>4, <1>5, <1>6, <1>7 DEF RequestNext

LEMMA InvariantsHold == RequestSpec => [](RequestInv /\ RateInv)
<1>1. RequestInit => RequestInv /\ RateInv
  BY RequestInvInit, RateInvInit DEF RequestInit
<1>2. RequestInv /\ RateInv /\ [RequestNext]_callVars => (RequestInv /\ RateInv)'
  BY RequestInvNext, RateInvNext, StepsOfRateLimit
<1> QED
  BY <1>1, <1>2, PTL DEF RequestSpec

-----------------------------------------------------------------------------
\* Handling requests implements the rate limit: what they record and refuse is a
\* behaviour of RateLimit.
THEOREM RequestsImplementRateLimit == RequestSpec => RateSpec
<1>1. RequestInit => RateInit
  BY DEF RequestInit
<1> QED
  BY <1>1, StepsOfRateLimit, PTL DEF RequestSpec, RateSpec

\* No window of time holds more dials than the limit, whatever is requested and
\* whatever fails (_check_rate_limit).
THEOREM RequestWindow == RequestSpec => []WindowRespected
BY RequestsImplementRateLimit, RateLimitCorrect, PTL

\* No directory and no process is left behind, whatever step fails (audio.py).
THEOREM RequestLeavesNothing == RequestSpec => []NothingLeft
<1>1. RequestInv => NothingLeft
  BY DEF RequestInv, AudioInv
<1> QED
  BY <1>1, InvariantsHold, PTL

\* Downloads being stored and WAVs to be played keep the limits, whatever servers
\* send and tools write (from_url, _validate_wav).
THEOREM RequestAudioWithinLimits == RequestSpec => []AudioWithinLimits
<1>1. RequestInv => AudioWithinLimits
  BY DEF RequestInv, AudioInv
<1> QED
  BY <1>1, InvariantsHold, PTL

\* No upload above the limit is prepared, and none that fits is refused as too
\* large, for every limit (_max_base64_length, _audio_wav, create_app).
THEOREM RequestTooLarge == RequestSpec => []TooLargeIsTooLarge
<1>1. RequestInv => TooLargeIsTooLarge
  BY DEF RequestInv
<1> QED
  BY <1>1, InvariantsHold, PTL

\* Attempts are counted when a call is dialled, and only then (start_call).
THEOREM RequestAttempts == RequestSpec => AttemptsAreDials
<1> DEFINE Dials == status = 0 /\ status' \in {202, 503}
<1>1. ASSUME RequestInv, RateInv, [RequestNext]_callVars
      PROVE  (times' # times) <=> Dials
  <2>1. ASSUME NEW r \in Requests, Post(r) PROVE (times' # times) <=> Dials
    <3>1. UNCHANGED times
      BY <2>1 DEF Post, RateRefused, RateChecked, rateVars
    <3> QED
      BY <1>1, <2>1, <3>1, PostPreserves
  <2>2. CASE DialRecorded
    <3>1. Append(times, now) # times
      BY <1>1 DEF RateInv
    <3> QED
      BY <2>2, <3>1, DialRecordedOutcome
  <2>3. CASE Prepare \/ TimePasses \/ UNCHANGED callVars
    BY <2>3 DEF Prepare, TimePasses, Tick, callVars, requestVars, rateVars
  <2>4. CASE PreparationFailed \/ DialCancelled
    BY <2>4 DEF PreparationFailed, DialCancelled, Answer, rateVars
  <2>5. CASE Over
    BY <2>5 DEF Over, rateVars
  <2> QED
    BY <1>1, <2>1, <2>2, <2>3, <2>4, <2>5 DEF RequestNext
<1>2. (RequestInv /\ RateInv) /\ [RequestNext]_callVars
        => [(times' # times) <=> Dials]_callVars
  BY <1>1
<1> QED
  BY <1>2, InvariantsHold, PTL DEF RequestSpec, AttemptsAreDials

\* A request is refused for the rate limit only when the limit is used up by dials
\* within the last window (_check_rate_limit).
THEOREM RequestRefusals == RequestSpec => RefusedOnlyWhenFull
<1> DEFINE Refused == status' = 429 /\ status = 0
<1>1. ASSUME RequestInv, RateInv, [RequestNext]_callVars, ~UNCHANGED callVars, Refused
      PROVE  Cardinality(DialsInWindow) >= MaxAttempts
  <2>1. ASSUME NEW r \in Requests, Post(r) PROVE Expire /\ Full
    BY <1>1, <2>1, PostPreserves DEF RateRefused
  <2>2. ASSUME DialRecorded PROVE Expire /\ Full
    BY <1>1, <2>2, DialRecordedOutcome DEF DialRecorded
  <2>3. CASE Prepare \/ PreparationFailed \/ DialCancelled \/ Over \/ TimePasses
    BY <1>1, <2>3
       DEF Prepare, PreparationFailed, DialCancelled, Over, TimePasses, Answer, requestVars
  <2> QED
    BY <1>1, <2>1, <2>2, <2>3, FullWithinWindow DEF RequestNext
<1>2. (RequestInv /\ RateInv) /\ [RequestNext]_callVars
        => [Refused => Cardinality(DialsInWindow) >= MaxAttempts]_callVars
  BY <1>1
<1> QED
  BY <1>2, InvariantsHold, PTL DEF RequestSpec, RefusedOnlyWhenFull

\* A call is dialled for an admitted request only, and while its audio is ready.
DialInv ==
    /\ stage \in Working \cup {"prepared"} => Admitted(request)
    /\ status \in {202, 503} => stage = "prepared"

\* Only a request that passes the checks gets its audio prepared.
LEMMA PostAdmits ==
    ASSUME RequestInv, NEW r \in Requests, Post(r)
    PROVE  stage' \in Working \cup {"prepared"} => Admitted(request')
<1>1. stage = "idle" /\ request' = r
  BY DEF Post, RequestInv
<1>2. Admitted(r) \/ UNCHANGED audioVars
  BY DEF Post
<1>3. UNCHANGED audioVars => stage' = "idle"
  BY <1>1 DEF audioVars
<1> QED
  BY <1>1, <1>2, <1>3 DEF Working

LEMMA DialInvNext == RequestInv /\ DialInv /\ [RequestNext]_callVars => DialInv'
<1> SUFFICES ASSUME RequestInv, DialInv, [RequestNext]_callVars PROVE DialInv'
  OBVIOUS
<1>1. ASSUME NEW r \in Requests, Post(r) PROVE DialInv'
  BY <1>1, PostAdmits, PostPreserves DEF DialInv
<1>2. CASE Prepare
  <2>1. stage \in Working /\ status = 0 /\ UNCHANGED <<request, status>>
    BY <1>2, AudioStepPreserves DEF Prepare, RequestInv, requestVars
  <2>2. Admitted(request')
    BY <2>1 DEF DialInv
  <2> QED
    BY <2>1, <2>2 DEF DialInv
<1>3. CASE PreparationFailed \/ DialCancelled
  <2>1. stage' = "failed" /\ status' \notin {202, 503}
    BY <1>3 DEF PreparationFailed, DialCancelled, Answer, Fail, audioVars
  <2> QED
    BY <2>1 DEF DialInv, Working
<1>4. CASE DialRecorded
  <2>1. stage = "prepared" /\ stage' = stage /\ request' = request
    BY <1>4, DialRecordedOutcome DEF DialRecorded, audioVars
  <2> QED
    BY <2>1 DEF DialInv
<1>5. CASE Over
  BY <1>5 DEF Over, DialInv, Working
<1>6. CASE TimePasses \/ UNCHANGED callVars
  BY <1>6 DEF TimePasses, callVars, requestVars, audioVars, DialInv
<1> QED
  BY <1>1, <1>2, <1>3, <1>4, <1>5, <1>6 DEF RequestNext

\* No call is dialled to an emergency or blocked number, however the number is
\* written and whatever the allow rules say, nor without a token or with audio that
\* is not ready (create_call, NumberPolicy.allows, start_call).
THEOREM RequestDialled == RequestSpec => []DialledAsDocumented
<1>1. RequestInit => DialInv
  BY DEF RequestInit, AudioInit, DialInv, Working
<1>2. RequestSpec => [](RequestInv /\ DialInv)
  BY <1>1, DialInvNext, InvariantsHold, PTL DEF RequestSpec
<1>3. RequestInv /\ DialInv => DialledAsDocumented
  <2> SUFFICES ASSUME RequestInv, DialInv, status \in {202, 503}
               PROVE  DialledAsDocumented
    BY DEF DialledAsDocumented
  <2>1. stage = "prepared" /\ Admitted(request) /\ request \in Requests
    BY DEF DialInv, RequestInv
  <2>2. directory /\ Normalized(wav)
    BY <2>1 DEF RequestInv, AudioInv, NothingLeft, AudioWithinLimits
  <2> QED
    BY <2>1, <2>2, AdmittedAsDocumented DEF DialledAsDocumented
<1> QED
  BY <1>2, <1>3, PTL
===============================================================================
