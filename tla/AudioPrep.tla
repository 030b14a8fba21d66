------------------------------ MODULE AudioPrep ------------------------------
(***************************************************************************)
(* The audio preparation (audio.py) of one request: a private directory, a *)
(* source WAV that is synthesised, uploaded or downloaded, its validation, *)
(* its conversion by ffmpeg and the validation of the result.  espeak-ng,  *)
(* ffmpeg and the audio server are external: they may produce any file,    *)
(* fail, or hang.  A WAV is abstracted to what _validate_wav looks at: its *)
(* encoding, its length (the header counts as no bytes), its channels, the *)
(* bytes of a sample, and its rate in units of 8 kHz.                      *)
(* Nothing in src/ cancels a preparation, so there is no such step.        *)
(***************************************************************************)
EXTENDS Integers

CONSTANTS
    MaxAudioBytes,      \* config max_audio_bytes
    MaxAudioSeconds,    \* config max_audio_seconds, in frames of 8 kHz
    Wavs                \* files, [pcm, bytes, channels, sample, rate]

ASSUME AudioAssumption ==
    /\ MaxAudioBytes \in Nat /\ MaxAudioSeconds \in Nat
    /\ \A w \in Wavs :
        w.bytes \in Nat /\ {w.channels, w.sample, w.rate} \subseteq Nat \ {0}

VARIABLES
    stage,          \* where the preparation is
    directory,      \* its directory exists
    process,        \* espeak-ng or ffmpeg is running
    wav,            \* the source WAV, once validated; the result, once prepared
    stored          \* bytes of the download written to disk

audioVars == <<stage, directory, process, wav, stored>>

NoWav == [pcm |-> FALSE, bytes |-> 0, channels |-> 1, sample |-> 1, rate |-> 1]
Working == {"tts", "download", "ffmpeg", "killing"}

AudioInit ==
    stage = "idle" /\ directory = FALSE /\ process = FALSE /\ wav = NoWav /\ stored = 0

-----------------------------------------------------------------------------
\* _validate_wav: the frames are counted, whatever the header says.
Valid(w) ==
    LET width == w.channels * w.sample IN
    /\ w.bytes <= MaxAudioBytes
    /\ w.pcm
    /\ w.bytes > 0 /\ w.bytes % width = 0
    /\ w.bytes \div width <= MaxAudioSeconds * w.rate

Normalized(w) == w.channels = 1 /\ w.sample = 2 /\ w.rate = 1

\* Mutant of Fail: the directory is forgotten.
FailDirty ==
    /\ stage' = "failed" /\ process' = FALSE /\ stored' = 0
    /\ UNCHANGED <<directory, wav>>

\* An exception leaves the preparation: the directory is removed.
Fail ==
    /\ stage' = "failed" /\ directory' = FALSE /\ process' = FALSE /\ stored' = 0
    /\ UNCHANGED wav

\* The source w is complete: validate it and let ffmpeg convert it.
Normalize(w) ==
    IF ~Valid(w) THEN Fail
    ELSE /\ stage' = "ffmpeg" /\ directory' = TRUE /\ process' = TRUE
         /\ wav' = w /\ stored' = 0

\* from_message: espeak-ng is started in a new directory.
FromMessage ==
    /\ stage = "idle"
    /\ stage' = "tts" /\ directory' = TRUE /\ process' = TRUE
    /\ UNCHANGED <<wav, stored>>

\* from_wav_bytes: the size is checked before there is a directory.
FromWavBytes(w) ==
    /\ stage = "idle"
    /\ IF w.bytes \in 1..MaxAudioBytes THEN Normalize(w) ELSE Fail

\* from_url: a host that is not allowed fails before there is a directory.
FromUrl(allowed) ==
    /\ stage = "idle"
    /\ IF ~allowed THEN Fail
       ELSE /\ stage' = "download" /\ directory' = TRUE /\ stored' = 0
            /\ UNCHANGED <<process, wav>>

\* Mutant of Chunk: the chunk is written before the total is compared.
ChunkFirst(k) ==
    /\ stage = "download"
    /\ IF stored > MaxAudioBytes THEN Fail
       ELSE stored' = stored + k /\ UNCHANGED <<stage, directory, process, wav>>

\* A chunk of k bytes arrives; the announced length is not trusted.
Chunk(k) ==
    /\ stage = "download"
    /\ IF stored + k > MaxAudioBytes THEN Fail
       ELSE stored' = stored + k /\ UNCHANGED <<stage, directory, process, wav>>

\* The body ends: what was stored is the source.
Downloaded(w) == stage = "download" /\ w.bytes = stored /\ Normalize(w)

\* A redirect, another status, too long a body announced, a lost connection, or
\* the timeout of 15 s for the whole download.
DownloadFails == stage = "download" /\ Fail

\* _run: the executable ended well and wrote w.
Exits(w) ==
    \/ stage = "tts" /\ Normalize(w)
    \/ /\ stage = "ffmpeg"
       /\ IF ~(Valid(w) /\ Normalized(w)) THEN Fail
          ELSE /\ stage' = "prepared" /\ process' = FALSE /\ wav' = w
               /\ UNCHANGED <<directory, stored>>

\* _run: the executable is missing, or ended with an error.
RunFails == stage \in {"tts", "ffmpeg"} /\ Fail

WaitsForever == FALSE                                        \* mutant of RunTimesOut
\* _run: after 30 s the process is killed ...
RunTimesOut ==
    /\ stage \in {"tts", "ffmpeg"}
    /\ stage' = "killing"
    /\ UNCHANGED <<directory, process, wav, stored>>

\* ... and waited for.
Killed == stage = "killing" /\ Fail

AudioStep ==
    \/ \E k \in 1..MaxAudioBytes : Chunk(k)
    \/ \E w \in Wavs : Downloaded(w) \/ Exits(w)
    \/ DownloadFails \/ RunFails \/ RunTimesOut \/ Killed

\* Timeouts of the HTTP client and of _run, and a kill that is obeyed.
AudioEnds == DownloadFails \/ RunTimesOut \/ Killed

-----------------------------------------------------------------------------
\* Whatever step fails, nothing stays behind: the directory exists exactly while
\* it is in use, and no espeak-ng or ffmpeg outlives its request (audio.py:61).
NothingLeft ==
    /\ directory <=> stage \in Working \cup {"prepared"}
    /\ process <=> stage \in {"tts", "ffmpeg", "killing"}

\* DOCS.md: "oversized or long WAV files are rejected": what tools and servers
\* produce keeps the limits, a download while it is being stored and the WAV that
\* is played after a conversion that may have made it longer.
AudioWithinLimits ==
    /\ stored <= MaxAudioBytes
    /\ stage = "prepared" =>
        /\ Normalized(wav) /\ wav.bytes \in 1..MaxAudioBytes
        /\ wav.bytes <= 2 * MaxAudioSeconds
=============================================================================
