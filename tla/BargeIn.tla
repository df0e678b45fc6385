------------------------------- MODULE BargeIn -------------------------------
(***************************************************************************)
(* Interrupting the agent while it talks                                   *)
(* (src/src/conversation/barge_in_handler.py).  Three kinds of threads     *)
(* share the handler's fields without a lock: the one that starts and      *)
(* cancels speeches, the voice detector that signals the user, and one     *)
(* worker per speech.  A step is one access to a field.                    *)
(*                                                                         *)
(* A worker calls the TTS function, which ends when it ends; the simulated *)
(* one also ends when it is interrupted, so a speech may end at any time.  *)
(***************************************************************************)


CONSTANT Workers        \* threads of speeches that may be alive at a time

VARIABLES
    state,              \* state
    ttsActive,          \* tts_active
    interrupted,        \* _interrupted
    pc,                 \* where the calling threads are, and go on after a signal
    workers,            \* where each worker is
    crowded             \* auxiliary: the last start overlapped a speech or a signal

bargeVars == <<state, ttsActive, interrupted, pc, workers, crowded>>

Callers == {"agent", "audio"}
At(place) == [at |-> place, then |-> "idle"]

BargeTypeOK ==
    /\ state \in {"idle", "agent_speaking", "user_interrupting", "processing"}
    /\ ttsActive \in BOOLEAN /\ interrupted \in BOOLEAN /\ crowded \in BOOLEAN
    /\ pc \in [Callers -> [at : {"idle", "cancel", "check", "interrupt", "silence",
                                 "interrupting", "processing", "announce", "activate",
                                 "clear", "spawn"},
                           then : {"idle", "announce"}]]
    /\ workers \in [Workers -> {"free", "speaking", "ended", "resting"}]

BargeInit ==
    /\ state = "idle" /\ ttsActive = FALSE /\ interrupted = FALSE /\ crowded = FALSE
    /\ pc = [t \in Callers |-> At("idle")]
    /\ workers = [w \in Workers |-> "free"]

Busy(t) == pc[t].at # "idle"
Alive == {w \in Workers : workers[w] # "free"}

\* A caller that is at one place goes to the next, its way back kept.
Moves(t, from, to) == pc[t].at = from /\ pc' = [pc EXCEPT ![t].at = to]

-----------------------------------------------------------------------------
(* start_agent_speech.                                                     *)

StartSpeech ==
    /\ ~Busy("agent")
    /\ pc' = [pc EXCEPT !["agent"] = IF state = "agent_speaking"
                                     THEN [at |-> "cancel", then |-> "announce"]
                                     ELSE At("announce")]
    /\ crowded' = (Alive # {} \/ Busy("audio"))
    /\ UNCHANGED <<state, ttsActive, interrupted, workers>>

Announce ==
    /\ Moves("agent", "announce", "activate") /\ state' = "agent_speaking"
    /\ UNCHANGED <<ttsActive, interrupted, workers, crowded>>
Activate ==
    /\ Moves("agent", "activate", "clear") /\ ttsActive' = TRUE
    /\ UNCHANGED <<state, interrupted, workers, crowded>>

\* MUTANT: the event of the last interruption is not cleared.
MutantClear ==
    /\ Moves("agent", "clear", "spawn")
    /\ UNCHANGED <<state, ttsActive, interrupted, workers, crowded>>
Clear ==
    /\ Moves("agent", "clear", "spawn") /\ interrupted' = FALSE
    /\ UNCHANGED <<state, ttsActive, workers, crowded>>
Spawn(w) ==
    /\ pc["agent"].at = "spawn" /\ pc' = [pc EXCEPT !["agent"] = At("idle")]
    /\ workers[w] = "free" /\ workers' = [workers EXCEPT ![w] = "speaking"]
    /\ UNCHANGED <<state, ttsActive, interrupted, crowded>>

-----------------------------------------------------------------------------
(* signal_user_speech, and cancel_current_speech that calls it.            *)

SignalSpeech ==
    /\ ~Busy("audio") /\ pc' = [pc EXCEPT !["audio"] = At("check")]
    /\ crowded' = (crowded \/ Busy("agent"))
    /\ UNCHANGED <<state, ttsActive, interrupted, workers>>
CancelSpeech ==
    /\ ~Busy("agent") /\ pc' = [pc EXCEPT !["agent"] = At("cancel")]
    /\ UNCHANGED <<state, ttsActive, interrupted, workers, crowded>>

\* Both ask whether the TTS is active, a cancellation twice.
Told(caller) ==
    IF ~ttsActive THEN At(caller.then)
    ELSE [caller EXCEPT !.at = IF caller.at = "cancel" THEN "check" ELSE "interrupt"]
Asks(t) ==
    /\ pc[t].at \in {"cancel", "check"} /\ pc' = [pc EXCEPT ![t] = Told(@)]
    /\ UNCHANGED <<state, ttsActive, interrupted, workers, crowded>>

Interrupt(t) ==
    /\ Moves(t, "interrupt", "silence") /\ interrupted' = TRUE
    /\ UNCHANGED <<state, ttsActive, workers, crowded>>
Silence(t) ==
    /\ Moves(t, "silence", "interrupting") /\ ttsActive' = FALSE
    /\ UNCHANGED <<state, interrupted, workers, crowded>>
Interrupting(t) ==
    /\ Moves(t, "interrupting", "processing") /\ state' = "user_interrupting"
    /\ UNCHANGED <<ttsActive, interrupted, workers, crowded>>

\* MUTANT: the event is cleared when the interruption has been handled.
MutantProcessing(t) ==
    /\ pc[t].at = "processing" /\ pc' = [pc EXCEPT ![t] = At(@.then)]
    /\ state' = "processing" /\ interrupted' = FALSE
    /\ UNCHANGED <<ttsActive, workers, crowded>>
Processing(t) ==
    /\ pc[t].at = "processing" /\ pc' = [pc EXCEPT ![t] = At(@.then)]
    /\ state' = "processing"
    /\ UNCHANGED <<ttsActive, interrupted, workers, crowded>>

-----------------------------------------------------------------------------
(* speech_worker.                                                          *)

SpeechEnds(w) ==
    /\ workers[w] = "speaking" /\ workers' = [workers EXCEPT ![w] = "ended"]
    /\ ttsActive' = FALSE
    /\ UNCHANGED <<state, interrupted, pc, crowded>>
AskInterrupted(w) ==
    /\ workers[w] = "ended"
    /\ workers' = [workers EXCEPT ![w] = IF interrupted THEN "free" ELSE "resting"]
    /\ UNCHANGED <<state, ttsActive, interrupted, pc, crowded>>
Rest(w) ==
    /\ workers[w] = "resting" /\ workers' = [workers EXCEPT ![w] = "free"]
    /\ state' = "idle"
    /\ UNCHANGED <<ttsActive, interrupted, pc, crowded>>

BargeNext ==
    \/ StartSpeech \/ Announce \/ Activate \/ Clear
    \/ SignalSpeech \/ CancelSpeech
    \/ \E t \in Callers : Asks(t) \/ Interrupt(t) \/ Silence(t) \/ Interrupting(t) \/ Processing(t)
    \/ \E w \in Workers : Spawn(w) \/ SpeechEnds(w) \/ AskInterrupted(w) \/ Rest(w)

BargeSpec == BargeInit /\ [][BargeNext]_bargeVars

-----------------------------------------------------------------------------
(* Properties.                                                             *)

Settled == \A t \in Callers : ~Busy(t)

\* However starts, interruptions and the ends of old speeches interleave, when
\* nobody talks and no call is under way the handler does not say that the
\* agent talks, and no interruption is left half done.
QuietIsIdle ==
    Settled /\ Alive = {} => ~ttsActive /\ state \in {"idle", "processing"}

\* A speech that is under way can be interrupted ("El usuario puede interrumpir
\* en cualquier momento") unless it was started while another one, or a signal,
\* was under way.  Then the end of the old one takes tts_active from it.
SpeechCanBeInterrupted ==
    Settled /\ ~crowded /\ ~interrupted /\ (\E w \in Workers : workers[w] = "speaking")
        => ttsActive /\ state = "agent_speaking"
=============================================================================
