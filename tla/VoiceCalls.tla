------------------------------ MODULE VoiceCalls ------------------------------
(***************************************************************************)
(* Twilio's callbacks and the tables of agents they work on                *)
(* (src/src/api/voice_routes.py).  A handler has no await, so it is a      *)
(* step.  The table is a variable of the process, and the shipped servers  *)
(* run several with nothing that keeps a call at one of them               *)
(* (src/src/deploy/Dockerfile, --workers 2), so any process may handle any *)
(* callback.  Twilio is external: it posts incoming, then respond for      *)
(* every turn of the caller, status when the state of the call changes; it *)
(* waits for an answer before the next turn, and for nothing else.         *)
(*                                                                         *)
(* The agent (src/src/core/agent.py) has no start_call and no end_call:    *)
(* incoming stores it and then greets with the text of its except branch.  *)
(* Nothing sets "escalated" and nothing but transfer-complete makes an     *)
(* agent inactive, so no turn of an agent hangs up or transfers the call.  *)
(***************************************************************************)
EXTENDS Naturals

CONSTANTS
    Calls,
    Processes,          \* the workers of the server
    MaxTurns            \* bound: turns of a call that one process answers

ASSUME TurnsAssumption == MaxTurns \in Nat

VARIABLES
    sessions,           \* _sessions of each process: the turns each agent has taken, or None
    line,               \* external: the state of each call
    posts,              \* callbacks sent and not handled yet
    answered,           \* auxiliary: turns each process answered since the call came in to it,
                        \* or since it restarted
    late,               \* auxiliary: the processes that handled a callback of each call after
                        \* its final status, and have run on since
    closed              \* auxiliary: the process that handled the final status of each call

voiceVars == <<sessions, line, posts, answered, late, closed>>

None == 0 - 1
FinalStatuses == {"completed", "no-answer", "busy", "failed", "canceled"}
Posts == [call : Calls, kind : {"incoming", "respond", "in-progress"} \cup FinalStatuses]

VoiceTypeOK ==
    /\ sessions \in [Processes -> [Calls -> {None} \cup 0..MaxTurns]]
    /\ line \in [Calls -> {"none", "live", "over"}]
    /\ posts \subseteq Posts
    /\ answered \in [Processes -> [Calls -> 0..MaxTurns]]
    /\ late \in [Calls -> SUBSET Processes]
    /\ closed \in [Calls -> SUBSET Processes]

VoiceInit ==
    /\ sessions = [p \in Processes |-> [c \in Calls |-> None]]
    /\ line = [c \in Calls |-> "none"]
    /\ posts = {}
    /\ answered = [p \in Processes |-> [c \in Calls |-> 0]]
    /\ late = [c \in Calls |-> {}] /\ closed = [c \in Calls |-> {}]

Post(c, kind) == [call |-> c, kind |-> kind]
Of(c, kinds) == {p \in posts : p.call = c /\ p.kind \in kinds}
Store(p, c, turns) == sessions' = [sessions EXCEPT ![p][c] = turns]
Counts(p, c, turns) == answered' = [answered EXCEPT ![p][c] = turns]

-----------------------------------------------------------------------------
(* The call, at Twilio.                                                    *)

Ring(c) ==
    /\ line[c] = "none" /\ line' = [line EXCEPT ![c] = "live"]
    /\ posts' = posts \cup {Post(c, "incoming")}
    /\ UNCHANGED <<sessions, answered, late, closed>>

\* The caller speaks, or is silent and Twilio redirects.
Turn(c) ==
    /\ line[c] = "live" /\ Of(c, {"incoming", "respond"}) = {}
    /\ \A p \in Processes : answered[p][c] < MaxTurns
    /\ posts' = posts \cup {Post(c, "respond")}
    /\ UNCHANGED <<sessions, line, answered, late, closed>>

InProgress(c) ==
    /\ line[c] = "live"
    /\ posts' = posts \cup {Post(c, "in-progress")}
    /\ UNCHANGED <<sessions, line, answered, late, closed>>

\* The end may come with a turn unanswered.
EndCall(c, status) ==
    /\ line[c] = "live" /\ line' = [line EXCEPT ![c] = "over"]
    /\ posts' = posts \cup {Post(c, status)}
    /\ UNCHANGED <<sessions, answered, late, closed>>

-----------------------------------------------------------------------------
(* The handlers, in process p.                                             *)

Handled(c, kind) == Post(c, kind) \in posts /\ posts' = posts \ {Post(c, kind)}

\* A call of which the final status is no longer to come.
Ended(c) == line[c] = "over" /\ Of(c, FinalStatuses) = {}

\* A late callback, once it has been handled.
Notes(p, c) == late' = IF Ended(c) THEN [late EXCEPT ![c] = @ \cup {p}] ELSE late

\* The agent may fail to be made; its constructor reads files and settings.
VoiceIncoming(p, c, made) ==
    /\ Handled(c, "incoming")
    /\ IF made THEN Store(p, c, 0) /\ Notes(p, c) ELSE UNCHANGED <<sessions, late>>
    /\ Counts(p, c, 0)
    /\ UNCHANGED <<line, closed>>

\* MUTANT: a turn of an unknown call is answered by an agent that is not kept.
MutantVoiceRespond(p, c) ==
    /\ Handled(c, "respond")
    /\ IF sessions[p][c] # None THEN Store(p, c, sessions[p][c] + 1) ELSE UNCHANGED sessions
    /\ Counts(p, c, answered[p][c] + 1)
    /\ Notes(p, c)
    /\ UNCHANGED <<line, closed>>

\* A turn of a call that is unknown here gets a new agent, which is kept: the
\* process may have restarted, or another one may have had the turns before.
VoiceRespond(p, c) ==
    /\ Handled(c, "respond")
    /\ Store(p, c, IF sessions[p][c] = None THEN 1 ELSE sessions[p][c] + 1)
    /\ Counts(p, c, answered[p][c] + 1)
    /\ Notes(p, c)
    /\ UNCHANGED <<line, closed>>

\* Or none can be made, and the caller is told to call later and hung up.
VoiceRespondFails(p, c) ==
    /\ sessions[p][c] = None /\ Post(c, "respond") \in posts
    /\ line' = [line EXCEPT ![c] = "over"]
    /\ posts' = (posts \ {Post(c, "respond")})
                \cup (IF line[c] = "live" THEN {Post(c, "completed")} ELSE {})
    /\ UNCHANGED <<sessions, answered, late, closed>>

Closes(p, c, status) ==
    closed' = IF status \in FinalStatuses THEN [closed EXCEPT ![c] = @ \cup {p}] ELSE closed

\* MUTANT: only two of the final states are known.
MutantVoiceStatus(p, c, status) ==
    /\ Handled(c, status)
    /\ IF status \in {"completed", "failed"} THEN Store(p, c, None) ELSE UNCHANGED sessions
    /\ Closes(p, c, status)
    /\ UNCHANGED <<line, answered, late>>

\* Whatever process gets it: the agents of the others are left where they are.
VoiceStatus(p, c, status) ==
    /\ Handled(c, status)
    /\ IF status \in FinalStatuses THEN Store(p, c, None) ELSE UNCHANGED sessions
    /\ Closes(p, c, status)
    /\ UNCHANGED <<line, answered, late>>

\* A process restarts: the table was in its memory.
Restart(p) ==
    /\ sessions' = [sessions EXCEPT ![p] = [c \in Calls |-> None]]
    /\ answered' = [answered EXCEPT ![p] = [c \in Calls |-> 0]]
    /\ late' = [c \in Calls |-> late[c] \ {p}]
    /\ UNCHANGED <<line, posts, closed>>

VoiceNext ==
    \/ \E c \in Calls :
          \/ Ring(c) \/ Turn(c) \/ InProgress(c)
          \/ \E status \in FinalStatuses : EndCall(c, status)
    \/ \E p \in Processes :
          \/ \E c \in Calls :
                \/ \E made \in BOOLEAN : VoiceIncoming(p, c, made)
                \/ VoiceRespond(p, c) \/ VoiceRespondFails(p, c)
                \/ \E status \in FinalStatuses \cup {"in-progress"} : VoiceStatus(p, c, status)
          \/ Restart(p)

VoiceSpec == VoiceInit /\ [][VoiceNext]_voiceVars

-----------------------------------------------------------------------------
(* Properties.                                                             *)

\* While a call lasts, and whatever status callbacks come in between, the agent
\* of each process has taken every turn that process answered since the call
\* came in to it, or since it restarted.  The context of the conversation is
\* whole where one process answered all of it, and split where several did.
HistoryKept ==
    \A p \in Processes, c \in Calls :
        line[c] = "live" /\ answered[p][c] > 0 => sessions[p][c] = answered[p][c]

\* "Llamada termina: limpia sesion".  An agent outlives its call for good only
\* in a process that handled a callback of the call after its final status, or
\* that was not the one to handle that status.
LeftoverIsLate ==
    \A p \in Processes, c \in Calls :
        Ended(c) /\ sessions[p][c] # None => p \in late[c] \/ p \notin closed[c]
=============================================================================
