----------------------------- MODULE CallsProofs -----------------------------
(***************************************************************************)
(* Proofs about a call: the tables of its agents, for any number of calls, *)
(* turns and processes and with Twilio's callbacks handled in any order by *)
(* any of the processes; and its barge-in handler, for any number of       *)
(* threads that were started for speeches and not ended yet.               *)
(***************************************************************************)
EXTENDS VoiceCalls, BargeIn, TLAPS

-----------------------------------------------------------------------------
(* The tables of agents.                                                   *)

Sent(c, kind) == Post(c, kind) \in posts

\* What is kept of each process and call, and which processes did what for a call.
PerCall(S) == [Processes -> [Calls -> S]]
Done == [Calls -> SUBSET Processes]

VoiceTypes ==
    /\ sessions \in PerCall({None} \cup Nat)
    /\ line \in [Calls -> {"none", "live", "over"}]
    /\ posts \subseteq Posts
    /\ answered \in PerCall(Nat)
    /\ late \in Done /\ closed \in Done

\* Nothing was sent of a call that has not rung.
UnrungInv(c) ==
    line[c] = "none" =>
        /\ \A p \in Processes : sessions[p][c] = None /\ answered[p][c] = 0
        /\ \A kind : ~Sent(c, kind)
        /\ closed[c] = {}

\* The agent of a process is up to date, or not made.
UpToDate(p, c) ==
    /\ sessions[p][c] = None => answered[p][c] = 0
    /\ sessions[p][c] # None => sessions[p][c] = answered[p][c]

\* A call that lasts has no final status under way and none behind it, no turn
\* before its incoming was answered, and agents that are up to date.
LiveInv(c) ==
    line[c] = "live" =>
        /\ \A status \in FinalStatuses : ~Sent(c, status)
        /\ closed[c] = {}
        /\ \A p \in Processes : UpToDate(p, c)
        /\ Sent(c, "incoming") => /\ ~Sent(c, "respond")
                                  /\ \A p \in Processes : answered[p][c] = 0

\* One final status is posted of a call, so one process closes it.
FinalInv(c) ==
    \A status \in FinalStatuses : Sent(c, status) =>
        closed[c] = {} /\ \A other \in FinalStatuses : Sent(c, other) => other = status

CallInv(c) == UnrungInv(c) /\ LiveInv(c) /\ FinalInv(c)
VoiceInv == VoiceTypes /\ (\A c \in Calls : CallInv(c)) /\ LeftoverIsLate

\* The callbacks, seen one by one.
LEMMA PostsDiffer ==
  ASSUME NEW c, NEW d, NEW j, NEW k
  PROVE  Post(c, j) = Post(d, k) <=> c = d /\ j = k
  BY DEF Post

LEMMA OfIsSent ==
  ASSUME posts \subseteq Posts, NEW c \in Calls, NEW kinds
  PROVE  Of(c, kinds) = {} <=> \A kind \in kinds : ~Sent(c, kind)
  <1>1. ASSUME NEW p \in posts PROVE p = Post(p.call, p.kind)
    BY <1>1 DEF Posts, Post
  <1>2. \A kind : Post(c, kind).call = c /\ Post(c, kind).kind = kind
    BY DEF Post
  <1>3. ASSUME Of(c, kinds) = {} PROVE \A kind \in kinds : ~Sent(c, kind)
    BY <1>2, <1>3 DEF Of, Sent
  <1>4. ASSUME Of(c, kinds) # {} PROVE \E kind \in kinds : Sent(c, kind)
    <2>1. PICK p \in posts : p.call = c /\ p.kind \in kinds
      BY <1>4 DEF Of
    <2>. QED  BY <1>1, <2>1 DEF Sent
  <1>. QED  BY <1>3, <1>4

\* The table of a process with one of its entries set.
LEMMA StoredAt ==
  ASSUME NEW S, NEW f \in PerCall(S), NEW p \in Processes, NEW c \in Calls, NEW v \in S
  PROVE  LET g == [f EXCEPT ![p][c] = v] IN
         /\ g \in PerCall(S) /\ g[p][c] = v
         /\ \A q \in Processes, d \in Calls : q # p \/ d # c => g[q][d] = f[q][d]
  BY DEF PerCall

\* What a state must agree on with the last one for a call to be as it was.
Same(d) ==
    /\ \A p \in Processes : sessions'[p][d] = sessions[p][d] /\ answered'[p][d] = answered[p][d]
    /\ line'[d] = line[d] /\ late'[d] = late[d] /\ closed'[d] = closed[d]
    /\ \A kind : Sent(d, kind)' <=> Sent(d, kind)

LEMMA SameKeeps ==
  ASSUME NEW d \in Calls, CallInv(d), Same(d)
  PROVE  CallInv(d)'
  <1>1. \A p \in Processes : UpToDate(p, d) => UpToDate(p, d)'
    BY DEF Same, UpToDate
  <1>. QED  BY <1>1 DEF CallInv, UnrungInv, LiveInv, FinalInv, Same

\* A post was handled: it and no other is gone.
LEMMA HandledOnly ==
  ASSUME NEW c, NEW kind, Handled(c, kind)
  PROVE  /\ Sent(c, kind) /\ posts' \subseteq posts
         /\ \A d, k : Sent(d, k)' <=> Sent(d, k) /\ ~(d = c /\ k = kind)
  <1>1. Post(c, kind) \in posts /\ posts' = posts \ {Post(c, kind)}
    BY DEF Handled
  <1>. QED  BY <1>1, PostsDiffer DEF Sent

\* A post was added, and no other.
LEMMA PostedOnly ==
  ASSUME NEW c \in Calls, NEW kind \in {"incoming", "respond", "in-progress"} \cup FinalStatuses,
         posts \subseteq Posts, posts' = posts \cup {Post(c, kind)}
  PROVE  /\ posts' \subseteq Posts
         /\ \A d, k : Sent(d, k)' <=> Sent(d, k) \/ (d = c /\ k = kind)
  BY PostsDiffer DEF Sent, Posts, Post

LEMMA EndedIs ==
  ASSUME posts \subseteq Posts, NEW c \in Calls
  PROVE  Ended(c) <=> line[c] = "over" /\ \A status \in FinalStatuses : ~Sent(c, status)
  BY OfIsSent DEF Ended

LEMMA EndedIsNext ==
  ASSUME posts' \subseteq Posts, NEW c \in Calls
  PROVE  Ended(c)' <=> line'[c] = "over" /\ \A status \in FinalStatuses : ~Sent(c, status)'
  <1>1. (posts \subseteq Posts => Ended(c) <=> line[c] = "over"
             /\ \A status \in FinalStatuses : ~Sent(c, status))'
    BY EndedIs, PTL
  <1>. QED  BY <1>1

\* A step that touches one call.
LeftBy(p, c) == Ended(c) /\ sessions[p][c] # None => p \in late[c] \/ p \notin closed[c]
Left(c) == \A p \in Processes : LeftBy(p, c)

LEMMA OneCall ==
  ASSUME VoiceInv, VoiceTypes', NEW c \in Calls, CallInv(c)', Left(c)',
         \A d \in Calls \ {c} : Same(d)
  PROVE  VoiceInv'
  <1>1. ASSUME NEW d \in Calls PROVE CallInv(d)'
    <2>1. CASE d = c
      BY <2>1
    <2>2. CASE d # c
      BY <2>2, SameKeeps DEF VoiceInv
    <2>. QED  BY <2>1, <2>2
  <1>2. ASSUME NEW d \in Calls PROVE Left(d)'
    <2>1. CASE d = c
      BY <2>1
    <2>2. CASE d # c
      <3>1. Same(d) /\ Left(d)
        BY <2>2 DEF VoiceInv, LeftoverIsLate, Left, LeftBy
      <3>2. Ended(d)' <=> Ended(d)
        BY <3>1, EndedIs, EndedIsNext DEF VoiceInv, VoiceTypes, Same
      <3>. QED  BY <3>1, <3>2 DEF Left, LeftBy, Same
    <2>. QED  BY <2>1, <2>2
  <1>. QED  BY <1>1, <1>2 DEF VoiceInv, LeftoverIsLate, Left, LeftBy

LEMMA VoiceStarts == VoiceInit => VoiceInv
  <1> SUFFICES ASSUME VoiceInit PROVE VoiceInv
    OBVIOUS
  <1>1. VoiceTypes
    BY DEF VoiceInit, VoiceTypes, PerCall, Done
  <1>2. \A c \in Calls : CallInv(c)
    BY DEF VoiceInit, CallInv, UnrungInv, LiveInv, FinalInv, Sent
  <1>3. LeftoverIsLate
    BY DEF VoiceInit, LeftoverIsLate
  <1>. QED  BY <1>1, <1>2, <1>3 DEF VoiceInv

-----------------------------------------------------------------------------
(* Twilio.                                                                 *)

LEMMA RingKeeps ==
  ASSUME VoiceInv, NEW c \in Calls, Ring(c)
  PROVE  VoiceInv'
  <1>1. line[c] = "none" /\ line' = [line EXCEPT ![c] = "live"]
        /\ posts' = posts \cup {Post(c, "incoming")}
        /\ UNCHANGED <<sessions, answered, late, closed>>
    BY DEF Ring
  <1>2. VoiceTypes /\ CallInv(c)
    BY DEF VoiceInv
  <1>3. posts' \subseteq Posts
        /\ \A d, k : Sent(d, k)' <=> Sent(d, k) \/ (d = c /\ k = "incoming")
    BY <1>1, <1>2, PostedOnly DEF VoiceTypes
  <1>4. VoiceTypes' /\ line'[c] = "live" /\ \A d \in Calls \ {c} : line'[d] = line[d]
    BY <1>1, <1>2, <1>3 DEF VoiceTypes
  <1>5. UnrungInv(c)
    BY <1>2 DEF CallInv
  <1>6. CallInv(c)'
    BY <1>1, <1>3, <1>4, <1>5 DEF CallInv, UnrungInv, LiveInv, FinalInv, UpToDate, FinalStatuses
  <1>7. Left(c)'
    BY <1>4 DEF Left, LeftBy, Ended
  <1>8. \A d \in Calls \ {c} : Same(d)
    BY <1>1, <1>3, <1>4 DEF Same
  <1>. QED  BY <1>4, <1>6, <1>7, <1>8, OneCall

LEMMA SpeaksKeeps ==
  ASSUME VoiceInv, NEW c \in Calls, Turn(c) \/ InProgress(c)
  PROVE  VoiceInv'
  <1>1. PICK kind \in {"respond", "in-progress"} :
            /\ line[c] = "live" /\ posts' = posts \cup {Post(c, kind)}
            /\ UNCHANGED <<sessions, line, answered, late, closed>>
            /\ kind = "respond" => Of(c, {"incoming", "respond"}) = {}
    BY DEF Turn, InProgress
  <1>2. VoiceTypes /\ LiveInv(c)
    BY DEF VoiceInv, CallInv
  <1>3. posts' \subseteq Posts
        /\ \A d, k : Sent(d, k)' <=> Sent(d, k) \/ (d = c /\ k = kind)
    BY <1>1, <1>2, PostedOnly DEF VoiceTypes
  <1>4. VoiceTypes'
    BY <1>1, <1>2, <1>3 DEF VoiceTypes
  <1>5. kind = "respond" => ~Sent(c, "incoming")
    BY <1>1, <1>2, OfIsSent DEF VoiceTypes
  <1>6. \A p \in Processes : UpToDate(p, c)' <=> UpToDate(p, c)
    BY <1>1 DEF UpToDate
  <1>7. CallInv(c)'
    BY <1>1, <1>2, <1>3, <1>5, <1>6 DEF CallInv, UnrungInv, LiveInv, FinalInv, FinalStatuses
  <1>8. Left(c)'
    BY <1>1 DEF Left, LeftBy, Ended
  <1>9. \A d \in Calls \ {c} : Same(d)
    BY <1>1, <1>3 DEF Same
  <1>. QED  BY <1>4, <1>7, <1>8, <1>9, OneCall

LEMMA EndCallKeeps ==
  ASSUME VoiceInv, NEW c \in Calls, NEW status \in FinalStatuses, EndCall(c, status)
  PROVE  VoiceInv'
  <1>1. line[c] = "live" /\ line' = [line EXCEPT ![c] = "over"]
        /\ posts' = posts \cup {Post(c, status)}
        /\ UNCHANGED <<sessions, answered, late, closed>>
    BY DEF EndCall
  <1>2. VoiceTypes /\ LiveInv(c)
    BY DEF VoiceInv, CallInv
  <1>3. posts' \subseteq Posts
        /\ \A d, k : Sent(d, k)' <=> Sent(d, k) \/ (d = c /\ k = status)
    BY <1>1, <1>2, PostedOnly DEF VoiceTypes
  <1>4. VoiceTypes' /\ line'[c] = "over" /\ \A d \in Calls \ {c} : line'[d] = line[d]
    BY <1>1, <1>2, <1>3 DEF VoiceTypes
  <1>5. CallInv(c)'
    BY <1>1, <1>2, <1>3, <1>4 DEF CallInv, UnrungInv, LiveInv, FinalInv
  <1>6. ~Ended(c)'
    BY <1>3, EndedIsNext
  <1>7. \A d \in Calls \ {c} : Same(d)
    BY <1>1, <1>3, <1>4 DEF Same
  <1>. QED  BY <1>4, <1>5, <1>6, <1>7, OneCall DEF Left, LeftBy

-----------------------------------------------------------------------------
(* The handlers.                                                           *)

\* A handler sets the entries of its process, and says what it did for the call.
Entry(p, c, turns, count) ==
    /\ sessions' = [sessions EXCEPT ![p][c] = turns]
    /\ answered' = [answered EXCEPT ![p][c] = count]
Sets(p, c, turns, count) ==
    /\ Entry(p, c, turns, count)
    /\ late' \in Done /\ closed' \in Done
    /\ \A d \in Calls \ {c} : late'[d] = late[d] /\ closed'[d] = closed[d]

LEMMA EntryOnly ==
  ASSUME VoiceTypes, NEW p \in Processes, NEW c \in Calls, NEW turns \in {None} \cup Nat,
         NEW count \in Nat, Entry(p, c, turns, count)
  PROVE  /\ sessions' \in PerCall({None} \cup Nat) /\ answered' \in PerCall(Nat)
         /\ sessions'[p][c] = turns /\ answered'[p][c] = count
         /\ \A q \in Processes, d \in Calls : q # p \/ d # c =>
               sessions'[q][d] = sessions[q][d] /\ answered'[q][d] = answered[q][d]
  <1>1. sessions \in PerCall({None} \cup Nat) /\ answered \in PerCall(Nat)
    BY DEF VoiceTypes
  <1>2. /\ sessions' = [sessions EXCEPT ![p][c] = turns]
        /\ answered' = [answered EXCEPT ![p][c] = count]
    BY DEF Entry
  <1> DEFINE Count == {None} \cup Nat
  <1>3. LET g == [sessions EXCEPT ![p][c] = turns] IN
        /\ g \in PerCall(Count) /\ g[p][c] = turns
        /\ \A q \in Processes, d \in Calls : q # p \/ d # c => g[q][d] = sessions[q][d]
    <2>1. turns \in Count /\ sessions \in PerCall(Count)
      BY <1>1
    <2> HIDE DEF Count
    <2> QED BY <2>1, StoredAt
  <1>4. LET g == [answered EXCEPT ![p][c] = count] IN
        /\ g \in PerCall(Nat) /\ g[p][c] = count
        /\ \A q \in Processes, d \in Calls : q # p \/ d # c => g[q][d] = answered[q][d]
    BY <1>1, StoredAt
  <1>. QED  BY <1>2, <1>3, <1>4

\* A handler that answers or refuses a turn, or the call itself.
LEMMA HandlerKeeps ==
  ASSUME VoiceInv, NEW p \in Processes, NEW c \in Calls, NEW kind, Handled(c, kind),
         NEW turns \in {None} \cup Nat, NEW count \in Nat, Sets(p, c, turns, count),
         UNCHANGED line, LiveInv(c)', FinalInv(c)', Left(c)'
  PROVE  VoiceInv'
  <1>1. VoiceTypes /\ UnrungInv(c)
    BY DEF VoiceInv, CallInv
  <1>2. /\ Sent(c, kind) /\ posts' \subseteq posts
        /\ \A d, k : Sent(d, k)' <=> Sent(d, k) /\ ~(d = c /\ k = kind)
    BY HandledOnly
  <1>3. VoiceTypes'
    BY <1>1, <1>2, EntryOnly DEF VoiceTypes, Sets
  <1>4. CallInv(c)'
    BY <1>1, <1>2 DEF CallInv, UnrungInv
  <1>5. \A d \in Calls \ {c} : Same(d)
    BY <1>1, <1>2, EntryOnly DEF Same, Sets
  <1>. QED  BY <1>3, <1>4, <1>5, OneCall

\* A handler that is no final status leaves the end of its call as it is.
LEMMA NotesKeep ==
  ASSUME VoiceInv, NEW c \in Calls, NEW kind, kind \notin FinalStatuses, Handled(c, kind),
         UNCHANGED <<line, closed>>
  PROVE  (Ended(c)' <=> Ended(c)) /\ FinalInv(c)'
  <1>1. posts \subseteq Posts /\ posts' \subseteq Posts
        /\ \A d, k : Sent(d, k)' <=> Sent(d, k) /\ ~(d = c /\ k = kind)
    BY HandledOnly DEF VoiceInv, VoiceTypes
  <1>2. Ended(c)' <=> Ended(c)
    BY <1>1, EndedIs, EndedIsNext
  <1>3. FinalInv(c)
    BY DEF VoiceInv, CallInv
  <1>. QED  BY <1>1, <1>2, <1>3 DEF FinalInv

LEMMA IncomingKeeps ==
  ASSUME VoiceInv, NEW p \in Processes, NEW c \in Calls, NEW made \in BOOLEAN,
         VoiceIncoming(p, c, made)
  PROVE  VoiceInv'
  <1> DEFINE turns == IF made THEN 0 ELSE sessions[p][c]
  <1>1. /\ Handled(c, "incoming") /\ UNCHANGED <<line, closed>>
        /\ answered' = [answered EXCEPT ![p][c] = 0]
        /\ made => sessions' = [sessions EXCEPT ![p][c] = 0]
                   /\ late' = IF Ended(c) THEN [late EXCEPT ![c] = @ \cup {p}] ELSE late
        /\ ~made => UNCHANGED <<sessions, late>>
    BY DEF VoiceIncoming, Store, Counts, Notes
  <1>2. VoiceTypes /\ LiveInv(c) /\ Left(c)
    BY DEF VoiceInv, CallInv, LeftoverIsLate, Left, LeftBy
  <1>3. turns \in {None} \cup Nat /\ sessions' = [sessions EXCEPT ![p][c] = turns]
    BY <1>1, <1>2 DEF VoiceTypes, PerCall
  <1>4. /\ Sent(c, "incoming")
        /\ \A d, k : Sent(d, k)' <=> Sent(d, k) /\ ~(d = c /\ k = "incoming")
    BY <1>1, HandledOnly
  <1>5. Sets(p, c, turns, 0)
    BY <1>1, <1>2, <1>3 DEF VoiceTypes, Done, Sets, Entry
  <1>6. /\ sessions'[p][c] = turns /\ answered'[p][c] = 0
        /\ \A q \in Processes \ {p} :
              sessions'[q][c] = sessions[q][c] /\ answered'[q][c] = answered[q][c]
    BY <1>2, <1>3, <1>5, EntryOnly DEF Sets
  <1>7. LiveInv(c)'
    <2>1. SUFFICES ASSUME line[c] = "live" PROVE LiveInv(c)'
      BY <1>1 DEF LiveInv
    <2>2. answered[p][c] = 0 /\ UpToDate(p, c)
      BY <1>2, <1>4, <2>1 DEF LiveInv
    <2>3. ASSUME NEW q \in Processes PROVE UpToDate(q, c)'
      <3>1. CASE q = p
        BY <1>6, <2>2, <3>1 DEF UpToDate, None
      <3>2. CASE q # p
        BY <1>2, <1>6, <2>1, <3>2 DEF LiveInv, UpToDate
      <3>. QED  BY <3>1, <3>2
    <2>. QED  BY <1>1, <1>2, <1>4, <2>1, <2>3 DEF LiveInv, FinalStatuses
  <1>8. Left(c)' /\ FinalInv(c)'
    <2>1. (Ended(c)' <=> Ended(c)) /\ FinalInv(c)'
      BY <1>1, NotesKeep DEF FinalStatuses
    <2>2. ASSUME NEW q \in Processes PROVE LeftBy(q, c)'
      BY <1>1, <1>2, <1>6, <2>1 DEF VoiceTypes, Done, Left, LeftBy
    <2>. QED  BY <2>1, <2>2 DEF Left
  <1>. QED  BY <1>1, <1>3, <1>5, <1>7, <1>8, HandlerKeeps

LEMMA RespondKeeps ==
  ASSUME VoiceInv, NEW p \in Processes, NEW c \in Calls, VoiceRespond(p, c)
  PROVE  VoiceInv'
  <1> DEFINE turns == IF sessions[p][c] = None THEN 1 ELSE sessions[p][c] + 1
  <1>1. /\ Handled(c, "respond") /\ UNCHANGED <<line, closed>>
        /\ sessions' = [sessions EXCEPT ![p][c] = turns]
        /\ answered' = [answered EXCEPT ![p][c] = answered[p][c] + 1]
        /\ late' = IF Ended(c) THEN [late EXCEPT ![c] = @ \cup {p}] ELSE late
    BY DEF VoiceRespond, Store, Counts, Notes
  <1>2. VoiceTypes /\ LiveInv(c) /\ Left(c)
    BY DEF VoiceInv, CallInv, LeftoverIsLate, Left, LeftBy
  <1>3. turns \in Nat /\ turns # None /\ answered[p][c] + 1 \in Nat
    BY <1>2 DEF VoiceTypes, PerCall, None
  <1>4. /\ Sent(c, "respond")
        /\ \A d, k : Sent(d, k)' <=> Sent(d, k) /\ ~(d = c /\ k = "respond")
    BY <1>1, HandledOnly
  <1>5. Sets(p, c, turns, answered[p][c] + 1)
    BY <1>1, <1>2 DEF VoiceTypes, Done, Sets, Entry
  <1>6. /\ sessions'[p][c] = turns /\ answered'[p][c] = answered[p][c] + 1
        /\ \A q \in Processes \ {p} :
              sessions'[q][c] = sessions[q][c] /\ answered'[q][c] = answered[q][c]
    <2>1. Entry(p, c, turns, answered[p][c] + 1)
      BY <1>5 DEF Sets
    <2> HIDE DEF turns
    <2>. QED  BY <1>2, <1>3, <2>1, EntryOnly
  <1>7. LiveInv(c)'
    <2>1. SUFFICES ASSUME line[c] = "live" PROVE LiveInv(c)'
      BY <1>1 DEF LiveInv
    <2>2. turns = answered[p][c] + 1
      BY <1>2, <2>1 DEF LiveInv, UpToDate
    <2>3. ~Sent(c, "incoming")
      BY <1>2, <1>4, <2>1 DEF LiveInv
    <2>4. ASSUME NEW q \in Processes PROVE UpToDate(q, c)'
      <3>1. CASE q = p
        BY <1>3, <1>6, <2>2, <3>1 DEF UpToDate
      <3>2. CASE q # p
        BY <1>2, <1>6, <2>1, <3>2 DEF LiveInv, UpToDate
      <3>. QED  BY <3>1, <3>2
    <2>. QED  BY <1>1, <1>2, <1>4, <2>1, <2>3, <2>4 DEF LiveInv
  <1>8. Left(c)' /\ FinalInv(c)'
    <2>1. (Ended(c)' <=> Ended(c)) /\ FinalInv(c)'
      BY <1>1, NotesKeep DEF FinalStatuses
    <2>2. ASSUME NEW q \in Processes PROVE LeftBy(q, c)'
      BY <1>1, <1>2, <1>6, <2>1 DEF VoiceTypes, Done, Left, LeftBy
    <2>. QED  BY <2>1, <2>2 DEF Left
  <1>. QED  BY <1>1, <1>3, <1>5, <1>7, <1>8, HandlerKeeps

LEMMA StatusKeeps ==
  ASSUME VoiceInv, NEW p \in Processes, NEW c \in Calls,
         NEW status \in FinalStatuses \cup {"in-progress"}, VoiceStatus(p, c, status)
  PROVE  VoiceInv'
  <1> DEFINE turns == IF status \in FinalStatuses THEN None ELSE sessions[p][c]
  <1>1. /\ Handled(c, status) /\ UNCHANGED <<line, answered, late>>
        /\ status \in FinalStatuses => /\ sessions' = [sessions EXCEPT ![p][c] = None]
                                       /\ closed' = [closed EXCEPT ![c] = @ \cup {p}]
        /\ status \notin FinalStatuses => UNCHANGED <<sessions, closed>>
    BY DEF VoiceStatus, Store, Closes
  <1>2. VoiceTypes /\ CallInv(c) /\ Left(c)
    BY DEF VoiceInv, LeftoverIsLate, Left, LeftBy
  <1>3. /\ turns \in {None} \cup Nat /\ sessions' = [sessions EXCEPT ![p][c] = turns]
        /\ answered[p][c] \in Nat /\ answered' = [answered EXCEPT ![p][c] = answered[p][c]]
    BY <1>1, <1>2 DEF VoiceTypes, PerCall
  <1>4. /\ Sent(c, status)
        /\ \A d, k : Sent(d, k)' <=> Sent(d, k) /\ ~(d = c /\ k = status)
    BY <1>1, HandledOnly
  <1>5. Sets(p, c, turns, answered[p][c])
    <2>1. late' \in Done /\ closed' \in Done
          /\ \A d \in Calls \ {c} : late'[d] = late[d] /\ closed'[d] = closed[d]
      BY <1>1, <1>2 DEF VoiceTypes, Done
    <2>. QED  BY <1>3, <2>1 DEF Sets, Entry
  <1>6. /\ sessions'[p][c] = turns /\ answered' = answered
        /\ \A q \in Processes \ {p} : sessions'[q][c] = sessions[q][c]
    <2>1. Entry(p, c, turns, answered[p][c])
      BY <1>5 DEF Sets
    <2>. QED  BY <1>1, <1>2, <1>3, <2>1, EntryOnly
  <1>7. LiveInv(c)' /\ FinalInv(c)' /\ Left(c)'
    <2>1. CASE status \in FinalStatuses
      <3>1. line'[c] # "live"
        BY <1>1, <1>2, <1>4, <2>1 DEF CallInv, LiveInv
      <3>2. closed[c] = {} /\ \A other \in FinalStatuses : ~Sent(c, other)'
        BY <1>2, <1>4, <2>1 DEF CallInv, FinalInv
      <3>3. closed'[c] = {p}
        BY <1>1, <1>2, <2>1, <3>2 DEF VoiceTypes, Done
      <3>4. ASSUME NEW q \in Processes PROVE LeftBy(q, c)'
        BY <1>6, <2>1, <3>3 DEF LeftBy
      <3>. QED  BY <3>1, <3>2, <3>4 DEF LiveInv, FinalInv, Left
    <2>2. CASE status \notin FinalStatuses
      <3>1. (Ended(c)' <=> Ended(c)) /\ FinalInv(c)'
        BY <1>1, <2>2, NotesKeep
      <3>2. UNCHANGED <<sessions, answered, line, late, closed>>
        BY <1>1, <2>2
      <3>3. \A q \in Processes : UpToDate(q, c)' <=> UpToDate(q, c)
        BY <3>2 DEF UpToDate
      <3>4. LiveInv(c)'
        BY <1>2, <1>4, <3>2, <3>3 DEF CallInv, LiveInv
      <3>. QED  BY <1>2, <3>1, <3>2, <3>4 DEF Left, LeftBy
    <2>. QED  BY <2>1, <2>2
  <1>. QED  BY <1>1, <1>3, <1>5, <1>7, HandlerKeeps

\* The caller is hung up, and a call that lasted owes its final status.
LEMMA RespondFailsKeeps ==
  ASSUME VoiceInv, NEW p \in Processes, NEW c \in Calls, VoiceRespondFails(p, c)
  PROVE  VoiceInv'
  <1>1. /\ Sent(c, "respond") /\ line' = [line EXCEPT ![c] = "over"]
        /\ posts' = (posts \ {Post(c, "respond")})
                    \cup (IF line[c] = "live" THEN {Post(c, "completed")} ELSE {})
        /\ UNCHANGED <<sessions, answered, late, closed>>
    BY DEF VoiceRespondFails, Sent
  <1>2. VoiceTypes /\ CallInv(c) /\ Left(c)
    BY DEF VoiceInv, LeftoverIsLate, Left, LeftBy
  <1>3. Post(c, "completed") \in Posts /\ "completed" \in FinalStatuses /\ "respond" \notin FinalStatuses
    BY DEF Post, Posts, FinalStatuses
  <1>4. VoiceTypes' /\ line'[c] = "over" /\ \A d \in Calls \ {c} : line'[d] = line[d]
    BY <1>1, <1>2, <1>3 DEF VoiceTypes
  <1>5. \A status \in FinalStatuses :
            Sent(c, status)' <=> Sent(c, status) \/ (line[c] = "live" /\ status = "completed")
    BY <1>1, <1>3, PostsDiffer DEF Sent
  <1>6. CallInv(c)'
    BY <1>1, <1>2, <1>3, <1>4, <1>5 DEF CallInv, UnrungInv, LiveInv, FinalInv
  <1>7. Ended(c)' => Ended(c)
    <2>1. SUFFICES ASSUME Ended(c)' PROVE Ended(c)
      OBVIOUS
    <2>2. \A status \in FinalStatuses : ~Sent(c, status)'
      BY <1>4, <2>1, EndedIsNext DEF VoiceTypes
    <2>3. line[c] = "over"
      BY <1>1, <1>2, <1>3, <1>5, <2>2 DEF VoiceTypes, CallInv, UnrungInv
    <2>. QED  BY <1>2, <1>5, <2>2, <2>3, EndedIs DEF VoiceTypes
  <1>8. Left(c)'
    BY <1>1, <1>2, <1>7 DEF Left, LeftBy
  <1>9. ASSUME NEW d \in Calls \ {c} PROVE Same(d)
    <2>1. \A kind : Post(d, kind) # Post(c, "respond") /\ Post(d, kind) # Post(c, "completed")
      BY PostsDiffer
    <2>. QED  BY <1>1, <1>4, <2>1 DEF Same, Sent
  <1>. QED  BY <1>4, <1>6, <1>8, <1>9, OneCall

\* A restart forgets what one process had, and nothing else.
LEMMA RestartIs ==
  ASSUME VoiceTypes, NEW p \in Processes, Restart(p)
  PROVE  /\ VoiceTypes' /\ UNCHANGED <<line, posts, closed>>
         /\ \A c \in Calls : sessions'[p][c] = None /\ answered'[p][c] = 0
         /\ \A q \in Processes \ {p} : sessions'[q] = sessions[q] /\ answered'[q] = answered[q]
         /\ \A c \in Calls : late'[c] = late[c] \ {p}
  BY DEF Restart, VoiceTypes, PerCall, Done

LEMMA RestartKeeps ==
  ASSUME VoiceInv, NEW p \in Processes, Restart(p)
  PROVE  VoiceInv'
  <1>1. /\ VoiceTypes' /\ UNCHANGED <<line, posts, closed>>
        /\ \A c \in Calls : sessions'[p][c] = None /\ answered'[p][c] = 0
        /\ \A q \in Processes \ {p} : sessions'[q] = sessions[q] /\ answered'[q] = answered[q]
        /\ \A c \in Calls : late'[c] = late[c] \ {p}
    BY RestartIs DEF VoiceInv
  <1>2. ASSUME NEW c \in Calls PROVE CallInv(c)'
    <2>1. CallInv(c) /\ \A kind : Sent(c, kind)' <=> Sent(c, kind)
      BY <1>1 DEF VoiceInv, Sent
    <2>2. ASSUME NEW q \in Processes
          PROVE  /\ (UpToDate(q, c) => UpToDate(q, c)')
                 /\ (sessions[q][c] = None => sessions'[q][c] = None)
                 /\ (answered[q][c] = 0 => answered'[q][c] = 0)
      BY <1>1 DEF UpToDate
    <2>. QED  BY <1>1, <2>1, <2>2 DEF CallInv, UnrungInv, LiveInv, FinalInv
  <1>3. ASSUME NEW c \in Calls, NEW q \in Processes PROVE LeftBy(q, c)'
    <2>1. LeftBy(q, c) /\ (Ended(c)' <=> Ended(c))
      BY <1>1 DEF VoiceInv, LeftoverIsLate, LeftBy, Ended, Of
    <2>. QED  BY <1>1, <2>1 DEF LeftBy
  <1>. QED  BY <1>1, <1>2, <1>3 DEF VoiceInv, LeftoverIsLate, LeftBy

LEMMA StutterKeeps == ASSUME VoiceInv, UNCHANGED voiceVars PROVE VoiceInv'
  <1>1. UNCHANGED <<sessions, line, posts, answered, late, closed>>
    BY DEF voiceVars
  <1>. QED  BY <1>1 DEF VoiceInv, VoiceTypes, CallInv, UnrungInv, LiveInv, FinalInv, UpToDate,
                        Sent, LeftoverIsLate, Ended, Of

LEMMA VoiceIsInvariant == VoiceSpec => []VoiceInv
  <1>1. VoiceInv /\ [VoiceNext]_voiceVars => VoiceInv'
    <2> SUFFICES ASSUME VoiceInv, [VoiceNext]_voiceVars PROVE VoiceInv'
      OBVIOUS
    <2>1. CASE VoiceNext
      BY <2>1, RingKeeps, SpeaksKeeps, EndCallKeeps, IncomingKeeps, RespondKeeps,
         RespondFailsKeeps, StatusKeeps, RestartKeeps DEF VoiceNext
    <2>2. CASE UNCHANGED voiceVars
      BY <2>2, StutterKeeps
    <2>. QED  BY <2>1, <2>2
  <1>. QED  BY VoiceStarts, <1>1, PTL DEF VoiceSpec

-----------------------------------------------------------------------------
(* The theorems.                                                           *)

\* While a call lasts the agent of each process has taken every turn that the
\* process answered since the call came in to it, or since it restarted,
\* whatever order the callbacks are posted in and whichever process has them.
THEOREM ContextIsKept == VoiceSpec => []HistoryKept
  <1>1. ASSUME VoiceInv, NEW p \in Processes, NEW c \in Calls,
               line[c] = "live", answered[p][c] > 0
        PROVE  sessions[p][c] = answered[p][c]
    <2>1. UpToDate(p, c)
      BY <1>1 DEF VoiceInv, CallInv, LiveInv
    <2>. QED  BY <1>1, <2>1 DEF UpToDate
  <1>2. VoiceInv => HistoryKept
    BY <1>1 DEF HistoryKept
  <1>. QED  BY VoiceIsInvariant, <1>2, PTL

\* Only a process that handled a callback after the final status of its call,
\* or that was not the one to handle that status, keeps an agent for good.
THEOREM LeftoversAreLate == VoiceSpec => []LeftoverIsLate
  <1>1. VoiceInv => LeftoverIsLate
    BY DEF VoiceInv
  <1>. QED  BY VoiceIsInvariant, <1>1, PTL

\* A turn that is under way has room in the bound at every process, before and
\* after the end of its call, and no agent has taken more turns than its process
\* answered.
TurnsInv(p, c) ==
    /\ answered[p][c] <= MaxTurns
    /\ Sent(c, "respond") => answered[p][c] < MaxTurns
    /\ Sent(c, "incoming") => sessions[p][c] = None /\ ~Sent(c, "respond")
    /\ sessions[p][c] # None => sessions[p][c] <= answered[p][c]
BoundInv == \A p \in Processes, c \in Calls : TurnsInv(p, c)

\* What Twilio does leaves the agents and the counts alone.
LEMMA LineKeepsTurns ==
  ASSUME VoiceInv, BoundInv, NEW c \in Calls,
         \/ Ring(c) \/ Turn(c) \/ InProgress(c)
         \/ \E status \in FinalStatuses : EndCall(c, status)
  PROVE  BoundInv'
  <1>1. VoiceTypes /\ CallInv(c) /\ UNCHANGED <<sessions, answered>>
    BY DEF VoiceInv, Ring, Turn, InProgress, EndCall
  <1>2. PICK kind \in {"incoming", "respond", "in-progress"} \cup FinalStatuses :
            /\ posts' = posts \cup {Post(c, kind)}
            /\ kind = "incoming" => line[c] = "none"
            /\ kind = "respond" => /\ Of(c, {"incoming", "respond"}) = {}
                                   /\ \A p \in Processes : answered[p][c] < MaxTurns
    BY DEF Ring, Turn, InProgress, EndCall, FinalStatuses
  <1>3. \A d, k : Sent(d, k)' <=> Sent(d, k) \/ (d = c /\ k = kind)
    BY <1>1, <1>2, PostedOnly DEF VoiceTypes
  <1>4. kind = "respond" => ~Sent(c, "incoming")
    BY <1>1, <1>2, OfIsSent DEF VoiceTypes
  <1>5. kind = "incoming" => ~Sent(c, "respond") /\ \A p \in Processes : sessions[p][c] = None
    BY <1>1, <1>2 DEF CallInv, UnrungInv
  <1>6. ASSUME NEW p \in Processes, NEW d \in Calls PROVE TurnsInv(p, d)'
    BY <1>1, <1>2, <1>3, <1>4, <1>5 DEF BoundInv, TurnsInv
  <1> QED BY <1>6 DEF BoundInv

\* A turn that is handled counts for its process.
LEMMA HandlersKeepTurns ==
  ASSUME VoiceInv, BoundInv, NEW p \in Processes, NEW c \in Calls,
         \/ \E made \in BOOLEAN : VoiceIncoming(p, c, made)
         \/ VoiceRespond(p, c) \/ VoiceRespondFails(p, c)
         \/ \E status \in FinalStatuses \cup {"in-progress"} : VoiceStatus(p, c, status)
  PROVE  BoundInv'
  <1> USE TurnsAssumption DEF TurnsAssumption
  <1>1. /\ VoiceTypes /\ TurnsInv(p, c)
        /\ sessions[p][c] \in {None} \cup Nat /\ answered[p][c] \in Nat
    BY DEF VoiceInv, VoiceTypes, PerCall, BoundInv
  <1>2. PICK kind \in {"incoming", "respond", "in-progress"} \cup FinalStatuses :
            \/ kind = "incoming" /\ \E made \in BOOLEAN : VoiceIncoming(p, c, made)
            \/ kind = "respond" /\ (VoiceRespond(p, c) \/ VoiceRespondFails(p, c))
            \/ kind \notin {"incoming", "respond"} /\ VoiceStatus(p, c, kind)
    BY DEF FinalStatuses
  <1>3. /\ Sent(c, kind)
        /\ \A d \in Calls, k \in {"incoming", "respond"} :
              Sent(d, k)' <=> Sent(d, k) /\ ~(d = c /\ k = kind)
    <2>1. CASE Handled(c, kind)
      BY <2>1, HandledOnly
    <2>2. CASE VoiceRespondFails(p, c) /\ kind = "respond"
      <3>1. \A d, k \in {"incoming", "respond"} : Post(d, k) # Post(c, "completed")
        BY PostsDiffer
      <3> QED BY <2>2, <3>1, PostsDiffer DEF VoiceRespondFails, Sent
    <2> QED BY <1>2, <2>1, <2>2 DEF VoiceIncoming, VoiceRespond, VoiceStatus
  <1>4. PICK turns \in {None} \cup Nat, count \in Nat :
            /\ sessions' = [sessions EXCEPT ![p][c] = turns]
            /\ answered' = [answered EXCEPT ![p][c] = count]
            /\ kind = "incoming" => turns \in {0, sessions[p][c]} /\ count = 0
            /\ kind = "respond" =>
                  \/ turns = sessions[p][c] /\ count = answered[p][c]
                  \/ /\ turns = IF sessions[p][c] = None THEN 1 ELSE sessions[p][c] + 1
                     /\ count = answered[p][c] + 1
            /\ kind \notin {"incoming", "respond"} =>
                  turns \in {None, sessions[p][c]} /\ count = answered[p][c]
    <2>1. /\ sessions = [sessions EXCEPT ![p][c] = sessions[p][c]]
          /\ answered = [answered EXCEPT ![p][c] = answered[p][c]]
      BY <1>1 DEF VoiceTypes, PerCall
    <2>2. CASE kind = "incoming"
      <3>1. PICK made \in BOOLEAN : VoiceIncoming(p, c, made)
        BY <1>2, <2>2
      <3> QED BY <1>1, <2>1, <2>2, <3>1 DEF VoiceIncoming, Store, Counts
    <2>3. CASE kind = "respond" /\ VoiceRespondFails(p, c)
      BY <1>1, <2>1, <2>3 DEF VoiceRespondFails
    <2>4. CASE kind = "respond" /\ VoiceRespond(p, c)
      <3>1. (IF sessions[p][c] = None THEN 1 ELSE sessions[p][c] + 1) \in Nat
            /\ answered[p][c] + 1 \in Nat
        BY <1>1 DEF None
      <3> QED BY <2>4, <3>1 DEF VoiceRespond, Store, Counts
    <2>5. CASE kind \notin {"incoming", "respond"} /\ VoiceStatus(p, c, kind)
      BY <1>1, <2>1, <2>5 DEF VoiceStatus, Store
    <2> QED BY <1>2, <2>2, <2>3, <2>4, <2>5
  <1>5. /\ sessions'[p][c] = turns /\ answered'[p][c] = count
        /\ \A q \in Processes, d \in Calls : q # p \/ d # c =>
              sessions'[q][d] = sessions[q][d] /\ answered'[q][d] = answered[q][d]
    <2>1. Entry(p, c, turns, count)
      BY <1>4 DEF Entry
    <2> QED BY <1>1, <2>1, EntryOnly
  <1>6. TurnsInv(p, c)'
    BY <1>1, <1>3, <1>4, <1>5 DEF TurnsInv, None
  <1>7. ASSUME NEW q \in Processes, NEW d \in Calls, q # p \/ d # c PROVE TurnsInv(q, d)'
    BY <1>3, <1>5, <1>7 DEF BoundInv, TurnsInv
  <1> QED BY <1>6, <1>7 DEF BoundInv

\* The types of the tables, with the bound on the turns.
LEMMA VoiceIsTyped == VoiceSpec => []VoiceTypeOK
  <1> USE TurnsAssumption DEF TurnsAssumption
  <1>1. VoiceInit => BoundInv
    <2> SUFFICES ASSUME VoiceInit, NEW p \in Processes, NEW c \in Calls PROVE TurnsInv(p, c)
      BY DEF BoundInv
    <2>1. sessions[p][c] = None /\ answered[p][c] = 0 /\ posts = {}
      BY DEF VoiceInit
    <2> QED BY <2>1 DEF TurnsInv, Sent
  <1>2. VoiceInv /\ BoundInv /\ [VoiceNext]_voiceVars => BoundInv'
    <2> SUFFICES ASSUME VoiceInv, BoundInv, [VoiceNext]_voiceVars PROVE BoundInv'
      OBVIOUS
    <2>1. ASSUME NEW p \in Processes, Restart(p) PROVE BoundInv'
      <3>1. /\ UNCHANGED posts
            /\ \A c \in Calls : sessions'[p][c] = None /\ answered'[p][c] = 0
            /\ \A q \in Processes \ {p} : sessions'[q] = sessions[q] /\ answered'[q] = answered[q]
        BY <2>1, RestartIs DEF VoiceInv
      <3>2. \A c \in Calls : answered[p][c] \in Nat
        BY DEF VoiceInv, VoiceTypes, PerCall
      <3>3. ASSUME NEW q \in Processes, NEW c \in Calls PROVE TurnsInv(q, c)'
        <4>1. TurnsInv(q, c)
          BY DEF BoundInv
        <4> QED BY <3>1, <3>2, <4>1 DEF TurnsInv, Sent
      <3> QED BY <3>3 DEF BoundInv
    <2>2. CASE UNCHANGED voiceVars
      BY <2>2 DEF voiceVars, BoundInv, TurnsInv, Sent
    <2> QED BY <2>1, <2>2, LineKeepsTurns, HandlersKeepTurns DEF VoiceNext
  <1>3. VoiceInv /\ BoundInv => VoiceTypeOK
    <2> SUFFICES ASSUME VoiceInv, BoundInv PROVE VoiceTypeOK
      OBVIOUS
    <2>1. \A p \in Processes, c \in Calls :
              sessions[p][c] \in {None} \cup 0..MaxTurns /\ answered[p][c] \in 0..MaxTurns
      <3> SUFFICES ASSUME NEW p \in Processes, NEW c \in Calls
                   PROVE  /\ sessions[p][c] \in {None} \cup 0..MaxTurns
                          /\ answered[p][c] \in 0..MaxTurns
        OBVIOUS
      <3>1. sessions[p][c] \in {None} \cup Nat /\ answered[p][c] \in Nat
        BY DEF VoiceInv, VoiceTypes, PerCall
      <3>2. TurnsInv(p, c)
        BY DEF BoundInv
      <3> QED BY <3>1, <3>2 DEF TurnsInv
    <2> QED BY <2>1 DEF VoiceInv, VoiceTypes, PerCall, Done, VoiceTypeOK
  <1> QED BY VoiceIsInvariant, <1>1, <1>2, <1>3, PTL DEF VoiceSpec

-----------------------------------------------------------------------------
(* The barge-in handler.                                                   *)

Places == {"idle", "cancel", "check", "interrupt", "silence", "interrupting",
           "processing", "announce", "activate", "clear", "spawn"}
Caller == [at : Places, then : {"idle", "announce"}]
Threads ==
    /\ pc \in [Callers -> Caller]
    /\ workers \in [Workers -> {"free", "speaking", "ended", "resting"}]

\* The places of a signal between the event it sets and the state it leaves.
Signalling == {"silence", "interrupting", "processing"}

\* Somebody is at the TTS while it is active: the start under way or a speech.
TtsInv ==
    ttsActive => \/ pc["agent"].at \in {"clear", "spawn"}
                 \/ \E w \in Workers : workers[w] = "speaking"

\* Somebody is going to leave each state but idle and processing.
StateInv ==
    state \notin {"idle", "processing"} =>
        \/ pc["agent"].at \in {"activate", "clear"}
        \/ \E t \in Callers : pc[t].at \in Signalling
        \/ ~interrupted /\ pc["agent"].at = "spawn"
        \/ ~interrupted /\ \E w \in Workers : workers[w] # "free"

\* A start is under way from its first step to its last.
Starting == pc["agent"].at \in {"announce", "activate", "clear", "spawn"}
            \/ pc["agent"].then = "announce"

\* A start that met nobody: it is alone until its speech is there, there is one
\* speech after it, and state and TTS are its own until it is interrupted.
CalmInv ==
    /\ pc["agent"].at = "idle" => pc["agent"].then = "idle"
    /\ Starting => Alive = {} /\ ~Busy("audio")
    /\ \A v, w \in Alive : v = w
    /\ \A t \in Callers : pc[t].at \in Signalling => interrupted
    /\ pc["agent"].at \in {"activate", "clear", "spawn"} => state = "agent_speaking"
    /\ pc["agent"].at \in {"clear", "spawn"} => ttsActive
    /\ pc["agent"].at = "spawn" => ~interrupted
    /\ (\E w \in Workers : workers[w] = "speaking") /\ ~interrupted
          => ttsActive /\ state = "agent_speaking"

QuietInv == Threads /\ TtsInv /\ StateInv
BargeInv == QuietInv /\ (~crowded => CalmInv)

LEMMA BargeStarts == BargeInit => BargeInv
  BY DEF BargeInit, BargeInv, QuietInv, Threads, Caller, Places, TtsInv, StateInv, CalmInv,
         Starting, Busy, Alive, Signalling, At, Callers

-----------------------------------------------------------------------------
(* The callers.                                                            *)

LEMMA StartKeeps ==
  ASSUME BargeInv, StartSpeech
  PROVE  BargeInv'
  <1>1. Threads'
    BY DEF StartSpeech, BargeInv, QuietInv, Threads, Caller, Places, Callers, At
  <1>2. TtsInv'
    BY DEF StartSpeech, Busy, BargeInv, QuietInv, Threads, Caller, TtsInv, Callers, At
  <1>3. StateInv'
    BY DEF StartSpeech, Busy, BargeInv, QuietInv, Threads, Caller, StateInv, Signalling, Callers, At
  <1>4. ASSUME ~crowded' PROVE CalmInv'
    BY <1>4 DEF StartSpeech, BargeInv, QuietInv, Threads, Caller, Places, CalmInv, Starting,
                Busy, Alive, Signalling, Callers, At
  <1>. QED  BY <1>1, <1>2, <1>3, <1>4 DEF BargeInv, QuietInv

LEMMA AnnounceKeeps ==
  ASSUME BargeInv, Announce
  PROVE  BargeInv'
  <1>1. Threads'
    BY DEF Announce, Moves, BargeInv, QuietInv, Threads, Caller, Places, Callers
  <1>2. TtsInv'
    BY DEF Announce, Moves, BargeInv, QuietInv, Threads, Caller, TtsInv, Callers
  <1>3. StateInv'
    BY DEF Announce, Moves, BargeInv, QuietInv, Threads, Caller, StateInv, Signalling, Callers
  <1>4. ASSUME ~crowded' PROVE CalmInv'
    BY <1>4 DEF Announce, Moves, BargeInv, QuietInv, Threads, Caller, Places, CalmInv, Starting,
                Busy, Alive, Signalling, Callers
  <1>. QED  BY <1>1, <1>2, <1>3, <1>4 DEF BargeInv, QuietInv

LEMMA ActivateKeeps ==
  ASSUME BargeInv, Activate
  PROVE  BargeInv'
  <1>1. Threads'
    BY DEF Activate, Moves, BargeInv, QuietInv, Threads, Caller, Places, Callers
  <1>2. TtsInv'
    BY DEF Activate, Moves, BargeInv, QuietInv, Threads, Caller, TtsInv, Callers
  <1>3. StateInv'
    BY DEF Activate, Moves, BargeInv, QuietInv, Threads, Caller, StateInv, Signalling, Callers
  <1>4. ASSUME ~crowded' PROVE CalmInv'
    BY <1>4 DEF Activate, Moves, BargeInv, QuietInv, Threads, Caller, Places, CalmInv, Starting,
                Busy, Alive, Signalling, Callers
  <1>. QED  BY <1>1, <1>2, <1>3, <1>4 DEF BargeInv, QuietInv

LEMMA ClearKeeps ==
  ASSUME BargeInv, Clear
  PROVE  BargeInv'
  <1>1. Threads'
    BY DEF Clear, Moves, BargeInv, QuietInv, Threads, Caller, Places, Callers
  <1>2. TtsInv'
    BY DEF Clear, Moves, BargeInv, QuietInv, Threads, Caller, TtsInv, Callers
  <1>3. StateInv'
    BY DEF Clear, Moves, BargeInv, QuietInv, Threads, Caller, StateInv, Signalling, Callers
  <1>4. ASSUME ~crowded' PROVE CalmInv'
    BY <1>4 DEF Clear, Moves, BargeInv, QuietInv, Threads, Caller, Places, CalmInv, Starting,
                Busy, Alive, Signalling, Callers
  <1>. QED  BY <1>1, <1>2, <1>3, <1>4 DEF BargeInv, QuietInv

LEMMA SpawnKeeps ==
  ASSUME BargeInv, NEW w \in Workers, Spawn(w)
  PROVE  BargeInv'
  <1>1. pc["agent"].at = "spawn" /\ pc' = [pc EXCEPT !["agent"] = At("idle")]
        /\ workers[w] = "free" /\ workers' = [workers EXCEPT ![w] = "speaking"]
        /\ UNCHANGED <<state, ttsActive, interrupted, crowded>>
    BY DEF Spawn
  <1>2. pc'["agent"] = [at |-> "idle", then |-> "idle"] /\ pc'["audio"] = pc["audio"]
        /\ workers'[w] = "speaking"
        /\ \A v \in Workers \ {w} : workers'[v] = workers[v]
    BY <1>1 DEF BargeInv, QuietInv, Threads, At, Callers
  <1>3. Threads'
    BY <1>1 DEF BargeInv, QuietInv, Threads, Caller, Places, At
  <1>4. TtsInv'
    BY <1>2 DEF TtsInv
  <1>5. StateInv'
    BY <1>1, <1>2 DEF BargeInv, QuietInv, StateInv, Callers, Signalling
  <1>6. ASSUME ~crowded
        PROVE  CalmInv'
    <2>1. CalmInv /\ Starting /\ Alive = {}
      BY <1>1, <1>6 DEF BargeInv, CalmInv, Starting
    <2>2. \A v \in Workers : workers[v] = "free"
      BY <2>1 DEF Alive
    <2>3. Alive' = {w} /\ ~Starting'
      BY <1>2, <2>2 DEF Alive, Starting
    <2>. QED  BY <1>1, <1>2, <2>1, <2>3 DEF CalmInv, Callers, Signalling
  <1>. QED  BY <1>1, <1>3, <1>4, <1>5, <1>6 DEF BargeInv, QuietInv

LEMMA SignalKeeps ==
  ASSUME BargeInv, SignalSpeech
  PROVE  BargeInv'
  <1>1. Threads'
    BY DEF SignalSpeech, BargeInv, QuietInv, Threads, Caller, Places, Callers, At
  <1>2. TtsInv'
    BY DEF SignalSpeech, Busy, BargeInv, QuietInv, Threads, Caller, TtsInv, Callers, At
  <1>3. StateInv'
    BY DEF SignalSpeech, Busy, BargeInv, QuietInv, Threads, Caller, StateInv, Signalling,
           Callers, At
  <1>4. ASSUME ~crowded' PROVE CalmInv'
    BY <1>4 DEF SignalSpeech, BargeInv, QuietInv, Threads, Caller, Places, CalmInv, Starting,
                Busy, Alive, Signalling, Callers, At
  <1>. QED  BY <1>1, <1>2, <1>3, <1>4 DEF BargeInv, QuietInv

LEMMA CancelKeeps ==
  ASSUME BargeInv, CancelSpeech
  PROVE  BargeInv'
  <1>1. Threads'
    BY DEF CancelSpeech, BargeInv, QuietInv, Threads, Caller, Places, Callers, At
  <1>2. TtsInv'
    BY DEF CancelSpeech, Busy, BargeInv, QuietInv, Threads, Caller, TtsInv, Callers, At
  <1>3. StateInv'
    BY DEF CancelSpeech, Busy, BargeInv, QuietInv, Threads, Caller, StateInv, Signalling,
           Callers, At
  <1>4. ASSUME ~crowded' PROVE CalmInv'
    BY <1>4 DEF CancelSpeech, BargeInv, QuietInv, Threads, Caller, Places, CalmInv, Starting,
                Busy, Alive, Signalling, Callers, At
  <1>. QED  BY <1>1, <1>2, <1>3, <1>4 DEF BargeInv, QuietInv

LEMMA AsksKeeps ==
  ASSUME BargeInv, NEW t \in Callers, Asks(t)
  PROVE  BargeInv'
  <1>1. Threads'
    BY DEF Asks, Told, BargeInv, QuietInv, Threads, Caller, Places, Callers, At
  <1>2. TtsInv'
    BY DEF Asks, Told, BargeInv, QuietInv, Threads, Caller, TtsInv, Callers, At
  <1>3. StateInv'
    BY DEF Asks, Told, BargeInv, QuietInv, Threads, Caller, StateInv, Signalling, Callers, At
  <1>4. ASSUME ~crowded' PROVE CalmInv'
    BY <1>4 DEF Asks, Told, BargeInv, QuietInv, Threads, Caller, Places, CalmInv, Starting,
                Busy, Alive, Signalling, Callers, At
  <1>. QED  BY <1>1, <1>2, <1>3, <1>4 DEF BargeInv, QuietInv

LEMMA InterruptKeeps ==
  ASSUME BargeInv, NEW t \in Callers, Interrupt(t)
  PROVE  BargeInv'
  <1>1. Threads'
    BY DEF Interrupt, Moves, BargeInv, QuietInv, Threads, Caller, Places, Callers
  <1>2. TtsInv'
    BY DEF Interrupt, Moves, BargeInv, QuietInv, Threads, Caller, TtsInv, Callers
  <1>3. StateInv'
    BY DEF Interrupt, Moves, BargeInv, QuietInv, Threads, Caller, StateInv, Signalling, Callers
  <1>4. ASSUME ~crowded' PROVE CalmInv'
    BY <1>4 DEF Interrupt, Moves, BargeInv, QuietInv, Threads, Caller, Places, CalmInv, Starting,
                Busy, Alive, Signalling, Callers
  <1>. QED  BY <1>1, <1>2, <1>3, <1>4 DEF BargeInv, QuietInv

LEMMA SilenceKeeps ==
  ASSUME BargeInv, NEW t \in Callers, Silence(t)
  PROVE  BargeInv'
  <1>1. Threads'
    BY DEF Silence, Moves, BargeInv, QuietInv, Threads, Caller, Places, Callers
  <1>2. TtsInv'
    BY DEF Silence, Moves, BargeInv, QuietInv, Threads, Caller, TtsInv, Callers
  <1>3. StateInv'
    BY DEF Silence, Moves, BargeInv, QuietInv, Threads, Caller, StateInv, Signalling, Callers
  <1>4. ASSUME ~crowded' PROVE CalmInv'
    BY <1>4 DEF Silence, Moves, BargeInv, QuietInv, Threads, Caller, Places, CalmInv, Starting,
                Busy, Alive, Signalling, Callers
  <1>. QED  BY <1>1, <1>2, <1>3, <1>4 DEF BargeInv, QuietInv

LEMMA InterruptingKeeps ==
  ASSUME BargeInv, NEW t \in Callers, Interrupting(t)
  PROVE  BargeInv'
  <1>1. Threads'
    BY DEF Interrupting, Moves, BargeInv, QuietInv, Threads, Caller, Places, Callers
  <1>2. TtsInv'
    BY DEF Interrupting, Moves, BargeInv, QuietInv, Threads, Caller, TtsInv, Callers
  <1>3. StateInv'
    BY DEF Interrupting, Moves, BargeInv, QuietInv, Threads, Caller, StateInv, Signalling, Callers
  <1>4. ASSUME ~crowded' PROVE CalmInv'
    BY <1>4 DEF Interrupting, Moves, BargeInv, QuietInv, Threads, Caller, Places, CalmInv, Starting,
                Busy, Alive, Signalling, Callers
  <1>. QED  BY <1>1, <1>2, <1>3, <1>4 DEF BargeInv, QuietInv

LEMMA ProcessingKeeps ==
  ASSUME BargeInv, NEW t \in Callers, Processing(t)
  PROVE  BargeInv'
  <1>1. Threads'
    BY DEF Processing, BargeInv, QuietInv, Threads, Caller, Places, Callers, At
  <1>2. TtsInv'
    BY DEF Processing, BargeInv, QuietInv, Threads, Caller, TtsInv, Callers, At
  <1>3. StateInv'
    BY DEF Processing, BargeInv, QuietInv, Threads, Caller, StateInv, Signalling, Callers, At
  <1>4. ASSUME ~crowded' PROVE CalmInv'
    BY <1>4 DEF Processing, BargeInv, QuietInv, Threads, Caller, Places, CalmInv, Starting,
                Busy, Alive, Signalling, Callers, At
  <1>. QED  BY <1>1, <1>2, <1>3, <1>4 DEF BargeInv, QuietInv

-----------------------------------------------------------------------------
(* The workers.                                                            *)

LEMMA WorkerKeeps ==
  ASSUME BargeInv, NEW w \in Workers, SpeechEnds(w) \/ AskInterrupted(w) \/ Rest(w)
  PROVE  BargeInv'
  <1>1. CASE SpeechEnds(w)
    BY <1>1 DEF SpeechEnds, BargeInv, QuietInv, Threads, TtsInv, StateInv, CalmInv, Starting,
                Busy, Alive, Signalling, Callers
  <1>2. CASE AskInterrupted(w)
    BY <1>2 DEF AskInterrupted, BargeInv, QuietInv, Threads, TtsInv, StateInv, CalmInv, Starting,
                Busy, Alive, Signalling, Callers
  <1>3. CASE Rest(w)
    BY <1>3 DEF Rest, BargeInv, QuietInv, Threads, TtsInv, StateInv, CalmInv, Starting,
                Busy, Alive, Signalling, Callers
  <1> QED BY <1>1, <1>2, <1>3

LEMMA BargeIsInvariant == BargeSpec => []BargeInv
  <1>1. BargeInv /\ [BargeNext]_bargeVars => BargeInv'
    <2> SUFFICES ASSUME BargeInv, [BargeNext]_bargeVars PROVE BargeInv'
      OBVIOUS
    <2>1. CASE BargeNext
      BY <2>1, StartKeeps, AnnounceKeeps, ActivateKeeps, ClearKeeps, SpawnKeeps, SignalKeeps,
         CancelKeeps, AsksKeeps, InterruptKeeps, SilenceKeeps, InterruptingKeeps,
         ProcessingKeeps, WorkerKeeps DEF BargeNext
    <2>2. CASE UNCHANGED bargeVars
      BY <2>2 DEF bargeVars, BargeInv, QuietInv, Threads, TtsInv, StateInv, CalmInv, Starting,
                  Busy, Alive
    <2> QED BY <2>1, <2>2
  <1> QED BY BargeStarts, <1>1, PTL DEF BargeSpec

\* When nobody talks and no call is under way the handler says so.
THEOREM QuietMeansIdle == BargeSpec => []QuietIsIdle
  <1>1. BargeInv => QuietIsIdle
    BY DEF BargeInv, QuietInv, TtsInv, StateInv, QuietIsIdle, Settled, Busy, Alive, Signalling,
           Callers
  <1> QED BY BargeIsInvariant, <1>1, PTL

\* A speech whose start met nobody can be interrupted until it is.
THEOREM SpeechIsInterruptible == BargeSpec => []SpeechCanBeInterrupted
  <1>1. BargeInv => SpeechCanBeInterrupted
    BY DEF BargeInv, CalmInv, SpeechCanBeInterrupted
  <1> QED BY BargeIsInvariant, <1>1, PTL

\* The types of the handler; its threads' are in the invariant.
LEMMA BargeIsTyped == BargeSpec => []BargeTypeOK
  <1> DEFINE Flags == /\ state \in {"idle", "agent_speaking", "user_interrupting", "processing"}
                      /\ ttsActive \in BOOLEAN /\ interrupted \in BOOLEAN
                      /\ crowded \in BOOLEAN
  <1>1. BargeInit => Flags
    BY Zenon DEF BargeInit
  <1>2. Flags /\ [BargeNext]_bargeVars => Flags'
    BY Zenon DEF BargeNext, bargeVars, StartSpeech, Announce, Activate, Clear, Spawn, SignalSpeech,
                 CancelSpeech, Asks, Interrupt, Silence, Interrupting, Processing, SpeechEnds,
                 AskInterrupted, Rest
  <1>3. Flags /\ BargeInv => BargeTypeOK
    BY DEF BargeInv, QuietInv, Threads, Caller, Places, BargeTypeOK
  <1> HIDE DEF Flags
  <1> QED BY BargeIsInvariant, <1>1, <1>2, <1>3, PTL DEF BargeSpec
=============================================================================
