---------------------------- MODULE Leaderboards ----------------------------
(***************************************************************************)
(* Asynchronous Steam events, for the leaderboards: the functions a game   *)
(* calls (leaderboards.cpp), the client's one current leaderboard and the  *)
(* cookies that wait for Steam's answers (gc_leaderboards.cpp), the queue  *)
(* of events posted, and the main loop that reports them to the game       *)
(* (fireEventsFromQueue, PFmain.cpp).                                      *)
(*                                                                         *)
(* Steam answers while the game calls steam_update; an answer is then      *)
(* handled in the game's own thread.  Steam is external: it may answer in  *)
(* any order, with success or failure, or refuse a request.  A leaderboard *)
(* is its name.  Ranges, sort orders, scores and the counter of uploads,   *)
(* which only words a message, are left out.                               *)
(***************************************************************************)
EXTENDS Integers, Sequences, FiniteSets, SequencesExt

CONSTANTS Names,        \* the names of leaderboards the game uses
          MaxRequests,  \* bound: MaxRequests[k] ids of kind k are handed out
          Careful       \* no steam_update in a Steam event

Kinds   == {"find", "upload", "download"}
Invalid == "INVALID_LEADERBOARD"

ASSUME LeaderboardsAssumption == /\ Invalid \notin Names
                                 /\ MaxRequests \in [Kinds -> Nat]
                                 /\ Careful \in BOOLEAN

Request == UNION {[kind : {k}, id : 0 .. MaxRequests[k] - 1] : k \in Kinds}

VARIABLES pc,          \* "events": ENIGMA_events; "fire": fireEventsFromQueue;
                       \* "steam": the Steam event of the instances; "waiting": for
                       \* posted_async_events_mutex
          current,     \* current_leaderboard_
          added,       \* the sizes of leaderboards_array, scores_array and entries_array
          cookies,     \* gc_leaderboards_cookies_: requests not deallocated
          done,        \* those of them with is_done_ set
          unanswered,  \* external: the calls Steam has still to answer
          target,      \* external: the leaderboard that a call is about
          events,      \* posted_async_events
          async_load,  \* what the map holds in a Steam event
          asked        \* history: the name the game gave with a request

client == <<current, added, cookies, done>>
steam  == <<unanswered, target>>
vars   == <<pc, client, steam, events, async_load, asked>>

NoEvent == [kind |-> "none", id |-> 0, lb_name |-> Invalid]

Init == /\ pc = "events"
        /\ current = Invalid
        /\ added = [k \in Kinds |-> 0]
        /\ cookies = {} /\ done = {}
        /\ unanswered = {}
        /\ target = [r \in Request |-> Invalid]
        /\ events = <<>> /\ async_load = NoEvent
        /\ asked = [r \in Request |-> Invalid]

\* The game's code runs: in an event of the step, or in a Steam event.
InGame == pc \in {"events", "steam"}

-----------------------------------------------------------------------------
(* What the game calls. *)

\* (Mutant) A slot that holds nullptr counts as free.
NewRequest_SlotReused(k) == [kind |-> k, id |-> 0]

\* The next id of an array: AssetArray's add, of which nothing is ever destroyed.
NewRequest(k) == [kind |-> k, id |-> added[k]]

\* (Mutant) All cookies are deallocated.
Deallocated_All == {}

\* deallocate_leaderboards_cookies_if_done
Deallocated == cookies \ done

\* Steam takes on calls about n, and a cookie waits for the answer to each.
Calls(requests, n) ==
  /\ cookies' = Deallocated \cup requests
  /\ done' = {}
  /\ unanswered' = unanswered \cup requests
  /\ target' = [r \in Request |-> IF r \in requests THEN n ELSE target[r]]

\* steam_create_leaderboard, and create_leaderboard: nothing is sent when n is
\* the current leaderboard already.
steam_create_leaderboard(n, accepted) ==
  /\ added["find"] < MaxRequests["find"]
  /\ added' = [added EXCEPT !["find"] = @ + 1]
  /\ asked' = [asked EXCEPT ![NewRequest("find")] = n]
  /\ current' = IF current = n THEN current ELSE Invalid
  /\ Calls(IF current # n /\ accepted THEN {NewRequest("find")} ELSE {}, n)

\* (Mutant) Any leaderboard that is there will do.
FindLeaderboard_AnyCurrent(n) == IF current # Invalid THEN current ELSE Invalid

\* What find_leaderboard leaves as the current leaderboard.
FindLeaderboard(n) == IF current = n THEN current ELSE Invalid

\* steam_upload_score and steam_download_scores, with their variants: a find,
\* whose id the game does not get, and then the request itself if there was
\* nothing to find.
SendToLeaderboard(k, n, accepted) ==
  /\ \A j \in {"find", k} : added[j] < MaxRequests[j]
  /\ added' = [added EXCEPT !["find"] = @ + 1, ![k] = @ + 1]
  /\ current' = FindLeaderboard(n)
  /\ IF current' = Invalid
     THEN /\ Calls(IF accepted THEN {NewRequest("find")} ELSE {}, n)
          /\ UNCHANGED asked
     ELSE /\ asked' = [asked EXCEPT ![NewRequest(k)] = n]
          /\ Calls({NewRequest(k)}, current')

Game == /\ InGame
        /\ \E n \in Names, accepted \in BOOLEAN :
             \/ steam_create_leaderboard(n, accepted)
             \/ \E k \in {"upload", "download"} : SendToLeaderboard(k, n, accepted)
        /\ UNCHANGED <<pc, events, async_load>>

-----------------------------------------------------------------------------
(* Steam's answers, in the game's calls of steam_update. *)

MayUpdate == pc = "events" \/ (pc = "steam" /\ ~Careful)

\* lock the mutex, push the event: in a Steam event the thread that wants the
\* mutex is the thread that has it.
Push(r) ==
  IF pc = "steam"
  THEN pc' = "waiting" /\ UNCHANGED events
  ELSE /\ events' = Append(events, [kind |-> r.kind, id |-> r.id, lb_name |-> target[r]])
       /\ UNCHANGED pc

Answer(r) ==
  /\ MayUpdate
  /\ r \in unanswered \cap cookies
  /\ unanswered' = unanswered \ {r}
  /\ done' = IF pc' = "waiting" THEN done ELSE done \cup {r}
  /\ UNCHANGED <<cookies, added, target, async_load, asked>>

\* on_find_leaderboard, on_upload_score and on_download_scores with a good result
Success(r) ==
  /\ Push(r)
  /\ current' = IF r.kind = "find" THEN target[r] ELSE current
  /\ Answer(r)

\* The same with a failure: nothing is posted.
Failure(r) ==
  /\ UNCHANGED <<pc, events, current>>
  /\ Answer(r)

-----------------------------------------------------------------------------
(* The main loop. *)

\* The next step: fireEventsFromQueue takes the mutex.
NextStep ==
  /\ pc = "events"
  /\ pc' = "fire"
  /\ UNCHANGED <<client, steam, events, async_load, asked>>

\* (Mutant) The event stays at the head of the queue.
FireSteamworksEvent_NoPop ==
  /\ pc = "fire" /\ events # <<>>
  /\ async_load' = Head(events)
  /\ pc' = "steam"
  /\ UNCHANGED <<client, steam, events, asked>>

\* One round of the loop of fireEventsFromQueue: async_load is filled anew for every event.
FireSteamworksEvent ==
  /\ pc = "fire" /\ events # <<>>
  /\ async_load' = Head(events)
  /\ events' = Tail(events)
  /\ pc' = "steam"
  /\ UNCHANGED <<client, steam, asked>>

\* All instances have had their Steam event.
SteamEventDone ==
  /\ pc = "steam"
  /\ pc' = "fire"
  /\ async_load' = NoEvent
  /\ UNCHANGED <<client, steam, events, asked>>

\* The queue is empty: the mutex is released, and ENIGMA_events runs.
QueueEmpty ==
  /\ pc = "fire" /\ events = <<>>
  /\ pc' = "events"
  /\ UNCHANGED <<client, steam, events, async_load, asked>>

MainLoop == NextStep \/ FireSteamworksEvent \/ SteamEventDone \/ QueueEmpty

Next == Game \/ (\E r \in Request : Success(r) \/ Failure(r)) \/ MainLoop

\* The main loop goes on, and every event of the game returns.
Spec == Init /\ [][Next]_vars /\ WF_vars(MainLoop)

-----------------------------------------------------------------------------
Event == [kind : Kinds, id : Nat, lb_name : Names]

\* Every variable keeps its type.
TypeOK ==
  /\ pc \in {"events", "fire", "steam", "waiting"}
  /\ current \in Names \cup {Invalid}
  /\ added \in [Kinds -> Nat]
  /\ cookies \subseteq Request /\ done \subseteq cookies
  /\ unanswered \subseteq Request
  /\ target \in [Request -> Names \cup {Invalid}]
  /\ asked \in [Request -> Names \cup {Invalid}]
  /\ events \in Seq(Event) /\ async_load \in Event \cup {NoEvent}

\* A request goes to the leaderboard the game named with it, and the event that
\* answers it, known by its id, says so, although all requests go by one current
\* leaderboard, which is set whenever an answer to some earlier find comes in
\* (find_leaderboard, on_find_leaderboard).
RightLeaderboard ==
  /\ \A r \in unanswered : asked[r] \in {target[r], Invalid}
  /\ \A e \in ToSet(events) \cup {async_load} :
       e # NoEvent => asked[[kind |-> e.kind, id |-> e.id]] \in {e.lb_name, Invalid}

\* While Steam has a call to answer, its cookie is there, and not taken for done
\* (deallocate_leaderboards_cookies_if_done runs at every request).
CookieWaits == unanswered \subseteq cookies \ done

\* No id is answered twice: not while its call is open, not by two events.
AnsweredOnce ==
  LET Of(i) == [kind |-> events[i].kind, id |-> events[i].id]
  IN  /\ \A i, j \in DOMAIN events : Of(i) = Of(j) => i = j
      /\ \A i \in DOMAIN events : Of(i) \notin unanswered /\ events[i] # async_load

Posted(r)   == \E i \in DOMAIN events : events[i].kind = r.kind /\ events[i].id = r.id
Reported(r) == pc = "steam" /\ async_load.kind = r.kind /\ async_load.id = r.id

\* An event posted is reported to the game, and the loop that reports them ends
\* (fireEventsFromQueue).
PostedReported ==
  /\ \A r \in Request : Posted(r) ~> Reported(r)
  /\ []<>(pc = "events")

\* "success -> Will be 1 if the post succeeded, 0 failed." (leaderboards.h:186):
\* each upload that Steam has answered has been posted or reported.
UploadAnswered ==
  [][\A r \in unanswered \ unanswered' : r.kind = "upload" => Posted(r)']_vars
=============================================================================
