-------------------------- MODULE LeaderboardsProofs --------------------------
(***************************************************************************)
(* Proofs about Leaderboards, for all names of leaderboards, any number of *)
(* requests, and games that are careful or not.                            *)
(***************************************************************************)
EXTENDS Leaderboards, TLAPS

\* The request an event answers.
Requested(e) == [kind |-> e.kind, id |-> e.id]

\* A request is known by its kind and its id.
LEMMA RequestShape ==
  ASSUME NEW r \in Request
  PROVE  /\ r.kind \in Kinds /\ r.id \in Nat /\ r.id < MaxRequests[r.kind]
         /\ r = [kind |-> r.kind, id |-> r.id]
<1>1. MaxRequests \in [Kinds -> Nat]
  BY LeaderboardsAssumption
<1>2. PICK k \in Kinds : r \in [kind : {k}, id : 0 .. MaxRequests[k] - 1]
  BY DEF Request
<1> QED
  BY <1>1, <1>2

\* Within the bound the next id of an array makes a request.
LEMMA NewRequestType ==
  ASSUME NEW k \in Kinds, added \in [Kinds -> Nat], added[k] < MaxRequests[k]
  PROVE  /\ NewRequest(k) \in Request
         /\ NewRequest(k).kind = k /\ NewRequest(k).id = added[k]
<1>1. MaxRequests \in [Kinds -> Nat]
  BY LeaderboardsAssumption
<1>2. NewRequest(k) \in [kind : {k}, id : 0 .. MaxRequests[k] - 1]
  BY <1>1 DEF NewRequest
<1> QED
  BY <1>2 DEF Request, NewRequest

-----------------------------------------------------------------------------
(* Cookies. *)

\* A request leaves the cookies that wait, and every answer marks its own as done.
LEMMA CookiesNext ==
  ASSUME CookieWaits, [Next]_vars
  PROVE  CookieWaits'
<1> USE DEF CookieWaits
<1>1. CASE Game
  <2>1. PICK S, n : Calls(S, n)
    BY <1>1 DEF Game, steam_create_leaderboard, SendToLeaderboard
  <2> QED
    BY <2>1 DEF Calls, Deallocated
<1>2. ASSUME NEW r \in Request, Success(r) \/ Failure(r)
      PROVE  CookieWaits'
  <2>1. Answer(r)
    BY <1>2 DEF Success, Failure
  <2> QED
    BY <2>1 DEF Answer
<1>3. CASE MainLoop
  BY <1>3 DEF MainLoop, NextStep, FireSteamworksEvent, SteamEventDone, QueueEmpty, client, steam
<1>4. CASE UNCHANGED vars
  BY <1>4 DEF vars, client, steam
<1> QED
  BY <1>1, <1>2, <1>3, <1>4 DEF Next

\* However many requests are made while Steam has others to answer, no cookie it
\* will come back to is deallocated (deallocate_leaderboards_cookies_if_done).
THEOREM CookiesKept == Spec => []CookieWaits
<1>1. Init => CookieWaits
  BY DEF Init, CookieWaits
<1> QED
  BY <1>1, CookiesNext, PTL DEF Spec

-----------------------------------------------------------------------------
(* Which event answers which request. *)

\* Types, as far as the rest needs them; Steam's calls are about leaderboards.
Typed ==
  /\ current \in Names \cup {Invalid}
  /\ added \in [Kinds -> Nat]
  /\ unanswered \subseteq Request
  /\ target \in [Request -> Names \cup {Invalid}]
  /\ asked \in [Request -> Names \cup {Invalid}]
  /\ events \in Seq(Event) /\ async_load \in Event \cup {NoEvent}
  /\ \A r \in unanswered : target[r] \in Names

\* What an event of a request handed out already says.
Old(e) == Requested(e) \in Request /\ e.id < added[e.kind]

\* Ids that are still to be handed out are not in use.
Numbered ==
  /\ \A r \in Request : r.id >= added[r.kind] => asked[r] = Invalid /\ r \notin unanswered
  /\ \A i \in DOMAIN events : Old(events[i])
  /\ async_load # NoEvent => Old(async_load)

Says(e) == asked[Requested(e)] \in {e.lb_name, Invalid}

\* RightLeaderboard, by the places of the queue.
Right ==
  /\ \A r \in unanswered : asked[r] \in {target[r], Invalid}
  /\ \A i \in DOMAIN events : Says(events[i])
  /\ async_load # NoEvent => Says(async_load)

\* AnsweredOnce, and that an event being reported answers nothing still open.
Once ==
  /\ \A i, j \in DOMAIN events : Requested(events[i]) = Requested(events[j]) => i = j
  /\ \A i \in DOMAIN events :
       /\ Requested(events[i]) \notin unanswered
       /\ async_load # NoEvent => Requested(events[i]) # Requested(async_load)
  /\ async_load # NoEvent => Requested(async_load) \notin unanswered

IInv == Typed /\ Numbered /\ Right /\ Once

\* What a call of the game does, when the requests S, about n, are sent.
Effect(S, n) ==
  /\ \A r \in S : r.id = added[r.kind] /\ r.id < added'[r.kind]
  /\ unanswered' = unanswered \cup S
  /\ target' = [r \in Request |-> IF r \in S THEN n ELSE target[r]]
  /\ added' \in [Kinds -> Nat] /\ \A k \in Kinds : added[k] <= added'[k]
  /\ asked' \in [Request -> Names \cup {Invalid}]
  /\ \A r \in Request :
       \/ asked'[r] = asked[r]
       \/ r.id = added[r.kind] /\ r.id < added'[r.kind] /\ asked'[r] = n
  /\ current' \in Names \cup {Invalid}
  /\ UNCHANGED <<events, async_load>>

\* What the game's calls do: one request at most is sent, under an id never used,
\* and one id at most is told the game.
LEMMA GameEffect ==
  ASSUME Typed, Game
  PROVE  \E S \in SUBSET Request, n \in Names : Effect(S, n)
<1>0. /\ Kinds = {"find", "upload", "download"} /\ Invalid \notin Names
      /\ MaxRequests \in [Kinds -> Nat]
      /\ added \in [Kinds -> Nat] /\ asked \in [Request -> Names \cup {Invalid}]
      /\ target \in [Request -> Names \cup {Invalid}] /\ current \in Names \cup {Invalid}
      /\ UNCHANGED <<events, async_load>>
  BY LeaderboardsAssumption DEF Kinds, Typed, Game
<1>1. PICK n \in Names, accepted \in BOOLEAN :
        \/ steam_create_leaderboard(n, accepted)
        \/ \E k \in {"upload", "download"} : SendToLeaderboard(k, n, accepted)
  BY DEF Game
<1>2. CASE steam_create_leaderboard(n, accepted)
  <2> DEFINE q == NewRequest("find")
             S == IF current # n /\ accepted THEN {q} ELSE {}
  <2>1. q \in Request /\ q.kind = "find" /\ q.id = added["find"]
    BY <1>0, <1>2, NewRequestType DEF steam_create_leaderboard
  <2>2. /\ added' = [added EXCEPT !["find"] = added["find"] + 1]
        /\ asked' = [asked EXCEPT ![q] = n]
        /\ current' \in {current, Invalid} /\ Calls(S, n)
    BY <1>2 DEF steam_create_leaderboard
  <2> HIDE DEF q
  <2>3. S \in SUBSET Request /\ S \subseteq {q}
    BY <2>1
  <2> HIDE DEF S
  <2>4. added' \in [Kinds -> Nat] /\ \A k \in Kinds : added[k] <= added'[k]
    BY <1>0, <2>2
  <2>5. added'["find"] = added["find"] + 1 /\ added["find"] \in Nat
    BY <1>0, <2>2
  <2>6. \A r \in S : r.id = added[r.kind] /\ r.id < added'[r.kind]
    BY <2>1, <2>3, <2>5
  <2>7. unanswered' = unanswered \cup S /\ target' = [r \in Request |-> IF r \in S THEN n ELSE target[r]]
    BY <2>2 DEF Calls
  <2>8. asked' \in [Request -> Names \cup {Invalid}]
    BY <1>0, <2>1, <2>2
  <2>9. ASSUME NEW r \in Request
        PROVE  \/ asked'[r] = asked[r]
               \/ r.id = added[r.kind] /\ r.id < added'[r.kind] /\ asked'[r] = n
    BY <1>0, <2>1, <2>2, <2>5
  <2>10. Effect(S, n)
    BY <1>0, <2>2, <2>4, <2>6, <2>7, <2>8, <2>9 DEF Effect
  <2> QED
    BY <2>3, <2>10
<1>3. ASSUME NEW k \in {"upload", "download"}, SendToLeaderboard(k, n, accepted)
      PROVE  \E S \in SUBSET Request, m \in Names : Effect(S, m)
  <2> DEFINE q == NewRequest(k)
             p == NewRequest("find")
  <2>1. /\ q \in Request /\ q.kind = k /\ q.id = added[k]
        /\ p \in Request /\ p.kind = "find" /\ p.id = added["find"]
    <3>1. k \in Kinds /\ added[k] < MaxRequests[k] /\ added["find"] < MaxRequests["find"]
      BY <1>0, <1>3 DEF SendToLeaderboard
    <3> QED
      BY <1>0, <3>1, NewRequestType
  <2>2. /\ added' = [added EXCEPT !["find"] = added["find"] + 1, ![k] = added[k] + 1]
        /\ current' = FindLeaderboard(n)
        /\ IF current' = Invalid
           THEN Calls(IF accepted THEN {p} ELSE {}, n) /\ asked' = asked
           ELSE asked' = [asked EXCEPT ![q] = n] /\ Calls({q}, current')
    BY <1>3, Zenon DEF SendToLeaderboard
  <2> HIDE DEF p, q
  <2>3. /\ added' \in [Kinds -> Nat] /\ \A j \in Kinds : added[j] <= added'[j]
        /\ added'["find"] = added["find"] + 1 /\ added["find"] \in Nat
        /\ added'[k] = added[k] + 1 /\ added[k] \in Nat
    BY <1>0, <1>3, <2>2
  <2>4. current' \in {n, Invalid}
    BY <2>2 DEF FindLeaderboard
  <2>5. CASE current' = Invalid
    <3> DEFINE S == IF accepted THEN {p} ELSE {}
    <3>1. S \in SUBSET Request /\ S \subseteq {p}
      BY <2>1
    <3>2. Calls(S, n) /\ asked' = asked
      BY <2>2, <2>5
    <3> HIDE DEF S
    <3>3. \A r \in S : r.id = added[r.kind] /\ r.id < added'[r.kind]
      BY <2>1, <2>3, <3>1
    <3>4. unanswered' = unanswered \cup S /\ target' = [r \in Request |-> IF r \in S THEN n ELSE target[r]]
      BY <3>2 DEF Calls
    <3>5. Effect(S, n)
      BY <1>0, <2>3, <2>5, <3>2, <3>3, <3>4 DEF Effect
    <3> QED
      BY <3>1, <3>5
  <2>6. CASE current' # Invalid
    <3>1. Calls({q}, n) /\ asked' = [asked EXCEPT ![q] = n] /\ current' = n
      BY <2>2, <2>4, <2>6
    <3>2. \A r \in {q} : r.id = added[r.kind] /\ r.id < added'[r.kind]
      BY <2>1, <2>3
    <3>3. /\ unanswered' = unanswered \cup {q}
          /\ target' = [r \in Request |-> IF r \in {q} THEN n ELSE target[r]]
      BY <3>1 DEF Calls
    <3>4. asked' \in [Request -> Names \cup {Invalid}]
      BY <1>0, <2>1, <3>1
    <3>5. ASSUME NEW r \in Request
          PROVE  \/ asked'[r] = asked[r]
                 \/ r.id = added[r.kind] /\ r.id < added'[r.kind] /\ asked'[r] = n
      BY <1>0, <2>1, <2>3, <3>1
    <3>6. Effect({q}, n)
      BY <1>0, <2>3, <3>1, <3>2, <3>3, <3>4, <3>5 DEF Effect
    <3> QED
      BY <2>1, <3>6
  <2> QED
    BY <2>5, <2>6
<1> QED
  BY <1>1, <1>2, <1>3

\* The game's calls keep the invariant: what they add has ids not in use.
LEMMA GameNext ==
  ASSUME IInv, Game
  PROVE  IInv'
<1>0. Typed /\ Numbered /\ Right /\ Once
  BY DEF IInv
<1>1. PICK S \in SUBSET Request, n \in Names : Effect(S, n)
  BY <1>0, GameEffect
<1>2. /\ \A r \in S : r.id = added[r.kind] /\ r.id < added'[r.kind]
      /\ unanswered' = unanswered \cup S
      /\ target' \in [Request -> Names \cup {Invalid}]
      /\ \A r \in Request : target'[r] = IF r \in S THEN n ELSE target[r]
      /\ added' \in [Kinds -> Nat] /\ \A k \in Kinds : added[k] <= added'[k]
      /\ asked' \in [Request -> Names \cup {Invalid}]
      /\ \A r \in Request :
           \/ asked'[r] = asked[r]
           \/ r.id = added[r.kind] /\ r.id < added'[r.kind] /\ asked'[r] = n
      /\ current' \in Names \cup {Invalid}
      /\ events' = events /\ async_load' = async_load
  BY <1>0, <1>1 DEF Effect, Typed
<1>3. \A r \in Request : r.kind \in Kinds /\ r.id \in Nat /\ r = [kind |-> r.kind, id |-> r.id]
  BY RequestShape
<1>4. added \in [Kinds -> Nat] /\ unanswered \subseteq Request
  BY <1>0 DEF Typed
<1>5. \A r \in S : r \notin unanswered /\ asked[r] = Invalid
  BY <1>0, <1>2, <1>3, <1>4 DEF Numbered
<1>6. Typed'
  BY <1>0, <1>2 DEF Typed
<1>7. ASSUME NEW e, Old(e)
      PROVE  /\ Old(e)' /\ Requested(e) \notin S
             /\ asked'[Requested(e)] = asked[Requested(e)]
  <2>1. Requested(e) \in Request /\ Requested(e).kind = e.kind /\ Requested(e).id = e.id
    BY <1>7 DEF Old, Requested
  <2>2. e.kind \in Kinds /\ e.id \in Nat /\ e.id < added[e.kind] /\ added[e.kind] \in Nat
    BY <1>3, <1>4, <1>7, <2>1 DEF Old
  <2>3. added'[e.kind] \in Nat /\ added[e.kind] <= added'[e.kind]
    BY <1>2, <2>2
  <2> QED
    BY <1>2, <2>1, <2>2, <2>3 DEF Old, Requested
<1>8. Numbered'
  <2>1. ASSUME NEW r \in Request, r.id >= added'[r.kind]
        PROVE  asked'[r] = Invalid /\ r \notin unanswered'
    <3>1. /\ r.kind \in Kinds /\ r.id \in Nat
          /\ added[r.kind] \in Nat /\ added'[r.kind] \in Nat /\ added[r.kind] <= added'[r.kind]
      BY <1>2, <1>3, <1>4
    <3>2. r.id >= added[r.kind] /\ ~(r.id < added'[r.kind])
      BY <2>1, <3>1
    <3> QED
      BY <1>0, <1>2, <3>2 DEF Numbered
  <2>2. \A i \in DOMAIN events' : Old(events[i])'
    BY <1>0, <1>2, <1>7 DEF Numbered, Old
  <2>3. async_load' # NoEvent => Old(async_load)'
    BY <1>0, <1>2, <1>7 DEF Numbered, Old
  <2> QED
    BY <1>2, <2>1, <2>2, <2>3 DEF Numbered, Old
<1>9. Right'
  <2>1. \A r \in unanswered' : asked'[r] \in {target'[r], Invalid}
    <3> TAKE r \in unanswered'
    <3>1. r \in Request
      BY <1>2, <1>4
    <3>2. CASE r \in S
      BY <1>2, <1>5, <3>1, <3>2
    <3>3. CASE r \notin S
      <4>1. r \in unanswered /\ ~(r.id >= added[r.kind])
        BY <1>0, <1>2, <3>1, <3>3 DEF Numbered
      <4>2. r.id # added[r.kind]
        BY <1>3, <1>4, <3>1, <4>1
      <4> QED
        BY <1>0, <1>2, <3>1, <3>3, <4>1, <4>2 DEF Right
    <3> QED
      BY <3>2, <3>3
  <2>2. \A i \in DOMAIN events' : Says(events[i])'
    BY <1>0, <1>2, <1>7 DEF Numbered, Right, Says
  <2>3. async_load' # NoEvent => Says(async_load)'
    BY <1>0, <1>2, <1>7 DEF Numbered, Right, Says
  <2> QED
    BY <2>1, <2>2, <2>3 DEF Right
<1>10. Once'
  BY <1>0, <1>2, <1>7 DEF Numbered, Once
<1> QED
  BY <1>6, <1>8, <1>9, <1>10 DEF IInv

\* An answer that posts nothing keeps the invariant.
LEMMA QuietAnswer ==
  ASSUME IInv, NEW r \in Request, Answer(r), UNCHANGED events,
         current' \in Names \cup {Invalid}
  PROVE  IInv'
<1>1. /\ unanswered' = unanswered \ {r}
      /\ added' = added /\ target' = target /\ async_load' = async_load /\ asked' = asked
      /\ events' = events
  BY DEF Answer
<1> QED
  BY <1>1 DEF IInv, Typed, Numbered, Right, Once, Old, Says

\* An answer that is posted is the only event of its request.
LEMMA PostedAnswer ==
  ASSUME IInv, NEW r \in Request, Answer(r), current' \in Names \cup {Invalid},
         events' = Append(events, [kind |-> r.kind, id |-> r.id, lb_name |-> target[r]])
  PROVE  IInv'
<1> DEFINE e == [kind |-> r.kind, id |-> r.id, lb_name |-> target[r]]
<1>0. Typed /\ Numbered /\ Right /\ Once
  BY DEF IInv
<1>1. /\ unanswered' = unanswered \ {r} /\ r \in unanswered
      /\ added' = added /\ target' = target /\ async_load' = async_load /\ asked' = asked
  BY DEF Answer
<1>2. r.kind \in Kinds /\ r.id \in Nat /\ r = [kind |-> r.kind, id |-> r.id]
  BY RequestShape
<1>3. Requested(e) = r /\ e.kind = r.kind /\ e.id = r.id /\ e.lb_name = target[r]
  BY <1>2 DEF Requested
<1>4. e \in Event
  BY <1>0, <1>1, <1>2 DEF Event, Typed
<1>5. r.id < added[r.kind]
  BY <1>0, <1>1, <1>2 DEF Numbered, Typed
<1>6. Old(e) /\ Says(e)
  BY <1>0, <1>1, <1>3, <1>5 DEF Old, Says, Right
<1>7. /\ events \in Seq(Event) /\ events' = Append(events, e)
      /\ events' \in Seq(Event)
      /\ DOMAIN events = 1 .. Len(events) /\ Len(events) \in Nat
      /\ DOMAIN events' = 1 .. Len(events) + 1
      /\ \A i \in DOMAIN events : events'[i] = events[i]
      /\ events'[Len(events) + 1] = e
  <2>1. events \in Seq(Event)
    BY <1>0 DEF Typed
  <2> HIDE DEF e
  <2>2. events' = Append(events, e)
    BY DEF e
  <2> QED
    BY <1>4, <2>1, <2>2
<1> HIDE DEF e
<1>8. \A i \in DOMAIN events' : i \in DOMAIN events \/ i = Len(events) + 1
  BY <1>7
<1>9. Typed'
  BY <1>0, <1>1, <1>7 DEF Typed
<1>10. Numbered'
  BY <1>0, <1>1, <1>6, <1>7, <1>8 DEF Numbered, Old
<1>11. Right'
  BY <1>0, <1>1, <1>6, <1>7, <1>8 DEF Right, Says
<1>12. Once'
  <2>1. \A i \in DOMAIN events : Requested(events[i]) # r
    BY <1>0, <1>1 DEF Once
  <2>2. ASSUME NEW i \in DOMAIN events', NEW j \in DOMAIN events',
               Requested(events'[i]) = Requested(events'[j])
        PROVE  i = j
    <3>1. CASE i \in DOMAIN events /\ j \in DOMAIN events
      BY <1>0, <1>7, <2>2, <3>1 DEF Once
    <3>2. CASE i = Len(events) + 1 /\ j \in DOMAIN events
      BY <1>3, <1>7, <2>1, <2>2, <3>2
    <3>3. CASE j = Len(events) + 1 /\ i \in DOMAIN events
      BY <1>3, <1>7, <2>1, <2>2, <3>3
    <3> QED
      BY <1>8, <3>1, <3>2, <3>3
  <2>3. ASSUME NEW i \in DOMAIN events'
        PROVE  /\ Requested(events'[i]) \notin unanswered'
               /\ async_load' # NoEvent => Requested(events'[i]) # Requested(async_load')
    <3>1. CASE i \in DOMAIN events
      BY <1>0, <1>1, <1>7, <3>1 DEF Once
    <3>2. CASE i = Len(events) + 1
      BY <1>0, <1>1, <1>3, <1>7, <3>2 DEF Once
    <3> QED
      BY <1>8, <3>1, <3>2
  <2>4. async_load' # NoEvent => Requested(async_load') \notin unanswered'
    BY <1>0, <1>1 DEF Once
  <2> QED
    BY <2>2, <2>3, <2>4 DEF Once
<1> QED
  BY <1>9, <1>10, <1>11, <1>12 DEF IInv

\* An event on its way to the game leaves the queue.
LEMMA FireNext ==
  ASSUME IInv, FireSteamworksEvent
  PROVE  IInv'
<1>0. Typed /\ Numbered /\ Right /\ Once
  BY DEF IInv
<1>1. /\ events \in Seq(Event) /\ events # <<>>
      /\ async_load' = Head(events) /\ events' = Tail(events)
      /\ current' = current /\ added' = added /\ target' = target /\ asked' = asked
      /\ unanswered' = unanswered
  BY <1>0 DEF FireSteamworksEvent, Typed, client, steam
<1>2. /\ 1 \in DOMAIN events /\ async_load' = events[1] /\ async_load' \in Event
      /\ events' \in Seq(Event)
      /\ \A i \in DOMAIN events' :
           i \in Nat /\ i + 1 \in DOMAIN events /\ i + 1 # 1 /\ events'[i] = events[i + 1]
  BY <1>1
<1>3. Typed'
  BY <1>0, <1>1, <1>2 DEF Typed
<1>4. Numbered'
  BY <1>0, <1>1, <1>2 DEF Numbered, Old
<1>5. Right'
  BY <1>0, <1>1, <1>2 DEF Right, Says
<1>6. Once'
  <2>1. ASSUME NEW i \in DOMAIN events', NEW j \in DOMAIN events',
               Requested(events'[i]) = Requested(events'[j])
        PROVE  i = j
    <3>1. i + 1 = j + 1
      BY <1>0, <1>2, <2>1 DEF Once
    <3> QED
      BY <1>2, <3>1
  <2>2. \A i \in DOMAIN events' : /\ Requested(events'[i]) \notin unanswered'
                                  /\ Requested(events'[i]) # Requested(async_load')
    BY <1>0, <1>1, <1>2 DEF Once
  <2>3. Requested(async_load') \notin unanswered'
    BY <1>0, <1>1, <1>2 DEF Once
  <2> QED
    BY <2>1, <2>2, <2>3 DEF Once
<1> QED
  BY <1>3, <1>4, <1>5, <1>6 DEF IInv

\* Every step keeps the invariant.
LEMMA EventsNext ==
  ASSUME IInv, [Next]_vars
  PROVE  IInv'
<1>1. CASE Game
  BY <1>1, GameNext
<1>2. ASSUME NEW r \in Request, Success(r)
      PROVE  IInv'
  <2>1. Answer(r) /\ current' \in Names \cup {Invalid}
    BY <1>2 DEF Success, IInv, Typed
  <2>2. CASE UNCHANGED events
    BY <2>1, <2>2, QuietAnswer
  <2>3. CASE events' = Append(events, [kind |-> r.kind, id |-> r.id, lb_name |-> target[r]])
    BY <2>1, <2>3, PostedAnswer
  <2> QED
    BY <1>2, <2>2, <2>3 DEF Success, Push
<1>3. ASSUME NEW r \in Request, Failure(r)
      PROVE  IInv'
  BY <1>3, QuietAnswer DEF Failure, IInv, Typed
<1>4. CASE FireSteamworksEvent
  BY <1>4, FireNext
<1>5. CASE SteamEventDone
  BY <1>5 DEF SteamEventDone, client, steam, IInv, Typed, Numbered, Right, Once, Old, Says
<1>6. CASE NextStep \/ QueueEmpty \/ UNCHANGED vars
  <2>1. UNCHANGED <<current, added, unanswered, target, asked, events, async_load>>
    BY <1>6 DEF NextStep, QueueEmpty, vars, client, steam
  <2> QED
    BY <2>1 DEF IInv, Typed, Numbered, Right, Once, Old, Says
<1> QED
  BY <1>1, <1>2, <1>3, <1>4, <1>5, <1>6 DEF Next, MainLoop

\* The invariant holds throughout.
LEMMA Invariant == Spec => []IInv
<1>1. Init => IInv
  <2> SUFFICES ASSUME Init PROVE IInv
    OBVIOUS
  <2>1. DOMAIN events = {} /\ events \in Seq(Event) /\ async_load = NoEvent /\ unanswered = {}
    BY DEF Init
  <2>2. Typed
    BY <2>1 DEF Init, Typed
  <2>3. Numbered
    BY <2>1 DEF Init, Numbered
  <2>4. Right /\ Once
    BY <2>1 DEF Right, Once
  <2> QED
    BY <2>2, <2>3, <2>4 DEF IInv
<1> QED
  BY <1>1, EventsNext, PTL DEF Spec

\* For any number of leaderboards and requests, and whatever the order of Steam's
\* answers, the one current leaderboard never sends a request to the leaderboard
\* of another (find_leaderboard, on_find_leaderboard).
THEOREM RightLeaderboardAlways == Spec => []RightLeaderboard
<1>1. IInv => RightLeaderboard
  <2> SUFFICES ASSUME Typed, Right PROVE RightLeaderboard
    BY DEF IInv
  <2>1. ASSUME NEW e \in ToSet(events) \cup {async_load}, e # NoEvent
        PROVE  asked[[kind |-> e.kind, id |-> e.id]] \in {e.lb_name, Invalid}
    BY <2>1 DEF ToSet, Right, Says, Requested
  <2> QED
    BY <2>1 DEF RightLeaderboard, Right
<1> QED
  BY <1>1, Invariant, PTL

\* No id is answered twice, for any number of requests (AssetArray's ids are not
\* given again).
THEOREM AnsweredOnceAlways == Spec => []AnsweredOnce
<1>1. IInv => AnsweredOnce
  <2> SUFFICES ASSUME Typed, Once PROVE AnsweredOnce
    BY DEF IInv
  <2>1. ASSUME NEW i \in DOMAIN events
        PROVE  events[i] # async_load
    <3>1. events[i].kind \in Kinds
      <4>1. events \in Seq(Event)
        BY DEF Typed
      <4>2. events[i] \in Event
        BY <4>1
      <4> QED
        BY <4>2 DEF Event
    <3>2. events[i] # NoEvent
      BY <3>1 DEF Kinds, NoEvent
    <3> QED
      BY <3>2 DEF Once
  <2> QED
    BY <2>1 DEF AnsweredOnce, Once, Requested
<1> QED
  BY <1>1, Invariant, PTL

-----------------------------------------------------------------------------
(* Types. *)

\* Where the main loop is, and that cookies are made for requests only.
CookieTypes ==
  /\ pc \in {"events", "fire", "steam", "waiting"}
  /\ cookies \subseteq Request /\ done \subseteq cookies

\* Every step keeps them.
LEMMA CookieTypesNext ==
  ASSUME Typed, CookieTypes, [Next]_vars
  PROVE  CookieTypes'
<1> USE DEF CookieTypes
<1>1. CASE Game
  <2>1. \A k \in Kinds : added[k] < MaxRequests[k] => NewRequest(k) \in Request
    BY NewRequestType DEF Typed
  <2>2. \A k \in {"upload", "download"} : k \in Kinds
    BY DEF Kinds
  <2>3. "find" \in Kinds /\ pc' = pc
    BY <1>1 DEF Kinds, Game
  <2>4. PICK S \in SUBSET Request : \E n : Calls(S, n)
    BY <1>1, <2>1, <2>2, <2>3 DEF Game, steam_create_leaderboard, SendToLeaderboard
  <2> QED
    BY <2>3, <2>4 DEF Calls, Deallocated
<1>2. ASSUME NEW r \in Request, Success(r) \/ Failure(r)
      PROVE  CookieTypes'
  BY <1>2 DEF Success, Failure, Answer, Push
<1>3. CASE MainLoop
  BY <1>3 DEF MainLoop, NextStep, FireSteamworksEvent, SteamEventDone, QueueEmpty, client, steam
<1>4. CASE UNCHANGED vars
  BY <1>4 DEF vars, client, steam
<1> QED
  BY <1>1, <1>2, <1>3, <1>4 DEF Next

\* Every variable keeps its type: what is posted and reported are events about
\* leaderboards, and cookies are made for requests.
THEOREM TypeCorrect == Spec => []TypeOK
<1>1. Init => CookieTypes
  BY DEF Init, CookieTypes
<1>2. IInv /\ CookieTypes => TypeOK
  BY DEF IInv, Typed, CookieTypes, TypeOK
<1>3. IInv /\ CookieTypes /\ [Next]_vars => CookieTypes'
  BY CookieTypesNext DEF IInv
<1> QED
  BY <1>1, <1>2, <1>3, Invariant, PTL DEF Spec
=============================================================================
