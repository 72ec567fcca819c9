------------------------- MODULE SpotifyAuthProofs -------------------------
(***************************************************************************)
(* Proofs about SpotifyAuth: the shape of the state, that the row never    *)
(* mixes two accounts, that a token handed out is alive when it is used,   *)
(* and that the account the admin chose stays connected.                   *)
(***************************************************************************)
EXTENDS SpotifyAuth, TLAPS

-----------------------------------------------------------------------------
(* The shape of the state.                                                 *)

LEMMA CountDownType == ASSUME NEW n \in Nat
                       PROVE  /\ CountDown(n) \in 0 .. n
                              /\ CountDown(n) >= n - 1
BY DEF CountDown

\* The fields that a call or a link has at each point of its way.
LEMMA CallFields ==
    ASSUME NEW r \in CallType
    PROVE  /\ r.pc \in {"idle", "refreshing", "answered", "calling"}
           /\ r.pc = "idle" => r = Idle
           /\ r.pc = "refreshing" =>
                 r \in [pc : {"refreshing"}, sent : RefreshTokens, age : Delays]
           /\ r.pc = "answered" =>
                 r \in [pc : {"answered"}, sent : RefreshTokens, account : Accounts,
                        left : Lives, new : RefreshTokens \cup {NoToken}, age : Delays]
           /\ r.pc = "calling" =>
                 r \in [pc : {"calling"}, account : Accounts, left : Lives, age : Delays]
BY DEF CallType, Idle

LEMMA LinkFields ==
    ASSUME NEW r \in LinkType
    PROVE  /\ r.pc \in {"unused", "finished", "agreed", "exchanging", "exchanged"}
           /\ r.pc = "agreed" => r \in [pc : {"agreed"}, account : Accounts]
           /\ r.pc = "exchanging" =>
                 r \in [pc : {"exchanging"}, account : Accounts, age : Delays]
           /\ r.pc = "exchanged" =>
                 r \in [pc : {"exchanged"}, account : Accounts, left : Lives,
                        refresh : RefreshTokens, age : Delays]
BY DEF LinkType, Unused, Finished

LEMMA AgedCall ==
    ASSUME NEW r \in CallType, r.pc # "idle" => r.age < MaxDelay
    PROVE  Aged(r) \in CallType
<1>. USE SpotifyAuthAssumption
<1>1. CASE r.pc = "idle"
  BY <1>1, CallFields DEF Aged
<1>2. CASE r.pc = "refreshing"
  <2>1. r.age \in Delays /\ r.age + 1 \in Delays
    BY <1>2, CallFields DEF Delays
  <2>2. Aged(r) = [r EXCEPT !.age = @ + 1]
    BY <1>2 DEF Aged
  <2>. QED  BY <1>2, <2>1, <2>2, CallFields DEF CallType
<1>3. CASE r.pc = "answered"
  <2>1. r.age + 1 \in Delays /\ CountDown(r.left) \in Lives
    BY <1>3, CallFields, CountDownType DEF Delays, Lives
  <2>2. Aged(r) = [r EXCEPT !.age = @ + 1, !.left = CountDown(@)]
    BY <1>3 DEF Aged
  <2>. QED  BY <1>3, <2>1, <2>2, CallFields DEF CallType
<1>4. CASE r.pc = "calling"
  <2>1. r.age + 1 \in Delays /\ CountDown(r.left) \in Lives
    BY <1>4, CallFields, CountDownType DEF Delays, Lives
  <2>2. Aged(r) = [r EXCEPT !.age = @ + 1, !.left = CountDown(@)]
    BY <1>4 DEF Aged
  <2>. QED  BY <1>4, <2>1, <2>2, CallFields DEF CallType
<1>. QED  BY <1>1, <1>2, <1>3, <1>4, CallFields

LEMMA AgedLink ==
    ASSUME NEW r \in LinkType, r.pc \in {"exchanging", "exchanged"} => r.age < MaxDelay
    PROVE  Aged(r) \in LinkType
<1>. USE SpotifyAuthAssumption
<1>1. CASE r.pc \in {"unused", "finished", "agreed"}
  BY <1>1 DEF Aged
<1>2. CASE r.pc = "exchanging"
  <2>1. r.age + 1 \in Delays
    BY <1>2, LinkFields DEF Delays
  <2>2. Aged(r) = [r EXCEPT !.age = @ + 1]
    BY <1>2 DEF Aged
  <2>. QED  BY <1>2, <2>1, <2>2, LinkFields DEF LinkType
<1>3. CASE r.pc = "exchanged"
  <2>1. r.age + 1 \in Delays /\ CountDown(r.left) \in Lives
    BY <1>3, LinkFields, CountDownType DEF Delays, Lives
  <2>2. Aged(r) = [r EXCEPT !.age = @ + 1, !.left = CountDown(@)]
    BY <1>3 DEF Aged
  <2>. QED  BY <1>3, <2>1, <2>2, LinkFields DEF LinkType
<1>. QED  BY <1>1, <1>2, <1>3, LinkFields

\* Ages that let time pass.
LEMMA MayAge ==
    ASSUME TimePasses
    PROVE  /\ \A c \in Callers : callers[c].pc # "idle" => callers[c].age < MaxDelay
           /\ \A n \in LinksUnderWay : links[n].age < MaxDelay
BY DEF TimePasses, Ages

\* What a caller keeps of an answer is a refresh token.
LEMMA KeptTokenType ==
    ASSUME NEW c \in Callers, callers[c] \in CallType, callers[c].pc = "answered"
    PROVE  KeptToken(callers[c]) \in RefreshTokens
BY CallFields DEF KeptToken

LEMMA TypeInit == Init => TypeOK
<1>. SUFFICES ASSUME Init PROVE TypeOK
  OBVIOUS
<1>1. Idle \in CallType /\ Unused \in LinkType
  BY DEF CallType, LinkType
<1>2. callers \in [Callers -> CallType] /\ links \in [1 .. MaxConnects -> LinkType]
  BY <1>1 DEF Init
<1>3. 0 \in 0 .. MaxConnects
  BY SpotifyAuthAssumption
<1>. QED  BY <1>2, <1>3 DEF Init, TypeOK

LEMMA TypeNext == TypeOK /\ [Next]_vars => TypeOK'
<1>. SUFFICES ASSUME TypeOK, [Next]_vars PROVE TypeOK'
  OBVIOUS
<1>. USE SpotifyAuthAssumption
<1>0. /\ Life \in Lives /\ 0 \in Delays
      /\ Idle \in CallType /\ Unused \in LinkType /\ Finished \in LinkType
  BY DEF Lives, Delays, CallType, LinkType
<1>1. ASSUME NEW c \in Callers, StartCall(c) PROVE TypeOK'
  <2>1. stored \in Rows
    BY <1>1 DEF StartCall, TypeOK
  <2>2. /\ Calling(stored.account, stored.left) \in CallType
        /\ Refreshing(stored.refresh) \in CallType
    BY <1>0, <2>1 DEF Rows, Calling, Refreshing, CallType
  <2>. QED  BY <1>1, <2>2 DEF StartCall, TypeOK
<1>2. ASSUME NEW c \in Callers, RefreshAnswered(c) PROVE TypeOK'
  <2>. DEFINE sent == callers[c].sent
              next == [account |-> sent.account, serial |-> issued + 1]
              new  == IF sent.account \in Rotating /\ issued < MaxIssued THEN next ELSE NoToken
              call == [pc |-> "answered", sent |-> sent, account |-> sent.account,
                       left |-> Life, new |-> new, age |-> callers[c].age]
  <2>1. callers[c] \in CallType /\ callers[c].pc = "refreshing" /\ issued \in Nat
    BY <1>2 DEF RefreshAnswered, TypeOK
  <2>2. /\ sent \in RefreshTokens /\ sent.account \in Accounts
        /\ callers[c].age \in Delays
    BY <2>1, CallFields DEF RefreshTokens
  <2>3. next \in RefreshTokens
    BY <2>1, <2>2 DEF RefreshTokens
  <2>4. new \in RefreshTokens \cup {NoToken}
    BY <2>3
  <2>5. call \in CallType
    BY <1>0, <2>2, <2>4 DEF CallType
  <2>6. callers' = [callers EXCEPT ![c] = call]
    BY <1>2 DEF RefreshAnswered
  <2>7. callers' \in [Callers -> CallType]
    BY <2>5, <2>6 DEF TypeOK
  <2>8. accepted' \subseteq RefreshTokens /\ issued' \in Nat
    BY <1>2, <2>1, <2>3 DEF RefreshAnswered, TypeOK
  <2>. QED  BY <1>2, <2>7, <2>8 DEF RefreshAnswered, TypeOK
<1>3. ASSUME NEW c \in Callers, RefreshRefused(c) PROVE TypeOK'
  BY <1>0, <1>3 DEF RefreshRefused, TypeOK
<1>4. ASSUME NEW c \in Callers, SaveRefreshed(c) PROVE TypeOK'
  <2>1. callers[c] \in CallType /\ callers[c].pc = "answered"
    BY <1>4 DEF SaveRefreshed, TypeOK
  <2>2. callers[c].account \in Accounts /\ callers[c].left \in Lives
    BY <2>1, CallFields
  <2>3. stored' \in Rows
    BY <1>0, <1>4, <2>1, <2>2, KeptTokenType DEF SaveRefreshed, Row, Rows
  <2>4. Calling(callers[c].account, callers[c].left) \in CallType
    BY <1>0, <2>2 DEF Calling, CallType
  <2>. QED  BY <1>4, <2>3, <2>4 DEF SaveRefreshed, TypeOK
<1>5. ASSUME NEW c \in Callers, RequestMade(c) PROVE TypeOK'
  BY <1>0, <1>5 DEF RequestMade, TypeOK
<1>6. ASSUME NEW c \in Callers, CallFails(c) PROVE TypeOK'
  BY <1>0, <1>6 DEF CallFails, TypeOK
<1>7. ASSUME NEW n \in DOMAIN links, NEW account \in Accounts, Connect(n, account)
      PROVE  TypeOK'
  <2>1. [pc |-> "agreed", account |-> account] \in LinkType
    BY DEF LinkType
  <2>. QED  BY <1>7, <2>1 DEF Connect, TypeOK
<1>8. ASSUME NEW n \in DOMAIN links, Callback(n) PROVE TypeOK'
  <2>1. links[n] \in LinkType /\ links[n].pc = "agreed"
    BY <1>8 DEF Callback, TypeOK
  <2>2. [pc |-> "exchanging", account |-> links[n].account, age |-> 0] \in LinkType
    BY <1>0, <2>1, LinkFields DEF LinkType
  <2>. QED  BY <1>8, <2>2 DEF Callback, TypeOK
<1>9. ASSUME NEW n \in DOMAIN links, ExchangeAnswered(n) PROVE TypeOK'
  <2>. DEFINE refresh == [account |-> links[n].account, serial |-> issued + 1]
              link == [pc |-> "exchanged", account |-> links[n].account, left |-> Life,
                       refresh |-> refresh, age |-> links[n].age]
  <2>1. links[n] \in LinkType /\ links[n].pc = "exchanging" /\ issued \in Nat
    BY <1>9 DEF ExchangeAnswered, TypeOK
  <2>2. links[n].account \in Accounts /\ links[n].age \in Delays
    BY <2>1, LinkFields
  <2>3. refresh \in RefreshTokens
    BY <2>1, <2>2 DEF RefreshTokens
  <2>4. link \in LinkType
    BY <1>0, <2>2, <2>3 DEF LinkType
  <2>5. links' = [links EXCEPT ![n] = link]
    BY <1>9 DEF ExchangeAnswered
  <2>6. links' \in [1 .. MaxConnects -> LinkType]
    BY <2>4, <2>5 DEF TypeOK
  <2>. QED  BY <1>9, <2>1, <2>3, <2>6 DEF ExchangeAnswered, TypeOK
<1>9a. BeingRefreshed \subseteq Accounts
  <2>. SUFFICES ASSUME NEW c \in Callers, callers[c].pc \in {"refreshing", "answered"}
                PROVE  callers[c].sent.account \in Accounts
    BY DEF BeingRefreshed
  <2>1. callers[c].sent \in RefreshTokens
    BY CallFields DEF TypeOK
  <2>. QED  BY <2>1 DEF RefreshTokens
<1>10. ASSUME NEW n \in DOMAIN links, SaveExchanged(n) PROVE TypeOK'
  <2>1. links[n] \in LinkType /\ links[n].pc = "exchanged"
    BY <1>10 DEF SaveExchanged, TypeOK
  <2>2. stored' \in Rows /\ links[n].account \in Accounts
    BY <1>0, <1>10, <2>1, LinkFields DEF SaveExchanged, Row, Rows
  <2>. QED  BY <1>0, <1>10, <1>9a, <2>2 DEF SaveExchanged, Chosen, TypeOK
<1>11. ASSUME NEW n \in DOMAIN links, ExchangeFails(n) PROVE TypeOK'
  BY <1>0, <1>11 DEF ExchangeFails, TypeOK
<1>12. CASE Disconnect
  BY <1>12, <1>9a DEF Disconnect, Chosen, TypeOK
<1>13. CASE Crash
  BY <1>0, <1>13 DEF Crash, TypeOK
<1>14. CASE TimePasses
  <2>1. \A c \in Callers : Aged(callers[c]) \in CallType
    BY <1>14, MayAge, AgedCall DEF TypeOK
  <2>2. \A n \in DOMAIN links : Aged(links[n]) \in LinkType
    BY <1>14, MayAge, AgedLink DEF TypeOK, LinksUnderWay
  <2>3. stored # NotConnected => AgedRow(stored) \in Rows
    <3>. SUFFICES ASSUME stored \in Rows PROVE AgedRow(stored) \in Rows
      BY DEF TypeOK
    <3>1. CountDown(stored.left) \in Lives /\ CountDown(stored.expires) \in Lives
      BY CountDownType DEF Rows, Lives
    <3>. QED  BY <3>1 DEF AgedRow, Rows
  <2>. QED  BY <1>14, <2>1, <2>2, <2>3 DEF TimePasses, TypeOK
<1>15. CASE UNCHANGED vars
  BY <1>15 DEF vars, TypeOK
<1>. QED
  BY <1>1, <1>2, <1>3, <1>4, <1>5, <1>6, <1>7, <1>8, <1>9, <1>10, <1>11, <1>12, <1>13,
     <1>14, <1>15 DEF Next, CallEnds

\* The state keeps its shape, for every account, caller, lifetime and bound.
THEOREM TypeCorrect == Spec => []TypeOK
BY TypeInit, TypeNext, PTL DEF Spec

-----------------------------------------------------------------------------
(* Tokens of one account.                                                  *)

OneAccountCall(r) ==
    r.pc = "answered" =>
        r.account = r.sent.account /\ (r.new # NoToken => r.new.account = r.account)

OneAccountLink(r) == r.pc = "exchanged" => r.refresh.account = r.account

\* TokensOfOneAccount, and the same of the answers that are about to be saved.
OneAccount ==
    /\ TokensOfOneAccount
    /\ \A c \in Callers : OneAccountCall(callers[c])
    /\ \A n \in DOMAIN links : OneAccountLink(links[n])

\* What a call or a link becomes by getting older.
LEMMA AgedFields ==
    ASSUME NEW r \in CallType \cup LinkType
    PROVE  /\ Aged(r).pc = r.pc
           /\ r.pc \in {"idle", "unused", "finished", "agreed"} => Aged(r) = r
           /\ r.pc \in {"refreshing", "answered"} => Aged(r).sent = r.sent
           /\ r.pc \in {"answered", "calling", "exchanged"} =>
                 /\ Aged(r).account = r.account
                 /\ Aged(r).age = r.age + 1
                 /\ Aged(r).left = CountDown(r.left)
           /\ r.pc = "answered" => Aged(r).new = r.new
           /\ r.pc = "exchanged" => Aged(r).refresh = r.refresh
<1>1. CASE r.pc \in {"idle", "unused", "finished", "agreed"}
  BY <1>1 DEF Aged
<1>2. CASE r.pc \in {"refreshing", "exchanging"}
  <2>1. Aged(r) = [r EXCEPT !.age = @ + 1]
    BY <1>2 DEF Aged
  <2>. QED  BY <1>2, <2>1, CallFields, LinkFields
<1>3. CASE r.pc \in {"answered", "calling", "exchanged"}
  <2>1. Aged(r) = [r EXCEPT !.age = @ + 1, !.left = CountDown(@)]
    BY <1>3 DEF Aged
  <2>. QED  BY <1>3, <2>1, CallFields, LinkFields
<1>. QED  BY <1>1, <1>2, <1>3, CallFields, LinkFields

\* What time makes of the callers, the links and the row.
LEMMA TimeMoves ==
    ASSUME TypeOK, TimePasses
    PROVE  /\ \A c \in Callers : callers[c] \in CallType /\ callers'[c] = Aged(callers[c])
           /\ DOMAIN links' = DOMAIN links
           /\ \A n \in DOMAIN links : links[n] \in LinkType /\ links'[n] = Aged(links[n])
           /\ stored = NotConnected => stored' = stored
           /\ stored # NotConnected =>
                 /\ stored'.account = stored.account
                 /\ stored'.refresh = stored.refresh
                 /\ stored'.left = CountDown(stored.left)
                 /\ stored'.expires = CountDown(stored.expires)
                 /\ stored' # NotConnected
<1>1. /\ callers' = [c \in Callers |-> Aged(callers[c])]
      /\ links' = [n \in DOMAIN links |-> Aged(links[n])]
      /\ stored' = IF stored = NotConnected THEN stored ELSE AgedRow(stored)
  BY DEF TimePasses
<1>2. ASSUME stored # NotConnected
      PROVE  /\ stored'.account = stored.account
             /\ stored'.refresh = stored.refresh
             /\ stored'.left = CountDown(stored.left)
             /\ stored'.expires = CountDown(stored.expires)
             /\ stored' # NotConnected
  <2>1. stored \in Rows
    BY <1>2 DEF TypeOK
  <2>2. stored' = [stored EXCEPT !.left = CountDown(@), !.expires = CountDown(@)]
    BY <1>1, <1>2 DEF AgedRow
  <2>3. CountDown(stored.left) \in Lives /\ CountDown(stored.expires) \in Lives
    BY <2>1, CountDownType, SpotifyAuthAssumption DEF Rows, Lives
  <2>4. stored' \in Rows
    BY <2>1, <2>2, <2>3 DEF Rows
  <2>. QED  BY <2>1, <2>2, <2>4, SentinelAssumption DEF Rows
<1>. QED  BY <1>1, <1>2 DEF TypeOK

LEMMA OneAccountInit == Init => OneAccount
BY DEF Init, OneAccount, TokensOfOneAccount, OneAccountCall, OneAccountLink, Idle, Unused

LEMMA OneAccountNext == TypeOK /\ OneAccount /\ [Next]_vars => OneAccount'
<1>. SUFFICES ASSUME TypeOK, OneAccount, [Next]_vars PROVE OneAccount'
  OBVIOUS
<1>. USE DEF OneAccount
<1>0. /\ callers \in [Callers -> CallType]
      /\ links \in [1 .. MaxConnects -> LinkType]
      /\ OneAccountCall(Idle) /\ OneAccountLink(Finished) /\ OneAccountLink(Unused)
  BY DEF TypeOK, OneAccountCall, OneAccountLink, Idle, Finished, Unused
<1>1. ASSUME NEW c \in Callers, StartCall(c) PROVE OneAccount'
  <2>1. /\ OneAccountCall(Calling(stored.account, stored.left))
        /\ OneAccountCall(Refreshing(stored.refresh))
    BY DEF OneAccountCall, Calling, Refreshing
  <2>. QED  BY <1>0, <1>1, <2>1 DEF StartCall, TokensOfOneAccount
<1>2. ASSUME NEW c \in Callers, RefreshAnswered(c) PROVE OneAccount'
  <2>. DEFINE sent == callers[c].sent
              next == [account |-> sent.account, serial |-> issued + 1]
              new  == IF sent.account \in Rotating /\ issued < MaxIssued THEN next ELSE NoToken
              call == [pc |-> "answered", sent |-> sent, account |-> sent.account,
                       left |-> Life, new |-> new, age |-> callers[c].age]
  <2>1. callers' = [callers EXCEPT ![c] = call]
    BY <1>2 DEF RefreshAnswered
  <2>2. new # NoToken => new.account = sent.account
    OBVIOUS
  <2>3. OneAccountCall(call)
    BY <2>2 DEF OneAccountCall
  <2>4. UNCHANGED <<stored, links>>
    BY <1>2 DEF RefreshAnswered
  <2>. HIDE DEF call
  <2>. QED  BY <1>0, <2>1, <2>3, <2>4 DEF TokensOfOneAccount
<1>3. ASSUME NEW c \in Callers, RefreshRefused(c) \/ RequestMade(c) \/ CallFails(c)
      PROVE  OneAccount'
  BY <1>0, <1>3 DEF RefreshRefused, RequestMade, CallFails, TokensOfOneAccount
<1>4. ASSUME NEW c \in Callers, SaveRefreshed(c) PROVE OneAccount'
  <2>1. callers[c].pc = "answered" /\ OneAccountCall(callers[c])
    BY <1>4 DEF SaveRefreshed
  <2>2. KeptToken(callers[c]).account = callers[c].account
    BY <2>1 DEF KeptToken, OneAccountCall
  <2>3. TokensOfOneAccount'
    BY <1>4, <2>2 DEF SaveRefreshed, Row, TokensOfOneAccount
  <2>4. OneAccountCall(Calling(callers[c].account, callers[c].left))
    BY DEF OneAccountCall, Calling
  <2>. QED  BY <1>0, <1>4, <2>3, <2>4 DEF SaveRefreshed
<1>5. ASSUME NEW n \in DOMAIN links,
             Callback(n) \/ ExchangeFails(n) \/ \E account \in Accounts : Connect(n, account)
      PROVE  OneAccount'
  <2>1. CASE Callback(n)
    BY <1>0, <2>1 DEF Callback, OneAccountLink, TokensOfOneAccount
  <2>2. CASE ExchangeFails(n)
    BY <1>0, <2>2 DEF ExchangeFails, TokensOfOneAccount
  <2>3. CASE \E account \in Accounts : Connect(n, account)
    BY <1>0, <2>3 DEF Connect, OneAccountLink, TokensOfOneAccount
  <2>. QED  BY <1>5, <2>1, <2>2, <2>3
<1>6. ASSUME NEW n \in DOMAIN links, ExchangeAnswered(n) PROVE OneAccount'
  BY <1>0, <1>6 DEF ExchangeAnswered, OneAccountLink, TokensOfOneAccount
<1>7. ASSUME NEW n \in DOMAIN links, SaveExchanged(n) PROVE OneAccount'
  <2>1. TokensOfOneAccount'
    BY <1>7 DEF SaveExchanged, OneAccountLink, TokensOfOneAccount, Row
  <2>. QED  BY <1>0, <1>7, <2>1 DEF SaveExchanged
<1>8. CASE Disconnect
  BY <1>8 DEF Disconnect, TokensOfOneAccount
<1>9. CASE Crash
  BY <1>0, <1>9 DEF Crash, TokensOfOneAccount
<1>10. CASE TimePasses
  BY <1>0, <1>10, TimeMoves, AgedFields
     DEF TokensOfOneAccount, OneAccountCall, OneAccountLink
<1>11. CASE UNCHANGED vars
  BY <1>11 DEF vars, TokensOfOneAccount
<1>. QED
  BY <1>1, <1>2, <1>3, <1>4, <1>5, <1>6, <1>7, <1>8, <1>9, <1>10, <1>11 DEF Next, CallEnds

\* A refresh that overlaps a reconnect never mixes two accounts in the row.
THEOREM NeverMixed == Spec => []TokensOfOneAccount
<1>1. Spec => []OneAccount
  BY TypeCorrect, OneAccountInit, OneAccountNext, PTL DEF Spec
<1>2. OneAccount => TokensOfOneAccount
  BY DEF OneAccount
<1>. QED  BY <1>1, <1>2, PTL

-----------------------------------------------------------------------------
(* A token handed out is alive when it is used.                            *)

\* How much a token in hand has to live, given how long its request has taken.
InTime(r) ==
    /\ r.pc \in {"answered", "exchanged"} => r.left + r.age >= Life
    /\ r.pc = "calling" => r.left + r.age > MaxDelay

\* The row overstates the life of its token by no more than an answer takes.
Timely ==
    /\ stored # NotConnected => stored.expires <= stored.left + MaxDelay
    /\ \A c \in Callers : InTime(callers[c])
    /\ \A n \in DOMAIN links : InTime(links[n])

LEMMA AgedInTime ==
    ASSUME NEW r \in CallType \cup LinkType, InTime(r) PROVE InTime(Aged(r))
<1>1. CASE r.pc \in {"answered", "calling", "exchanged"}
  <2>1. r.left \in Nat /\ r.age \in Nat
    BY <1>1, CallFields, LinkFields, SpotifyAuthAssumption DEF Lives, Delays
  <2>2. CountDown(r.left) \in Nat /\ CountDown(r.left) >= r.left - 1
    BY <2>1, CountDownType
  <2>3. /\ Aged(r).pc = r.pc
        /\ Aged(r).age = r.age + 1
        /\ Aged(r).left = CountDown(r.left)
    BY <1>1, AgedFields
  <2>. QED  BY <2>1, <2>2, <2>3, SpotifyAuthAssumption DEF InTime
<1>2. CASE r.pc \notin {"answered", "calling", "exchanged"}
  BY <1>2, AgedFields DEF InTime
<1>. QED  BY <1>1, <1>2

LEMMA TimelyInit == Init => Timely
BY DEF Init, Timely, InTime, Idle, Unused

LEMMA TimelyNext == TypeOK /\ Timely /\ [Next]_vars => Timely'
<1>. SUFFICES ASSUME TypeOK, Timely, [Next]_vars PROVE Timely'
  OBVIOUS
<1>. USE SpotifyAuthAssumption DEF Timely
<1>0. /\ callers \in [Callers -> CallType]
      /\ links \in [1 .. MaxConnects -> LinkType]
      /\ InTime(Idle) /\ InTime(Finished)
  BY DEF TypeOK, InTime, Idle, Finished
<1>1. ASSUME NEW c \in Callers, StartCall(c) PROVE Timely'
  <2>1. stored \in Rows /\ stored.left \in Nat /\ stored.expires \in Nat
    BY <1>1 DEF StartCall, TypeOK, Rows, Lives
  <2>2. StillValid(stored) => InTime(Calling(stored.account, stored.left))
    BY <1>1, <2>1 DEF StartCall, StillValid, InTime, Calling
  <2>3. InTime(Refreshing(stored.refresh))
    BY DEF InTime, Refreshing
  <2>. QED  BY <1>0, <1>1, <2>2, <2>3 DEF StartCall
<1>2. ASSUME NEW c \in Callers, RefreshAnswered(c) PROVE Timely'
  <2>. DEFINE sent == callers[c].sent
              new == IF sent.account \in Rotating /\ issued < MaxIssued
                     THEN [account |-> sent.account, serial |-> issued + 1] ELSE NoToken
              call == [pc |-> "answered", sent |-> sent, account |-> sent.account,
                       left |-> Life, new |-> new, age |-> callers[c].age]
  <2>1. callers' = [callers EXCEPT ![c] = call] /\ UNCHANGED <<stored, links>>
    BY <1>2 DEF RefreshAnswered
  <2>2. callers[c].age \in Nat
    BY <1>0, <1>2, CallFields DEF RefreshAnswered, Delays
  <2>3. InTime(call)
    BY <2>2 DEF InTime
  <2>. HIDE DEF call
  <2>. QED  BY <1>0, <2>1, <2>3
<1>3. ASSUME NEW c \in Callers, RefreshRefused(c) \/ RequestMade(c) \/ CallFails(c)
      PROVE  Timely'
  BY <1>0, <1>3 DEF RefreshRefused, RequestMade, CallFails
<1>4. ASSUME NEW c \in Callers, SaveRefreshed(c) PROVE Timely'
  <2>1. callers[c] \in CallType /\ callers[c].pc = "answered" /\ InTime(callers[c])
    BY <1>0, <1>4 DEF SaveRefreshed
  <2>2. /\ callers[c].left \in Nat /\ callers[c].age \in Delays
        /\ callers[c].left + callers[c].age >= Life
    BY <2>1, CallFields DEF InTime, Lives
  <2>3. callers[c].left + MaxDelay >= Life
    BY <2>2 DEF Delays
  <2>4. InTime(Calling(callers[c].account, callers[c].left))
    BY <2>2, <2>3 DEF InTime, Calling
  <2>5. stored'.expires = Life /\ stored'.left = callers[c].left
    BY <1>4 DEF SaveRefreshed, Row
  <2>. QED  BY <1>0, <1>4, <2>3, <2>4, <2>5 DEF SaveRefreshed
<1>5. ASSUME NEW n \in DOMAIN links,
             Callback(n) \/ ExchangeFails(n) \/ \E account \in Accounts : Connect(n, account)
      PROVE  Timely'
  <2>1. CASE Callback(n)
    BY <1>0, <2>1 DEF Callback, InTime
  <2>2. CASE ExchangeFails(n)
    BY <1>0, <2>2 DEF ExchangeFails
  <2>3. CASE \E account \in Accounts : Connect(n, account)
    BY <1>0, <2>3 DEF Connect, InTime
  <2>. QED  BY <1>5, <2>1, <2>2, <2>3
<1>6. ASSUME NEW n \in DOMAIN links, ExchangeAnswered(n) PROVE Timely'
  <2>. DEFINE link == [pc |-> "exchanged", account |-> links[n].account, left |-> Life,
                       refresh |-> [account |-> links[n].account, serial |-> issued + 1],
                       age |-> links[n].age]
  <2>1. links' = [links EXCEPT ![n] = link] /\ UNCHANGED <<stored, callers>>
    BY <1>6 DEF ExchangeAnswered
  <2>2. links[n].age \in Nat
    BY <1>0, <1>6, LinkFields DEF ExchangeAnswered, Delays
  <2>3. InTime(link)
    BY <2>2 DEF InTime
  <2>. HIDE DEF link
  <2>. QED  BY <1>0, <2>1, <2>3
<1>7. ASSUME NEW n \in DOMAIN links, SaveExchanged(n) PROVE Timely'
  <2>1. links[n] \in LinkType /\ links[n].pc = "exchanged" /\ InTime(links[n])
    BY <1>0, <1>7 DEF SaveExchanged
  <2>2. links[n].left + MaxDelay >= Life
    BY <2>1, LinkFields DEF InTime, Lives, Delays
  <2>3. stored'.expires = Life /\ stored'.left = links[n].left
    BY <1>7 DEF SaveExchanged, Row
  <2>. QED  BY <1>0, <1>7, <2>2, <2>3 DEF SaveExchanged
<1>8. CASE Disconnect
  BY <1>8 DEF Disconnect
<1>9. CASE Crash
  BY <1>0, <1>9 DEF Crash
<1>10. CASE TimePasses
  <2>1. stored' # NotConnected => stored'.expires <= stored'.left + MaxDelay
    <3>. SUFFICES ASSUME stored # NotConnected PROVE stored'.expires <= stored'.left + MaxDelay
      BY <1>10, TimeMoves
    <3>1. stored.left \in Nat /\ stored.expires \in Nat
      BY DEF TypeOK, Rows, Lives
    <3>2. stored'.left = CountDown(stored.left) /\ stored'.expires = CountDown(stored.expires)
      BY <1>10, TimeMoves
    <3>. QED  BY <3>1, <3>2 DEF CountDown
  <2>2. /\ \A c \in Callers : InTime(callers'[c])
        /\ \A n \in DOMAIN links' : InTime(links'[n])
    BY <1>10, TimeMoves, AgedInTime
  <2>. QED  BY <2>1, <2>2
<1>11. CASE UNCHANGED vars
  BY <1>11 DEF vars
<1>. QED
  BY <1>1, <1>2, <1>3, <1>4, <1>5, <1>6, <1>7, <1>8, <1>9, <1>10, <1>11 DEF Next, CallEnds

\* The safety margin is enough: no request reaches Spotify with a token that has died,
\* as long as the margin is twice what a request may take.
THEOREM MarginSuffices == Spec => []HandedOutUsable
<1>1. Spec => []Timely
  BY TypeCorrect, TimelyInit, TimelyNext, PTL DEF Spec
<1>2. TypeOK /\ Timely => HandedOutUsable
  <2>. SUFFICES ASSUME TypeOK, Timely, NEW c \in Callers, callers[c].pc = "calling"
                PROVE  callers[c].left > 0
    BY DEF HandedOutUsable
  <2>1. callers[c] \in CallType /\ callers[c].left + callers[c].age > MaxDelay
    BY DEF TypeOK, Timely, InTime
  <2>2. callers[c].left \in Nat /\ callers[c].age \in 0 .. MaxDelay
    BY <2>1, CallFields, SpotifyAuthAssumption DEF Lives, Delays
  <2>. QED  BY <2>1, <2>2, SpotifyAuthAssumption
<1>. QED  BY <1>1, <1>2, TypeCorrect, PTL

-----------------------------------------------------------------------------
(* The account the admin chose stays connected.                            *)

\* ChosenAccountKept, and that a refresh under way is one of those accounts.
ChosenRefreshed ==
    /\ ChosenAccountKept
    /\ BeingRefreshed \subseteq beside \cup {chosen}

LEMMA ChosenInit == Init => ChosenRefreshed
BY DEF Init, ChosenRefreshed, ChosenAccountKept, BeingRefreshed, Idle

LEMMA ChosenNext == TypeOK /\ OneAccount /\ ChosenRefreshed /\ [Next]_vars => ChosenRefreshed'
<1>. SUFFICES ASSUME TypeOK, OneAccount, ChosenRefreshed, [Next]_vars PROVE ChosenRefreshed'
  OBVIOUS
<1>0. callers \in [Callers -> CallType] /\ Idle.pc = "idle"
  BY DEF TypeOK, Idle
<1>a. \A c \in Callers : callers[c].pc \in {"refreshing", "answered"} =>
         callers[c].sent.account \in beside \cup {chosen}
  BY DEF ChosenRefreshed, BeingRefreshed
<1>b. ASSUME ChosenAccountKept',
             \A c \in Callers : callers'[c].pc \in {"refreshing", "answered"} =>
                callers'[c].sent.account \in beside' \cup {chosen'}
      PROVE  ChosenRefreshed'
  BY <1>b DEF ChosenRefreshed, BeingRefreshed
<1>. USE DEF ChosenAccountKept
<1>1. ASSUME NEW c \in Callers, StartCall(c) PROVE ChosenRefreshed'
  <2>1. stored.refresh.account \in beside \cup {chosen}
    BY <1>1 DEF StartCall, OneAccount, TokensOfOneAccount, ChosenRefreshed
  <2>2. /\ Calling(stored.account, stored.left).pc = "calling"
        /\ Refreshing(stored.refresh).sent = stored.refresh
    BY DEF Calling, Refreshing
  <2>3. /\ \A d \in Callers \ {c} : callers'[d] = callers[d]
        /\ callers'[c] \in {Calling(stored.account, stored.left), Refreshing(stored.refresh)}
        /\ UNCHANGED <<stored, chosen, beside>>
    BY <1>0, <1>1 DEF StartCall
  <2>. QED  BY <1>a, <1>b, <2>1, <2>2, <2>3 DEF ChosenRefreshed
<1>2. ASSUME NEW c \in Callers, RefreshAnswered(c) PROVE ChosenRefreshed'
  <2>1. \A d \in Callers \ {c} : callers'[d] = callers[d]
    BY <1>0, <1>2 DEF RefreshAnswered
  <2>2. callers'[c].sent = callers[c].sent /\ callers[c].pc = "refreshing"
    BY <1>0, <1>2 DEF RefreshAnswered
  <2>3. UNCHANGED <<stored, chosen, beside>>
    BY <1>2 DEF RefreshAnswered
  <2>. QED  BY <1>a, <1>b, <2>1, <2>2, <2>3 DEF ChosenRefreshed
<1>3. ASSUME NEW c \in Callers, RefreshRefused(c) \/ RequestMade(c) \/ CallFails(c)
      PROVE  ChosenRefreshed'
  <2>1. UNCHANGED <<stored, chosen, beside>> /\ callers' = [callers EXCEPT ![c] = Idle]
    BY <1>3 DEF RefreshRefused, RequestMade, CallFails
  <2>. QED  BY <1>0, <1>a, <1>b, <2>1 DEF ChosenRefreshed
<1>4. ASSUME NEW c \in Callers, SaveRefreshed(c) PROVE ChosenRefreshed'
  <2>1. callers[c].pc = "answered" /\ callers[c].account = callers[c].sent.account
    BY <1>4 DEF SaveRefreshed, OneAccount, OneAccountCall
  <2>2. stored' \in Rows /\ stored'.account = callers[c].account
    <3>1. callers[c].account \in Accounts /\ callers[c].left \in Lives /\ Life \in Lives
      BY <1>0, <2>1, CallFields, SpotifyAuthAssumption DEF Lives
    <3>2. KeptToken(callers[c]) \in RefreshTokens
      BY <1>0, <2>1, KeptTokenType
    <3>. QED  BY <1>4, <3>1, <3>2 DEF SaveRefreshed, Row, Rows
  <2>3. stored' # NotConnected
    BY <2>2, SentinelAssumption
  <2>4. stored'.account \in beside \cup {chosen} /\ UNCHANGED <<chosen, beside>>
    BY <1>4, <1>a, <2>1, <2>2 DEF SaveRefreshed
  <2>5. /\ \A d \in Callers \ {c} : callers'[d] = callers[d]
        /\ callers'[c].pc = "calling"
    BY <1>0, <1>4 DEF SaveRefreshed, Calling
  <2>. QED  BY <1>a, <1>b, <2>3, <2>4, <2>5
<1>5. ASSUME NEW n \in DOMAIN links,
             \/ Callback(n) \/ ExchangeAnswered(n) \/ ExchangeFails(n)
             \/ \E account \in Accounts : Connect(n, account)
      PROVE  ChosenRefreshed'
  <2>1. UNCHANGED <<stored, callers, chosen, beside>>
    BY <1>5 DEF Callback, ExchangeAnswered, ExchangeFails, Connect
  <2>. QED  BY <1>a, <1>b, <2>1 DEF ChosenRefreshed
<1>6. ASSUME NEW n \in DOMAIN links, SaveExchanged(n) PROVE ChosenRefreshed'
  <2>1. links[n] \in LinkType /\ links[n].pc = "exchanged"
    BY <1>6 DEF SaveExchanged, TypeOK
  <2>2. /\ links[n].account \in Accounts /\ links[n].left \in Lives
        /\ links[n].refresh \in RefreshTokens /\ Life \in Lives
    BY <2>1, LinkFields, SpotifyAuthAssumption DEF Lives
  <2>3. stored' \in Rows /\ stored'.account = links[n].account
    BY <1>6, <2>2 DEF SaveExchanged, Row, Rows
  <2>4. stored' # NotConnected /\ chosen' = stored'.account
    BY <1>6, <2>2, <2>3, SentinelAssumption DEF SaveExchanged, Chosen
  <2>5. beside' = BeingRefreshed /\ UNCHANGED callers
    BY <1>6 DEF SaveExchanged, Chosen
  <2>. QED  BY <1>b, <2>4, <2>5 DEF BeingRefreshed
<1>7. CASE Disconnect
  <2>1. /\ stored' = NotConnected /\ chosen' = NotConnected
        /\ beside' = BeingRefreshed /\ UNCHANGED callers
    BY <1>7 DEF Disconnect, Chosen
  <2>. QED  BY <1>b, <2>1 DEF BeingRefreshed
<1>8. CASE Crash
  <2>1. /\ UNCHANGED <<stored, chosen, beside>>
        /\ \A c \in Callers : callers'[c].pc = "idle"
    BY <1>0, <1>8 DEF Crash
  <2>. QED  BY <1>b, <2>1 DEF ChosenRefreshed
<1>9. CASE TimePasses
  <2>1. UNCHANGED <<chosen, beside>>
    BY <1>9 DEF TimePasses
  <2>2. \A c \in Callers : callers'[c].pc \in {"refreshing", "answered"} =>
           callers'[c].sent.account \in beside \cup {chosen}
    BY <1>9, <1>a, TimeMoves, AgedFields
  <2>3. ChosenAccountKept'
    BY <1>9, <2>1, TimeMoves, AgedFields DEF ChosenRefreshed
  <2>. QED  BY <1>b, <2>1, <2>2, <2>3
<1>10. CASE UNCHANGED vars
  BY <1>a, <1>b, <1>10 DEF vars, ChosenRefreshed
<1>. QED
  BY <1>1, <1>2, <1>3, <1>4, <1>5, <1>6, <1>7, <1>8, <1>9, <1>10 DEF Next, CallEnds

\* What the admin chose last is what is connected, or an account whose refresh was under
\* way at that moment and took the row back.
THEOREM ChoiceKept == Spec => []ChosenAccountKept
<1>1. Spec => [](TypeOK /\ OneAccount)
  BY TypeCorrect, OneAccountInit, OneAccountNext, PTL DEF Spec
<1>2. Spec => []ChosenRefreshed
  BY <1>1, ChosenInit, ChosenNext, PTL DEF Spec
<1>3. ChosenRefreshed => ChosenAccountKept
  BY DEF ChosenRefreshed
<1>. QED  BY <1>2, <1>3, PTL

-----------------------------------------------------------------------------
(* The refresh token in the row is alive.                                  *)

Asking(r) == r.pc \in {"refreshing", "answered"}

\* A token that a later answer may end: it is stored, or was sent.
Used(t) ==
    \/ stored # NotConnected /\ stored.refresh = t
    \/ \E c \in Callers : Asking(callers[c]) /\ callers[c].sent = t

\* A token that was issued and is not saved yet.
HeldByCaller(c, t) == callers[c].pc = "answered" /\ callers[c].new = t
HeldByLink(n, t) == links[n].pc = "exchanged" /\ links[n].refresh = t

\* The token that Spotify issues next is new to everybody.
Numbered ==
    \A t \in RefreshTokens :
        \/ Used(t) \/ t \in accepted
        \/ \E c \in Callers : HeldByCaller(c, t)
        \/ \E n \in DOMAIN links : HeldByLink(n, t)
        => t.serial <= issued

\* A token that is not saved yet is in one place, and nobody else knows it.
HeldOnce ==
    \A t \in RefreshTokens :
        /\ \A c \in Callers : HeldByCaller(c, t) =>
              /\ ~Used(t)
              /\ \A d \in Callers : HeldByCaller(d, t) => d = c
              /\ \A n \in DOMAIN links : ~HeldByLink(n, t)
        /\ \A n \in DOMAIN links : HeldByLink(n, t) =>
              /\ ~Used(t)
              /\ \A m \in DOMAIN links : HeldByLink(m, t) => m = n

\* What is about to be saved is alive.  An answer without a new token came for a token
\* that nothing ends.
SavesAlive ==
    /\ \A c \in Callers : callers[c].pc = "answered" =>
          /\ KeptToken(callers[c]) \in accepted
          /\ callers[c].new = NoToken =>
                callers[c].sent.account \notin Rotating \/ issued >= MaxIssued
    /\ \A n \in DOMAIN links : links[n].pc = "exchanged" => links[n].refresh \in accepted

Alive ==
    /\ Numbered
    /\ HeldOnce
    /\ RefreshTokenAlive
    /\ faults = 0 => SavesAlive

LEMMA AliveInit == Init => Alive
BY DEF Init, Alive, Numbered, HeldOnce, RefreshTokenAlive, SavesAlive, Used, Asking,
       HeldByCaller, HeldByLink, Idle, Unused

\* A step that brings no new token and ends none.
LEMMA NoNewTokens ==
    ASSUME Alive,
           UNCHANGED <<accepted, issued>>,
           faults' = 0 => faults = 0,
           stored' # NotConnected => stored # NotConnected /\ stored'.refresh = stored.refresh,
           \A c \in Callers : Asking(callers'[c]) =>
               callers'[c].pc = callers[c].pc /\ callers'[c].sent = callers[c].sent,
           \A c \in Callers : callers'[c].pc = "answered" => callers'[c].new = callers[c].new,
           faults' = 0 => \A c \in Callers :
               callers[c].pc = "answered" => callers'[c].pc = "answered",
           DOMAIN links' = DOMAIN links,
           \A n \in DOMAIN links : links'[n].pc = "exchanged" =>
               links[n].pc = "exchanged" /\ links'[n].refresh = links[n].refresh
    PROVE  Alive'
<1>1. \A t : Used(t)' => Used(t)
  BY DEF Used, Asking
<1>2. \A t : \A c \in Callers : HeldByCaller(c, t)' => HeldByCaller(c, t)
  BY DEF HeldByCaller, Asking
<1>3. \A t : \A n \in DOMAIN links : HeldByLink(n, t)' => HeldByLink(n, t)
  BY DEF HeldByLink
<1>4. Numbered'
  BY <1>1, <1>2, <1>3 DEF Alive, Numbered
<1>5. HeldOnce'
  BY <1>1, <1>2, <1>3 DEF Alive, HeldOnce
<1>6. RefreshTokenAlive'
  BY DEF Alive, RefreshTokenAlive, Asking
<1>7. faults' = 0 => SavesAlive'
  BY DEF Alive, SavesAlive, KeptToken, Asking
<1>. QED  BY <1>4, <1>5, <1>6, <1>7 DEF Alive

LEMMA AliveStartCall ==
    ASSUME TypeOK, Alive, NEW c \in Callers, StartCall(c) PROVE Alive'
<1>1. /\ callers \in [Callers -> CallType] /\ stored # NotConnected
      /\ UNCHANGED <<stored, links, accepted, issued, faults>>
      /\ callers[c].pc = "idle"
      /\ callers' = [callers EXCEPT ![c] = IF StillValid(stored)
                        THEN Calling(stored.account, stored.left) ELSE Refreshing(stored.refresh)]
  BY DEF StartCall, TypeOK
<1>2. /\ Calling(stored.account, stored.left).pc = "calling"
      /\ Refreshing(stored.refresh).pc = "refreshing"
      /\ Refreshing(stored.refresh).sent = stored.refresh
  BY DEF Calling, Refreshing
<1>3. /\ callers'[c].pc \in {"calling", "refreshing"}
      /\ callers'[c].pc = "refreshing" => callers'[c].sent = stored.refresh
      /\ \A d \in Callers \ {c} : callers'[d] = callers[d]
  BY <1>1, <1>2
<1>. HIDE DEF StartCall
<1>4. \A t : Used(t)' => Used(t)
  BY <1>1, <1>3 DEF Used, Asking
<1>5. \A t : \A d \in Callers : HeldByCaller(d, t)' => HeldByCaller(d, t)
  BY <1>1, <1>3 DEF HeldByCaller
<1>6. \A t : \A n \in DOMAIN links : HeldByLink(n, t)' <=> HeldByLink(n, t)
  BY <1>1 DEF HeldByLink
<1>7. Numbered'
  BY <1>1, <1>4, <1>5, <1>6 DEF Alive, Numbered
<1>8. HeldOnce'
  BY <1>1, <1>4, <1>5, <1>6 DEF Alive, HeldOnce
<1>9. RefreshTokenAlive'
  BY <1>1, <1>3 DEF Alive, RefreshTokenAlive
<1>10. faults' = 0 => SavesAlive'
  BY <1>1, <1>3 DEF Alive, SavesAlive, KeptToken
<1>. QED  BY <1>7, <1>8, <1>9, <1>10 DEF Alive

LEMMA AliveRefreshAnswered ==
    ASSUME TypeOK, Alive, NEW c \in Callers, RefreshAnswered(c) PROVE Alive'
<1>. DEFINE sent == callers[c].sent
            next == [account |-> sent.account, serial |-> issued + 1]
            rotates == sent.account \in Rotating /\ issued < MaxIssued
<1>1. /\ callers \in [Callers -> CallType] /\ issued \in Nat
      /\ callers[c].pc = "refreshing" /\ sent \in accepted /\ sent \in RefreshTokens
      /\ UNCHANGED <<stored, links, faults>>
  BY CallFields DEF RefreshAnswered, TypeOK
<1>2. /\ callers'[c].pc = "answered" /\ callers'[c].sent = sent
      /\ callers'[c].new = IF rotates THEN next ELSE NoToken
      /\ \A d \in Callers \ {c} : callers'[d] = callers[d]
  BY <1>1 DEF RefreshAnswered
<1>3. /\ accepted' = IF rotates THEN (accepted \ {sent}) \cup {next} ELSE accepted
      /\ issued' = IF rotates THEN issued + 1 ELSE issued
  BY DEF RefreshAnswered
<1>4. next \in RefreshTokens /\ next.serial = issued + 1
  BY <1>1 DEF RefreshTokens
<1>5. /\ ~Used(next) /\ next \notin accepted
      /\ \A d \in Callers : ~HeldByCaller(d, next)
      /\ \A n \in DOMAIN links : ~HeldByLink(n, next)
  BY <1>1, <1>4 DEF Alive, Numbered
<1>6. Used(sent)
  BY <1>1 DEF Used, Asking
<1>. HIDE DEF sent, next
<1>7. \A t : Used(t)' <=> Used(t)
  BY <1>1, <1>2 DEF Used, Asking, sent
<1>8. \A t \in RefreshTokens : \A d \in Callers :
         HeldByCaller(d, t)' => HeldByCaller(d, t) \/ (d = c /\ t = next /\ rotates)
  BY <1>2, SentinelAssumption DEF HeldByCaller
<1>9. \A t : \A n \in DOMAIN links : HeldByLink(n, t)' <=> HeldByLink(n, t)
  BY <1>1 DEF HeldByLink
<1>10. \A t \in RefreshTokens : t.serial \in Nat
  BY DEF RefreshTokens
<1>11. Numbered'
  BY <1>1, <1>3, <1>4, <1>7, <1>8, <1>9, <1>10 DEF Alive, Numbered
<1>12. HeldOnce'
  BY <1>1, <1>5, <1>7, <1>8, <1>9 DEF Alive, HeldOnce
<1>13. RefreshTokenAlive'
  BY <1>1, <1>2, <1>3 DEF Alive, RefreshTokenAlive
<1>14. ASSUME faults' = 0 PROVE SavesAlive'
  <2>1. SavesAlive
    BY <1>1, <1>14 DEF Alive
  <2>2. KeptToken(callers'[c]) \in accepted'
    BY <1>1, <1>2, <1>3, <1>4, SentinelAssumption DEF KeptToken
  <2>3. callers'[c].new = NoToken => sent.account \notin Rotating \/ issued' >= MaxIssued
    BY <1>1, <1>2, <1>3, <1>4, SentinelAssumption, SpotifyAuthAssumption
  <2>4. ASSUME NEW d \in Callers \ {c}, callers[d].pc = "answered"
        PROVE  /\ KeptToken(callers[d]) \in accepted'
               /\ callers[d].new = NoToken =>
                     callers[d].sent.account \notin Rotating \/ issued' >= MaxIssued
    <3>1. callers[d] \in CallType
      BY <1>1
    <3>2. KeptToken(callers[d]) \in accepted
      BY <2>1, <2>4 DEF SavesAlive
    <3>3. rotates => KeptToken(callers[d]) # sent
      <4>1. CASE callers[d].new = NoToken
        BY <1>1, <2>1, <2>4, <4>1, SpotifyAuthAssumption DEF SavesAlive, KeptToken
      <4>2. CASE callers[d].new # NoToken
        <5>1. HeldByCaller(d, callers[d].new) /\ callers[d].new \in RefreshTokens
          BY <2>4, <3>1, <4>2, CallFields DEF HeldByCaller
        <5>. QED  BY <1>6, <4>2, <5>1 DEF Alive, HeldOnce, KeptToken
      <4>. QED  BY <4>1, <4>2
    <3>4. callers[d].new = NoToken =>
             callers[d].sent.account \notin Rotating \/ issued >= MaxIssued
      BY <2>1, <2>4 DEF SavesAlive
    <3>5. issued >= MaxIssued => issued' >= MaxIssued
      BY <1>1, <1>3, SpotifyAuthAssumption
    <3>. QED  BY <1>3, <3>2, <3>3, <3>4, <3>5
  <2>5. ASSUME NEW n \in DOMAIN links, links[n].pc = "exchanged"
        PROVE  links[n].refresh \in accepted'
    <3>1. links[n].refresh \in RefreshTokens
      BY <2>5, LinkFields DEF TypeOK
    <3>2. links[n].refresh # sent
      BY <1>6, <2>5, <3>1 DEF Alive, HeldOnce, HeldByLink
    <3>. QED  BY <1>3, <2>1, <2>5, <3>2 DEF SavesAlive
  <2>. QED  BY <1>1, <1>2, <2>2, <2>3, <2>4, <2>5 DEF SavesAlive
<1>. QED  BY <1>11, <1>12, <1>13, <1>14 DEF Alive

LEMMA AliveSaveRefreshed ==
    ASSUME TypeOK, Alive, NEW c \in Callers, SaveRefreshed(c) PROVE Alive'
<1>. DEFINE kept == KeptToken(callers[c])
<1>1. /\ callers \in [Callers -> CallType] /\ callers[c].pc = "answered"
      /\ UNCHANGED <<links, accepted, issued, faults>>
      /\ stored'.refresh = kept
  BY DEF SaveRefreshed, Row, TypeOK
<1>2. /\ callers'[c].pc = "calling"
      /\ \A d \in Callers \ {c} : callers'[d] = callers[d]
  BY <1>1 DEF SaveRefreshed, Calling
<1>3. kept \in RefreshTokens
  BY <1>1, KeptTokenType
<1>4. Used(kept) \/ HeldByCaller(c, kept)
  BY <1>1 DEF Used, Asking, HeldByCaller, KeptToken
<1>. HIDE DEF kept
<1>5. \A t : Used(t)' => Used(t) \/ t = kept
  BY <1>1, <1>2 DEF Used, Asking
<1>6. \A t : \A d \in Callers : HeldByCaller(d, t)' => d # c /\ HeldByCaller(d, t)
  BY <1>2 DEF HeldByCaller
<1>7. \A t : \A n \in DOMAIN links : HeldByLink(n, t)' <=> HeldByLink(n, t)
  BY <1>1 DEF HeldByLink
<1>8. Numbered'
  BY <1>1, <1>4, <1>5, <1>6, <1>7 DEF Alive, Numbered
<1>9. HeldOnce'
  BY <1>1, <1>4, <1>5, <1>6, <1>7 DEF Alive, HeldOnce
<1>10. faults = 0 => kept \in accepted
  BY <1>1 DEF Alive, SavesAlive, kept
<1>11. RefreshTokenAlive'
  BY <1>1, <1>10 DEF RefreshTokenAlive
<1>12. faults' = 0 => SavesAlive'
  BY <1>1, <1>2 DEF Alive, SavesAlive, KeptToken
<1>. QED  BY <1>8, <1>9, <1>11, <1>12 DEF Alive

LEMMA AliveExchangeAnswered ==
    ASSUME TypeOK, Alive, NEW n \in DOMAIN links, ExchangeAnswered(n) PROVE Alive'
<1>. DEFINE next == [account |-> links[n].account, serial |-> issued + 1]
<1>1. /\ links \in [1 .. MaxConnects -> LinkType] /\ issued \in Nat
      /\ links[n].pc = "exchanging" /\ links[n].account \in Accounts
      /\ UNCHANGED <<stored, callers, faults>>
      /\ accepted' = accepted \cup {next} /\ issued' = issued + 1
  BY LinkFields DEF ExchangeAnswered, TypeOK
<1>2. /\ links'[n].pc = "exchanged" /\ links'[n].refresh = next
      /\ DOMAIN links' = DOMAIN links
      /\ \A m \in DOMAIN links \ {n} : links'[m] = links[m]
  BY <1>1 DEF ExchangeAnswered
<1>3. next \in RefreshTokens /\ next.serial = issued + 1
  BY <1>1 DEF RefreshTokens
<1>4. /\ ~Used(next)
      /\ \A d \in Callers : ~HeldByCaller(d, next)
      /\ \A m \in DOMAIN links : ~HeldByLink(m, next)
  BY <1>1, <1>3 DEF Alive, Numbered
<1>. HIDE DEF next
<1>5. \A t : Used(t)' <=> Used(t)
  BY <1>1 DEF Used
<1>6. \A t : \A d \in Callers : HeldByCaller(d, t)' <=> HeldByCaller(d, t)
  BY <1>1 DEF HeldByCaller
<1>7. \A t : \A m \in DOMAIN links :
         HeldByLink(m, t)' => HeldByLink(m, t) \/ (m = n /\ t = next)
  BY <1>2 DEF HeldByLink
<1>8. \A t \in RefreshTokens : t.serial \in Nat
  BY DEF RefreshTokens
<1>9. Numbered'
  BY <1>1, <1>2, <1>3, <1>5, <1>6, <1>7, <1>8 DEF Alive, Numbered
<1>10. HeldOnce'
  BY <1>1, <1>2, <1>4, <1>5, <1>6, <1>7 DEF Alive, HeldOnce
<1>11. RefreshTokenAlive'
  BY <1>1 DEF Alive, RefreshTokenAlive
<1>12. faults' = 0 => SavesAlive'
  BY <1>1, <1>2, SpotifyAuthAssumption DEF Alive, SavesAlive, KeptToken
<1>. QED  BY <1>9, <1>10, <1>11, <1>12 DEF Alive

LEMMA AliveSaveExchanged ==
    ASSUME TypeOK, Alive, NEW n \in DOMAIN links, SaveExchanged(n) PROVE Alive'
<1>. DEFINE kept == links[n].refresh
<1>1. /\ links \in [1 .. MaxConnects -> LinkType] /\ links[n].pc = "exchanged"
      /\ UNCHANGED <<callers, accepted, issued, faults>>
      /\ stored'.refresh = kept
  BY DEF SaveExchanged, Row, TypeOK
<1>2. /\ links'[n].pc = "finished"
      /\ DOMAIN links' = DOMAIN links
      /\ \A m \in DOMAIN links \ {n} : links'[m] = links[m]
  BY <1>1 DEF SaveExchanged, Finished
<1>3. kept \in RefreshTokens /\ HeldByLink(n, kept)
  BY <1>1, LinkFields DEF HeldByLink
<1>. HIDE DEF kept
<1>4. \A t : Used(t)' => Used(t) \/ t = kept
  BY <1>1 DEF Used
<1>5. \A t : \A d \in Callers : HeldByCaller(d, t)' <=> HeldByCaller(d, t)
  BY <1>1 DEF HeldByCaller
<1>6. \A t : \A m \in DOMAIN links : HeldByLink(m, t)' => m # n /\ HeldByLink(m, t)
  BY <1>2 DEF HeldByLink
<1>7. Numbered'
  BY <1>1, <1>2, <1>3, <1>4, <1>5, <1>6 DEF Alive, Numbered
<1>8. HeldOnce'
  BY <1>1, <1>2, <1>3, <1>4, <1>5, <1>6 DEF Alive, HeldOnce
<1>9. RefreshTokenAlive'
  BY <1>1 DEF Alive, SavesAlive, RefreshTokenAlive, kept
<1>10. faults' = 0 => SavesAlive'
  BY <1>1, <1>2 DEF Alive, SavesAlive, KeptToken
<1>. QED  BY <1>7, <1>8, <1>9, <1>10 DEF Alive

LEMMA AliveNext == TypeOK /\ Alive /\ [Next]_vars => Alive'
<1>. SUFFICES ASSUME TypeOK, Alive, [Next]_vars PROVE Alive'
  OBVIOUS
<1>0. /\ callers \in [Callers -> CallType] /\ links \in [1 .. MaxConnects -> LinkType]
      /\ faults \in Nat
      /\ Idle.pc = "idle" /\ Finished.pc = "finished"
  BY DEF TypeOK, Idle, Finished
<1>1. ASSUME NEW c \in Callers, RefreshRefused(c) \/ RequestMade(c) PROVE Alive'
  <2>1. /\ \A d \in Callers : callers'[d] = callers[d] \/ (callers'[d] = Idle /\ d = c)
        /\ callers[c].pc # "answered"
        /\ UNCHANGED <<stored, links, accepted, issued, faults>>
    BY <1>0, <1>1 DEF RefreshRefused, RequestMade
  <2>. QED  BY <1>0, <2>1, NoNewTokens DEF Asking
<1>2. ASSUME NEW c \in Callers, CallFails(c) PROVE Alive'
  <2>1. /\ \A d \in Callers : callers'[d] = callers[d] \/ callers'[d] = Idle
        /\ UNCHANGED <<stored, links, accepted, issued>> /\ faults' # 0
    BY <1>0, <1>2 DEF CallFails
  <2>. QED  BY <1>0, <2>1, NoNewTokens DEF Asking
<1>3. ASSUME NEW n \in DOMAIN links,
             Callback(n) \/ ExchangeFails(n) \/ \E account \in Accounts : Connect(n, account)
      PROVE  Alive'
  <2>1. /\ UNCHANGED <<stored, callers, accepted, issued>> /\ (faults' = 0 => faults = 0)
        /\ DOMAIN links' = DOMAIN links
    BY <1>0, <1>3 DEF Callback, ExchangeFails, Connect
  <2>2. \A m \in DOMAIN links : links'[m] = links[m] \/ links'[m].pc # "exchanged"
    <3>1. CASE Callback(n)
      BY <1>0, <3>1 DEF Callback
    <3>2. CASE ExchangeFails(n)
      BY <1>0, <3>2 DEF ExchangeFails
    <3>3. CASE \E account \in Accounts : Connect(n, account)
      BY <1>0, <3>3 DEF Connect
    <3>. QED  BY <1>3, <3>1, <3>2, <3>3
  <2>. QED  BY <2>1, <2>2, NoNewTokens
<1>4. CASE Disconnect
  BY <1>4, NoNewTokens DEF Disconnect
<1>5. CASE Crash
  <2>1. /\ \A c \in Callers : callers'[c] = Idle
        /\ DOMAIN links' = DOMAIN links
        /\ \A n \in DOMAIN links : links'[n] = links[n] \/ links'[n] = Finished
        /\ UNCHANGED <<stored, accepted, issued>> /\ faults' # 0
    BY <1>0, <1>5 DEF Crash
  <2>. QED  BY <1>0, <2>1, NoNewTokens DEF Asking
<1>6. CASE TimePasses
  <2>1. UNCHANGED <<accepted, issued, faults>>
    BY <1>6 DEF TimePasses
  <2>2. \A c \in Callers : /\ callers'[c].pc = callers[c].pc
                           /\ Asking(callers[c]) => callers'[c].sent = callers[c].sent
                           /\ callers[c].pc = "answered" => callers'[c].new = callers[c].new
    BY <1>6, TimeMoves, AgedFields DEF Asking
  <2>3. \A n \in DOMAIN links : /\ links'[n].pc = links[n].pc
                                /\ links[n].pc = "exchanged" => links'[n].refresh = links[n].refresh
    BY <1>6, TimeMoves, AgedFields
  <2>4. /\ DOMAIN links' = DOMAIN links
        /\ stored' # NotConnected => stored # NotConnected /\ stored'.refresh = stored.refresh
    BY <1>6, TimeMoves
  <2>5. \A c \in Callers : Asking(callers'[c]) <=> Asking(callers[c])
    BY <2>2 DEF Asking
  <2>. QED  BY <2>1, <2>2, <2>3, <2>4, <2>5, NoNewTokens
<1>7. CASE UNCHANGED vars
  BY <1>7, NoNewTokens DEF vars
<1>. QED
  BY <1>1, <1>2, <1>3, <1>4, <1>5, <1>6, <1>7, AliveStartCall, AliveRefreshAnswered,
     AliveSaveRefreshed, AliveExchangeAnswered, AliveSaveExchanged DEF Next, CallEnds

\* Without a lost answer, the stored refresh token is one that Spotify accepts, or its
\* successor is about to be saved, for any number of callers and connections at once.
THEOREM RowStaysAlive == Spec => []RefreshTokenAlive
<1>1. Spec => []Alive
  BY TypeCorrect, AliveInit, AliveNext, PTL DEF Spec
<1>2. Alive => RefreshTokenAlive
  BY DEF Alive
<1>. QED  BY <1>1, <1>2, PTL
=============================================================================
