---------------------------- MODULE SpotifyAuth ----------------------------
(***************************************************************************)
(* The connection to the venue's Spotify account: the single row of        *)
(* app/spotify/token_store.py, get_valid_access_token of auth_manager.py,  *)
(* which every call to Spotify starts with, and the connect, callback and  *)
(* disconnect handlers of app/routers/admin_spotify.py.                    *)
(*                                                                         *)
(* A refresh is awaited, so it runs beside other refreshes of the same     *)
(* row, beside a disconnect and beside a reconnect, and saves what it got  *)
(* whatever happened meanwhile.  Time is kept as countdowns: an access     *)
(* token has "left" to live at Spotify, the row believes "expires", which  *)
(* is later by the time the answer took.                                   *)
(*                                                                         *)
(* Spotify's accounts service is external.  For some accounts a refresh    *)
(* brings a new refresh token and ends the old one; for the others the     *)
(* answer has none and the old one stays.  The scope, the encryption of    *)
(* the columns and the audit record of a disconnect are left out.          *)
(***************************************************************************)
EXTENDS Naturals

CONSTANTS Accounts, Rotating,    \* Spotify accounts, those whose refresh tokens rotate
          Callers,               \* the handlers and loops that call Spotify
          Life, Margin,          \* expires_in, EXPIRY_SAFETY_MARGIN
          MaxDelay,              \* the longest a request to Spotify takes
          NotConnected, NoToken,
          MaxConnects, MaxIssued, MaxFaults   \* bounds of the model

ASSUME SpotifyAuthAssumption ==
    /\ Rotating \subseteq Accounts
    /\ Life \in Nat /\ Margin \in Nat /\ MaxDelay \in Nat
    /\ MaxConnects \in Nat /\ MaxIssued \in Nat /\ MaxFaults \in Nat
    /\ Life > Margin /\ Margin >= 2 * MaxDelay

VARIABLES stored,    \* the row of spotify_auth, or NotConnected
          callers,   \* each caller's way through get_valid_access_token and its request
          links,     \* the connections the admin started, by the state of each
          cookie,    \* the state in the browser's cookie, 0 when it has none
          accepted,  \* the refresh tokens Spotify accepts
          issued,    \* how many refresh tokens Spotify has issued
          faults,    \* failed requests and restarts so far
          chosen,    \* history: the account the admin last connected, or NotConnected
          beside     \* history: the accounts whose refresh was under way at that moment

vars == <<stored, callers, links, cookie, accepted, issued, faults, chosen, beside>>

RefreshTokens == [account : Accounts, serial : Nat \ {0}]

Lives == 0 .. Life
Delays == 0 .. MaxDelay

Rows == [account : Accounts, left : Lives, refresh : RefreshTokens, expires : Lives]

ASSUME SentinelAssumption ==
    NotConnected \notin Accounts \cup Rows /\ NoToken \notin RefreshTokens

Row(account, left, refresh) ==
    [account |-> account, left |-> left, refresh |-> refresh, expires |-> Life]

Idle == [pc |-> "idle"]
Refreshing(sent) == [pc |-> "refreshing", sent |-> sent, age |-> 0]
Calling(account, left) == [pc |-> "calling", account |-> account, left |-> left, age |-> 0]

Unused == [pc |-> "unused"]

\* The accounts that a refresh is under way for.
BeingRefreshed ==
    {callers[c].sent.account :
        c \in {d \in Callers : callers[d].pc \in {"refreshing", "answered"}}}

LinksUnderWay == {n \in DOMAIN links : links[n].pc \in {"exchanging", "exchanged"}}

Init ==
    /\ stored = NotConnected
    /\ callers = [c \in Callers |-> Idle]
    /\ links = [n \in 1 .. MaxConnects |-> Unused]
    /\ cookie = 0
    /\ accepted = {}
    /\ issued = 0
    /\ faults = 0
    /\ chosen = NotConnected
    /\ beside = {}

-----------------------------------------------------------------------------
(* get_valid_access_token, and the request it is for.                      *)

\* Mutant: the margin is forgotten.
StillValidWithoutMargin(row) == row.expires > 0

\* Mutant: the margin has the wrong sign.
StillValidWithWrongSign(row) == row.expires + Margin > 0

StillValid(row) == row.expires > Margin

\* Up to the await of the refresh, or all of it when the stored token will do.
StartCall(c) ==
    /\ callers[c].pc = "idle"
    /\ stored # NotConnected
    /\ callers' = [callers EXCEPT ![c] =
                      IF StillValid(stored) THEN Calling(stored.account, stored.left)
                                            ELSE Refreshing(stored.refresh)]
    /\ UNCHANGED <<stored, links, cookie, accepted, issued, faults, chosen, beside>>

\* Spotify answers a refresh, with a new refresh token or without one.
RefreshAnswered(c) ==
    /\ callers[c].pc = "refreshing"
    /\ callers[c].sent \in accepted
    /\ LET sent == callers[c].sent
           next == [account |-> sent.account, serial |-> issued + 1]
           rotates == sent.account \in Rotating /\ issued < MaxIssued
       IN  /\ callers' = [callers EXCEPT ![c] =
                 [pc |-> "answered", sent |-> sent, account |-> sent.account, left |-> Life,
                  new |-> IF rotates THEN next ELSE NoToken, age |-> @.age]]
           /\ accepted' = IF rotates THEN (accepted \ {sent}) \cup {next} ELSE accepted
           /\ issued' = IF rotates THEN issued + 1 ELSE issued
    /\ UNCHANGED <<stored, links, cookie, faults, chosen, beside>>

\* A refresh token that Spotify does not know any more: raise_for_status.
RefreshRefused(c) ==
    /\ callers[c].pc = "refreshing"
    /\ callers[c].sent \notin accepted
    /\ callers' = [callers EXCEPT ![c] = Idle]
    /\ UNCHANGED <<stored, links, cookie, accepted, issued, faults, chosen, beside>>

\* Mutant: a new refresh token is ignored.
KeptTokenAlwaysOld(call) == call.sent

\* Mutant: no default when the answer has no refresh token.
KeptTokenMayBeNone(call) == call.new

\* Mutant: the default is the row of now, not the one read before the await.
KeptTokenOfNow(call) ==
    IF call.new # NoToken THEN call.new
    ELSE IF stored # NotConnected THEN stored.refresh ELSE call.sent

\* token_response.get("refresh_token", stored.refresh_token)
KeptToken(call) == IF call.new # NoToken THEN call.new ELSE call.sent

\* The answer arrives: the row is written, whatever it holds by now.
SaveRefreshed(c) ==
    /\ callers[c].pc = "answered"
    /\ stored' = Row(callers[c].account, callers[c].left, KeptToken(callers[c]))
    /\ callers' = [callers EXCEPT ![c] = Calling(@.account, @.left)]
    /\ UNCHANGED <<links, cookie, accepted, issued, faults, chosen, beside>>

\* The request that the token was fetched for reaches Spotify.
RequestMade(c) ==
    /\ callers[c].pc = "calling"
    /\ callers' = [callers EXCEPT ![c] = Idle]
    /\ UNCHANGED <<stored, links, cookie, accepted, issued, faults, chosen, beside>>

\* A request fails or its answer is lost.
CallFails(c) ==
    /\ callers[c].pc # "idle"
    /\ faults < MaxFaults
    /\ faults' = faults + 1
    /\ callers' = [callers EXCEPT ![c] = Idle]
    /\ UNCHANGED <<stored, links, cookie, accepted, issued, chosen, beside>>

-----------------------------------------------------------------------------
(* The admin's handlers.                                                   *)

\* connect: a new state replaces the one in the cookie, and the admin is sent to
\* Spotify, where they agree for the account they are logged in with.
Connect(n, account) ==
    /\ links[n] = Unused
    /\ \A m \in 1 .. n - 1 : links[m] # Unused
    /\ links' = [links EXCEPT ![n] = [pc |-> "agreed", account |-> account]]
    /\ cookie' = n
    /\ UNCHANGED <<stored, callers, accepted, issued, faults, chosen, beside>>

\* callback, up to the await of the exchange.  Any other state is answered by a 400.
Callback(n) ==
    /\ links[n].pc = "agreed"
    /\ cookie = n
    /\ links' = [links EXCEPT ![n] = [pc |-> "exchanging", account |-> @.account, age |-> 0]]
    /\ UNCHANGED <<stored, callers, cookie, accepted, issued, faults, chosen, beside>>

\* Spotify takes the code and issues tokens.
ExchangeAnswered(n) ==
    /\ links[n].pc = "exchanging"
    /\ LET refresh == [account |-> links[n].account, serial |-> issued + 1]
       IN  /\ links' = [links EXCEPT ![n] =
                 [pc |-> "exchanged", account |-> @.account, left |-> Life,
                  refresh |-> refresh, age |-> @.age]]
           /\ accepted' = accepted \cup {refresh}
           /\ issued' = issued + 1
    /\ UNCHANGED <<stored, callers, cookie, faults, chosen, beside>>

Chosen(account) ==
    /\ chosen' = account
    /\ beside' = BeingRefreshed

Finished == [pc |-> "finished"]

\* The tokens are saved and the response deletes the cookie, a newer one too.
SaveExchanged(n) ==
    /\ links[n].pc = "exchanged"
    /\ stored' = Row(links[n].account, links[n].left, links[n].refresh)
    /\ links' = [links EXCEPT ![n] = Finished]
    /\ cookie' = 0
    /\ Chosen(links[n].account)
    /\ UNCHANGED <<callers, accepted, issued, faults>>

\* The exchange fails: the code is used up.
ExchangeFails(n) ==
    /\ n \in LinksUnderWay
    /\ faults < MaxFaults
    /\ faults' = faults + 1
    /\ links' = [links EXCEPT ![n] = Finished]
    /\ UNCHANGED <<stored, callers, cookie, accepted, issued, chosen, beside>>

\* Mutant: a disconnect forgets the access token only.
DisconnectAccessOnly ==
    /\ stored # NotConnected
    /\ stored' = [stored EXCEPT !.expires = 0]
    /\ Chosen(NotConnected)
    /\ UNCHANGED <<callers, links, cookie, accepted, issued, faults>>

\* disconnect: delete_tokens.
Disconnect ==
    /\ stored # NotConnected
    /\ stored' = NotConnected
    /\ Chosen(NotConnected)
    /\ UNCHANGED <<callers, links, cookie, accepted, issued, faults>>

-----------------------------------------------------------------------------

\* The process restarts; the row, the browser and Spotify stay as they are.
Crash ==
    /\ faults < MaxFaults
    /\ faults' = faults + 1
    /\ callers' = [c \in Callers |-> Idle]
    /\ links' = [n \in DOMAIN links |-> IF n \in LinksUnderWay THEN Finished ELSE links[n]]
    /\ UNCHANGED <<stored, cookie, accepted, issued, chosen, beside>>

Ages == {callers[c].age : c \in {d \in Callers : callers[d].pc # "idle"}}
            \cup {links[n].age : n \in LinksUnderWay}

CountDown(n) == IF n = 0 THEN 0 ELSE n - 1

AgedRow(row) == [row EXCEPT !.left = CountDown(@), !.expires = CountDown(@)]

\* What is under way gets older, and a token it holds has less to live.
Aged(r) ==
    CASE r.pc \in {"refreshing", "exchanging"} -> [r EXCEPT !.age = @ + 1]
      [] r.pc \in {"answered", "calling", "exchanged"} ->
            [r EXCEPT !.age = @ + 1, !.left = CountDown(@)]
      [] OTHER -> r

TimePasses ==
    /\ \A age \in Ages : age < MaxDelay
    /\ stored' = IF stored = NotConnected THEN stored ELSE AgedRow(stored)
    /\ callers' = [c \in Callers |-> Aged(callers[c])]
    /\ links' = [n \in DOMAIN links |-> Aged(links[n])]
    /\ UNCHANGED <<cookie, accepted, issued, faults, chosen, beside>>

CallEnds(c) ==
    RefreshAnswered(c) \/ RefreshRefused(c) \/ SaveRefreshed(c) \/ RequestMade(c)

Next ==
    \/ \E c \in Callers : StartCall(c) \/ CallEnds(c) \/ CallFails(c)
    \/ \E n \in DOMAIN links, account \in Accounts : Connect(n, account)
    \/ \E n \in DOMAIN links :
          Callback(n) \/ ExchangeAnswered(n) \/ SaveExchanged(n) \/ ExchangeFails(n)
    \/ Disconnect
    \/ Crash
    \/ TimePasses

Spec == Init /\ [][Next]_vars

\* The cleanup worker calls Spotify on every tick, and a call returns or raises.
FairSpec ==
    /\ Spec
    /\ WF_vars(\E c \in Callers : StartCall(c))
    /\ \A c \in Callers : WF_vars(CallEnds(c))

-----------------------------------------------------------------------------
(* Properties.                                                             *)

CallType ==
    {Idle} \cup [pc : {"refreshing"}, sent : RefreshTokens, age : Delays]
           \cup [pc : {"answered"}, sent : RefreshTokens, account : Accounts, left : Lives,
                 new : RefreshTokens \cup {NoToken}, age : Delays]
           \cup [pc : {"calling"}, account : Accounts, left : Lives, age : Delays]

LinkType ==
    {Unused, Finished} \cup [pc : {"agreed"}, account : Accounts]
        \cup [pc : {"exchanging"}, account : Accounts, age : Delays]
        \cup [pc : {"exchanged"}, account : Accounts, left : Lives,
              refresh : RefreshTokens, age : Delays]

\* The state keeps its shape: a row always has a refresh token.
TypeOK ==
    /\ stored \in Rows \cup {NotConnected}
    /\ callers \in [Callers -> CallType]
    /\ links \in [1 .. MaxConnects -> LinkType]
    /\ cookie \in 0 .. MaxConnects
    /\ accepted \subseteq RefreshTokens
    /\ issued \in Nat /\ faults \in Nat
    /\ chosen \in Accounts \cup {NotConnected}
    /\ beside \subseteq Accounts

\* The row never mixes two accounts: a refresh that was under way during a reconnect
\* (save_tokens after the await) writes both tokens of its own account.
TokensOfOneAccount == stored # NotConnected => stored.refresh.account = stored.account

\* Two callers that refresh the same row, one of them refused, and refreshes that
\* overlap a reconnect never leave a refresh token behind that Spotify has ended,
\* unless its successor is about to be saved or an answer was lost.
RefreshTokenAlive ==
    stored # NotConnected /\ faults = 0 =>
        \/ stored.refresh \in accepted
        \/ \E c \in Callers : callers[c].pc = "answered" /\ callers[c].sent = stored.refresh

\* A token that get_valid_access_token hands out is alive when the request it is for
\* reaches Spotify, although the row overstates its life by the time the answer took:
\* EXPIRY_SAFETY_MARGIN covers both delays.
HandedOutUsable == \A c \in Callers : callers[c].pc = "calling" => callers[c].left > 0

\* What the admin chose last, an account or none, is what is connected, and the only
\* account that can come back in its place is one whose refresh was under way when it was
\* chosen: disconnect (admin_spotify.py:94, "only forgets the app's own stored tokens")
\* and callback stop no refresh, and save_tokens after its await takes the row back.
ChosenAccountKept ==
    IF stored = NotConnected THEN chosen = NotConnected
                             ELSE stored.account \in beside \cup {chosen}

Connected(account) == stored # NotConnected /\ stored.account = account

\* An account that stays connected can be used for ever: through failed refreshes and
\* restarts, the callers come back to a living token.
ConnectionRenewed ==
    \A account \in Accounts \ Rotating :
        <>[]Connected(account) =>
            []<>(\E c \in Callers : callers[c].pc = "calling" /\ callers[c].left > 0)
=============================================================================
