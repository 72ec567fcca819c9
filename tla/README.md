# Event Playlist: a TLA+ verification project

Event Playlist lets the guests of a venue request songs.  Requests wait in a
list; an admin approves or denies them, or a background loop approves them after
a while; an approved track is inserted into a live Spotify playlist a few tracks
ahead of the one playing; a second background loop takes it out again once it
has played.

Everything runs in **one process and one asyncio event loop** (`app/main.py`):
the web handlers, the cleanup worker (`poll_forever`) and the timeout loop
(`timeout_loop_forever`).  Between two `await`s nothing else runs, so there are
no data races in memory; but every call to Spotify is an `await`, the tables are
read before and written after such calls, every database helper commits on its
own, and the truth about the playlist is kept by another company.  The
specifications are about what goes on *between* the awaits.

## 1. Inventory

| Component | State | Operations | Talks to |
|---|---|---|---|
| Request table (`models/requests.py`) | `requests`: id, uri, status `pending`/`added`, requested_at, reminder_sent_at | create, list, mark added, delete, mark reminded, counts | form, approval, timeout loop |
| Playlist state (`models/playlist_state.py`) | `playlist_state`: one row per insertion, played_at, removed_at | create, newest active entry of a track, mark played, mark removed | approval, worker |
| Approval and denial (`services/playlist_ops.py`) | local variables over three awaits | `approve_request`, `deny_request` | both tables, audit log, Spotify |
| Timeout loop (`worker/request_timeout.py`) | none between ticks; two lists of `Request` objects in a tick | reminders, automatic approvals | request table, mail, approval |
| Cleanup worker (`worker/poller.py`) | `last_known_uri` in memory | repeat mode, track over?, look up, delete, record | playlist state, Spotify |
| Spotify client (`spotify/client.py`) | none | listing, insert, delete, now playing, repeat, search | Spotify |
| Configuration (`models/config.py`) | one row | read, save | everything |
| Audit log (`models/audit_log.py`) | append-only rows | write, count | approval, login, worker |
| Public form (`routers/public_form.py`, `services/rate_limit.py`) | device cookie | search, select, submit | request table, Spotify |
| Public menu (`routers/public_menu.py`) | none | now playing, status by code, pages of the playlist | Spotify |
| Spotify connection (`spotify/auth_manager.py`, `token_store.py`) | one row of tokens | valid token or refresh, connect, disconnect | Spotify accounts |
| Admin login (`routers/admin_auth.py`, `login_lockout.py`) | admin row, session, failures in the audit log | login, lockout, forced password change | audit log |
| Start-up (`main.py`, `db.py`, `admin_seed.py`) | schema_migrations, password file | migrate, seed, start the loops | all tables |

What makes each hard, and what makes it correct:

* **Approval.** It reads a request, awaits Spotify three times, then writes.
  Another approval of the same request, a denial, a new request that inherits
  the rowid, a settings change or an edit of the playlist can fall into any of
  the awaits; a restart can fall between any two commits; a POST may be applied
  after its caller gave up.  Correct: a request is added or denied, once and for
  good; an added request has an entry, an entry stands for a real insertion; a
  failure or a retry inserts no second copy.
* **Timeout loop.** It works through lists read before its awaits.  Correct: one
  reminder per request, no approval before its time, every overdue request is
  decided, and nothing else is done than an admin could have done.
* **Cleanup worker.** It compares the tracks of two ticks, looks a track up and
  deletes it *by position*, while approvals insert, settings change and the venue
  edits.  Correct: it deletes only tracks it has an insertion of on record, it
  does so eventually although calls fail, and records it only when done.
* **Form.** The rate limit is checked, Spotify awaited, the row inserted, so that
  submissions of a device that run side by side are all counted too late.
  Correct: without such overlap the limit is kept.
* **Listing and menu.** A playlist of more than one page is read in several calls
  and may change between them; items without a track are dropped but counted.
  Correct: an unedited playlist is read in order and up to a known place,
  insertions hide nothing, Next leads through the whole playlist.
* **Spotify connection.** Every caller may refresh the one row of tokens, and
  saves what it got whatever the row holds by then: another caller's tokens, those
  of another account, or nothing.  Some accounts get a new refresh token with
  each answer, and the old one dies.  Correct: the row never mixes two accounts,
  never keeps a dead refresh token, and no token is dead when it is used; what
  the admin chose stays, or gives way only to a refresh that was under way.
* **Start-up.** A script is committed statement by statement, its record only
  later, and no script can be run twice.  Correct: a record is never ahead of
  its script, nothing is served on an incomplete schema, and a database that no
  stop has torn always comes up.
* **Admin.** The row and the password file, then the password, the onboarding mark
  and the file are written one after the other.  Correct: someone can log in after
  any stop, nobody gets past the forced change without it, a lockout ends.

`PROJECT.json` lists the hazards with their lines.

## 2. Modules

```
 Requests   PlaylistState   SpotifyPlaylist        tables and playlist as values
      \        /      \        /     \
       Approval        Poller         PlaylistPages   components, one action per await
       |   |   \          \
       |   |    RequestQueue (abstract, INSTANCE)
       |   RequestTimeout                          Approval + the timeout loop
       |     |
       |   MCRequestTimeout   MCPoller             instances for TLC
     MCApproval

 Requests - Submission - MCSubmission              the form's rate limit
 SpotifyAuth                                       the connection
 Startup - AdminAuth - MCAdminAuth                 migrations; seeding, login, onboarding

 SpotifyPlaylistProofs                             TLAPS: items inserted and deleted
     |          |            \
 ApprovalProofs PollerProofs  PlaylistPagesProofs
     |
 RequestTimeoutProofs   SubmissionProofs   SpotifyAuthProofs   AdminAuthProofs
```

Each `...Proofs` module extends the module it is about; `AdminAuthProofs` is about
Startup, too.

**Requests** is the table as a function from rowids to rows, one operator per
SQL statement.  `id INTEGER PRIMARY KEY` without AUTOINCREMENT means that the
largest id is given out again after its row is deleted (`IsNextRowid`), so a row
also carries a *ticket*, the number of the submission, which the program does
not have.

**PlaylistState** is the sequence of insertions; rows are never deleted, so an
entry's index is its rowid and the order of `added_at`.

**SpotifyPlaylist** is a playlist as Spotify keeps it: items with a uri and (for
the properties only) an owner.  What the program sees of it is the listing:
items whose track is null are dropped (`get_playlist_tracks`), though Spotify
counts them in positions.  Spotify's side is external: an insertion is accepted
at a position up to the length, a deletion only where the named track is.

**Approval** is `services/playlist_ops.py`:

| Code | Action |
|---|---|
| `create_request` | `CreateRequest` |
| `approve_request` up to the first await | `StartApprove` |
| ... the listing and the duplicate check | `ListPlaylist` |
| ... now playing and the position | `LocatePlayback` |
| ... Spotify handles the POST | `SpotifyInsert` |
| ... the three commits | `RecordInsertion` |
| `deny_request` | `DenyRequest` |
| a call raises | `CallFails` |
| a restart; between the commits of an approval; of a denial | `Crash`, `CrashRecording`, `CrashDenying` |
| a POST applied after its caller gave up | `LateInsert` |
| `update_config` | `UpdateConfig` |
| the player; edits in the Spotify client | `ChangePlayback`, `EditPlaylist` |

The insertion and the arrival of its answer are two actions, so a lost answer
and a restart after a successful POST are behaviours.  Three histories serve the
properties: `submissions` and `applied` know what was asked for and inserted, and
`contested` notes a track that comes into a playlist while another insertion of it is
past its listing (`Posting`, `Abandoned`), or that the venue adds a second time.  A token refresh at the
start of each call is part of the call: it either succeeds or the call fails.

**RequestQueue** is what guests and admins are told: a submission waits until it
is added or denied, once, and no track waits twice.  `Approval` implements it
with `waiting` and `added` read off the table.

**RequestTimeout** extends Approval with `run_timeout_tick`: the clock and both
lists are read once (`StartTimeoutTick`, `AfterReminder`), mails are sent in
a thread (`SendReminder`) and marked (`MarkReminderSent`), or the thread or the mark
raises, which is logged (`ReminderFails`); each approval is an approval by the approver `System`
(`Proceed`, `SystemCalls`).  The loop goes from one approval to the next without
an await, and so do approvals that fail before their first await; `proceed` is
that moment and no handler runs in it.  `requested_at` and `reminder_sent_at`
are in `stamps`, beside the table.  `mails` and `unmarked` are histories: the
reminders tried, and those whose mark was lost to a restart or an exception.

**Poller** is `run_poll_tick` and `poll_forever`:

| Code | Action |
|---|---|
| `get_config` | `StartTick` |
| `set_repeat_mode`, its error swallowed | `SetRepeat`, `RepeatRefused` |
| now playing, `_handle_track_finished` up to its first await | `ReadNowPlaying` |
| the listing, "already gone" | `ListPlaylist` |
| Spotify handles the DELETE | `SpotifyDelete` |
| `mark_removed` | `RecordRemoval` |
| the tick raises | `TickFails` |
| a restart | `Crash` |
| `approve_request` up to the first await; the listing and the duplicate check | `ApprovalStarts`, `ApprovalLists` |
| ... Spotify handles the POST, perhaps after its caller gave up | `ApprovalPosts` |
| ... the entry | `ApprovalRecords` |
| ... nothing to anchor to; a call raises | `ApprovalStops`, `ApprovalFails` |

The approvals are those of Approval, several at a time, without the request list:
which track is approved and where it lands are left open, so that the answer to
the now-playing call, which only moves the position, is no step of its own.  The
history `doubled` has the tracks that were ever in two places of the playlists at a
time.

**Submission** is the form's `submit` with `check_rate_limit`: `Submit` runs up to
the await of the track lookup, `LookupFails` and `TrackFound` after it.
A row has the columns `device_token`, `client_ip` and `requested_at`, which the limit
counts by; `besideOfDevice` and `besideOfAddress` are histories, how many submissions of
a device and of an address were under way when its last one was admitted.
The limits and the window are constants, the two windows being equal in the
code.  Approvals and denials are single steps here: what matters is that a denial
takes a row away.

**PlaylistPages** is `get_playlist_track_uris` and the menu's `playlist` handler over
one playlist: `StartWalk`, `FetchPage` (a call each), `WalkFails`; `OpenMenu`,
`FollowNext`, `FollowPrevious`; and between any two of them `InsertTrack`,
`DeleteTrack`, `TrackTakenDown`.  Approval and Poller take a listing in one step
(`InListing`, `ListingIndex`): their playlists fit in one page, which is one call.

**SpotifyAuth** is the connection:

| Code | Action |
|---|---|
| `get_valid_access_token` up to the await | `StartCall` |
| ... Spotify answers, or refuses the refresh token | `RefreshAnswered`, `RefreshRefused` |
| ... `save_tokens` | `SaveRefreshed` |
| the request the token was fetched for | `RequestMade` |
| a call raises or its answer is lost | `CallFails`, `ExchangeFails` |
| `connect`, with the state cookie | `Connect` |
| `callback` up to the await, Spotify's answer, the rest | `Callback`, `ExchangeAnswered`, `SaveExchanged` |
| `disconnect` | `Disconnect` |
| a restart; the clock | `Crash`, `TimePasses` |

Time is kept in countdowns: `left` is what an access token has to live at Spotify,
`expires` what the row believes, `age` how long a request has taken.  The row
believes too much by the time the answer took, which is what
`EXPIRY_SAFETY_MARGIN` is for.  The rest of the project treats a refresh as part
of the call it precedes, which succeeds or raises.

**Startup** is `run_migrations` and `lifespan`: `StartProcess`, `BeginScript` (which
commits the record of the script before), `RunStatement`, `StatementFails`,
`MigrationsEnd`, `CommitSeed`, `StartServing`, and `Stop` anywhere, perhaps for a
newer image.  **AdminAuth** extends it with `seed_default_admin_if_needed`
(`CreateAdmin`, `WritePasswordFile`, `SkipSeeding`), `login_submit` (`FailedLogin`,
`SuccessfulLogin`), `change_password_submit` (`ChangePassword`, or `StopChanging`
between its commits) and `logout`.  `failures` is the audit log as the lockout reads
it: failed logins by name and age.

## 3. Runs

All `pass` runs terminate with no error; a `violation` run stops at a behaviour
of the code that breaks what its documentation says.

| Run | Instance | What it shows |
|---|---|---|
| `Approval` | 2 tracks, 2 approvers, 1 playlist, 2 submissions, 1 failure, 1 edit, late POSTs; 2.4 million states | tables consistent with each other and with Spotify under every interleaving; second copies come from overlaps only; implements `RequestQueue` |
| `Timeout` | the loop, 2 submissions, timeouts 0 and 3, 1 failure or restart, 1 mark that raises, late POSTs; 0.4 million states | no second reminder unless a mark was lost; the loop implements `Approval!Spec`; every overdue request is decided |
| `Poller` | 2 tracks, 2 insertions by 2 approvers, 2 default playlists or none, both with the venue's track, and one failure, restart, saved setting or edit by hand; 0.8 million states | deletes only tracks on record; a recorded removal happened; what was marked played leaves the playlist; the repeat mode follows the settings |
| `Submission` | 2 submissions at a time, 2 devices, 2 addresses, 3 rows, limits 1 and 2; 1.1 million states | the limits are overrun by overlap only, one row for each submission beside the last |
| `SpotifyAuth` | 2 callers, 2 accounts, one of them rotating, 2 connections, 2 failures or restarts; 0.3 million states | the row stays usable and of one account; no dead token is used; only a refresh under way brings an account back; a connection that stays can be used for ever |
| `Admin` | 3 migrations of 1, 3 and 2 statements, 3 stops, updates, 2 passwords, limit 2, window 2; 0.25 million states | records are true, what is served is migrated, the admin keeps a way in, the lockout neither overshoots nor lasts |
| `PlaylistPages` | playlists of up to 4 items, pages of 2, 2 edits; 4.3 million states | the walk and the menu read the playlist they say they read |
| `ApprovalDenied` | violation of `DeniedStaysOut` | a request denied during its approval reaches the playlist (SPEC.md:7) |
| `ApprovalReusedId` | violation of `AddedMeansInserted` | a request becomes added through the approval of a denied one whose id it got, its track never inserted (SPEC.md:104) |
| `TimeoutReusedId` | violation of `NoEarlyAutoApproval` | the loop approves a request seconds old, through a reused id (request_timeout.py:37) |
| `TimeoutRemindedTwice` | violation of `RemindedOnce` | a restart between mail and mark sends the reminder again (request_timeout.py:39) |
| `SubmissionOverrun` | violation of `DeviceLimitKept` | two submissions side by side put a device over its limit (SPEC.md:203) |

**Bounds.** Two submissions are what the rowid reuse needs (one denied, one
inheriting its id); two approvers are all that a race on one request needs, and
the approvers are symmetric in the code.  One failure suffices for every single
cut; the proofs have any number.  The venue's playlists have one track: enough for
a position before, at and after the anchor.  Positions, tracks and edits by hand
are exhausted within these sizes; the other distances, negative ones too, are the
proofs'.  The clock of `RequestTimeout` counts minutes up to `MaxTime`; a timeout
of 3 has a reminder at age 1, a timeout of 0 has none and every request is overdue
at once, as `admin_config.py` allows.  `Timeout` has the loop as its only approver:
approvals by an admin beside the loop are in `TimeoutReusedId` and, as approvers
among each other, in `Approval`, and the theorems about the loop have any number of
them.  `Poller` has a single upset of any kind (`MaxUpsets`): combinations, a lost
answer and then an edit, say, are the proofs'; and its insertions land behind the
first track (`LeastAhead`), as they do for every distance of one or more, where the
proofs have the head of the playlist, too.
`Submission` has limits of 1 and 2 where the code has 5 and 30: a limit per device
below the one per address, so that each refuses while the other would not, and
a window of one tick of a clock of two, so that rows leave it.
`SpotifyAuth` has a token live 3 ticks with a margin of 2 and answers that take up
to 1: the smallest values with Life > Margin >= 2 MaxDelay, so that both limits
are met exactly (the code has 3600 s, 60 s, and the HTTP client's timeout of a few
seconds).  `Admin` has a script of one statement and scripts of several, a
database left by any earlier release, and an update at any stop.  A walk over four
items in pages of two and two edits in between has an insertion before, on and
behind the page boundary, and pages of unavailable items only.

**Where the properties stop.** Several documented promises are not kept by the code;
five are violation runs, and the properties that pass say exactly how far the rest
holds.

* Two approvals of one request both pass the duplicate check and insert its track
  twice, although SPEC.md:214 has the check there "instead of silently creating a
  duplicate"; `NoTrackTwice` says that an overlap with the time between listing and
  POST (`contested`) is the only cause.
* `AddedHasEntry` goes by the rowid, which is what the commits share: the entry
  behind an added request may be that of a denied one (`ApprovalReusedId`).
* `DeletesOnlyOnRecord` is kept for each track, not for each item.  The worker cannot
  tell its insertion from a copy of the venue's: when the default playlist changes
  to one with such a copy, or the venue adds one, or a lost answer makes a deletion
  be tried again, the copy is deleted, although SPEC.md:228 says that such tracks
  "are never touched by the worker" (README.md:178 of the repository lets the default
  playlist change at any time).  In the same way a retry may delete an insertion
  of the same track that has not played.
* `RemovedMeansGone` excepts tracks that were in the playlists twice at a time
  (`doubled`): of two copies the worker deletes the first and records the newest
  entry.
* `CleanupHappens` excepts a restart, which forgets `last_known_uri`, and an unavailable
  item in the playlist, which shifts positions and makes each deletion fail
  (`CleanupLost`).  It speaks of cleanups due between two ticks: a tick that started
  while no playlist was configured loses the one it was about to make.
* `InsertionsRecorded` is stated for behaviours without a failure.
* Positions: null items are dropped from the listing and counted by Spotify, so a
  track may land elsewhere than configured, and a distance below zero may give the
  position -1, which Spotify refuses on every try.  No property is about the place
  an insertion takes.
* `DeviceOverrunIsOverlap` and `AddressOverrunIsOverlap` bound the overrun by the
  submissions beside the last one, of which the code allows any number.  They speak
  of the rows still in the table: a denial gives its place back.
* `RemindedAgainUnmarked` allows one mail more for each lost mark.  A mark that meets a
  reused id makes another request look reminded, which then gets no mail at all.

The walk loses a track when an item in front of it is deleted between two pages
(`shrunk`), and ends at the first page of unavailable items only, though
client.py:135 says that it walks every page: `WalkExact` says that it returns what is
before that page and nothing else, and `WalkMissesNothing` excepts such walks
(`blank`).  A menu page may be empty although Next led to it, when the items left are unavailable.

`ChosenAccountKept` has the account of a refresh that was under way when the admin
chose (`beside`): such a refresh saves its tokens over a disconnect, or over another
account, and nothing else does.  `RefreshTokenAlive` is stated for behaviours
without a failure, and `ConnectionRenewed` for accounts whose refresh token does not rotate: for the
others a lost answer or a restart before `save_tokens` ends the connection until
the admin connects again.  `HandedOutUsable` needs every request to
end within half the margin.

`StartsUnlessTorn` excepts a torn database (`Torn`): a stop between two statements
of a script, or between a script and the commit of its record, makes every later
start fail on a table or column that is there already; README.md:174 of the
repository has migrations re-applied to whatever state a file is in.  `WayIn` excepts
a stop between the admin's row and the password file (`cut`), after which nobody
can log in.  `OnboardedByChange` is about who typed the password, not which: the
change accepts the seeded one again.  A stop before the file is deleted leaves a
file whose password no longer opens anything.  The lockout is per username, and
failing again in each window shuts its owner out with it.

The models also reach, with no property of their own: a lost answer to a deletion
leaves an entry active, so a copy the venue adds later is deleted; a restart
between two ticks forgets the track to be cleaned up, which
docs/superpowers/specs/2026-07-25-pending-request-auto-approval-design.md:55
accepts; a restart after an insertion leaves a track
that nothing removes; a restart in a denial loses its audit record; a track added
and not yet played can be submitted again, although SPEC.md 6.1 excludes it; a tick that first sees a request past its timeout mails its reminder
and approves it at once.

**Fairness.** `FairTimeoutSpec` and Poller's `FairSpec` assume weak fairness of the
loop's own next step: `poll_forever` and `timeout_loop_forever` run until shutdown,
wait a bounded time between ticks, catch every exception, and the HTTP client's
timeout makes each call return or raise.  SpotifyAuth's `FairSpec` assumes that some
caller starts a call again and again, as the worker's ticks do, and that each call
under way ends.  AdminAuth's assumes that a start goes on, that the container is
started again (`restart: unless-stopped` in docker-compose.yml) and that time
passes; stops are bounded.  Nothing is assumed of guests, admins, the venue or
Spotify's answers, which may fail up to the bound.  `OverdueDecided`
assumes that from some time on a track of the default playlist is playing, since
no position can be computed otherwise; `RepeatFollowsConfig` assumes that a
device stays active.

**Deadlock** is checked in every run; there is always a setting to save, a
tick to run, a page to read or time to pass.

## 4. Proofs

Every safety property of the passing runs is proved, for every value of the constants
that the named assumptions of the modules (`TracksAssumption`, `ApprovalAssumption`,
`PollerAssumption`, ...) admit, which say what kind of value each constant is and how
bounds relate.  Few of them are inductive as they stand; the strengthenings are named
below, and TLC checked each on the instance of its run before it was proved.  A theorem about a state is `Spec => []Inv`, with no
hypothesis beyond the assumptions.

**SpotifyPlaylistProofs** has what the others need of `InsertItem` and `DeleteItem`: the
result is a playlist, and every item of it is the new one or one that was there, at
its place or one further (`InsertItemOrigin` and its like).

**ApprovalProofs**

* `TypeCorrect`; `OnePending`, `AddedEntry`, `EntryInserted`, `AuditTrue`: four safety
  invariants of the run, from `IInv`, which adds `TicketsTrue`: a row and an approval under
  way know the track that was submitted under their ticket, no two rows share a
  ticket, and an approval past its insertion has its ticket in `applied`.  The delicate
  step is `RecordInsertion`, whose rowid may by then belong to another request or to
  none: `AddedHasEntry` speaks of the id, which is what the commits share, and survives;
  that it cannot say more is what `ApprovalReusedId` shows.
* `RecordsAll`: `InsertionsRecorded`, from `InsertionsTracked`: an insertion has its entry
  or an approval about to write it, and no POST is left behind.
* `NothingTwice`: `NoTrackTwice`, from `OnceInv`: a track that an insertion past its
  listing is about to put into a playlist (`Outstanding`) is not there yet, unless it is
  contested, and approved items are the only copies of theirs (`StillUnlisted`,
  `ApprovedOnce`).  No hypotheses: approvers, failures, late POSTs and edits are
  arbitrary.
* `AddedForGood`: the action property `AddedIsFinal`.
* `Refinement`: `Spec => QueueSpec`, step by step: a submission, a commit of
  `mark_request_added` and a deletion are the only steps that are not stutters.

**RequestTimeoutProofs**

* `LoopImplementsApproval`: `TimeoutSpec => Spec`.  Each step of the loop leaves Approval's
  variables alone or is a step of the approver `System`.  So the seven invariants
  proved of Approval (`SafeWithLoop`) and the promise to the guests (`QueueWithLoop`)
  hold with the loop running, for every timeout.
* `TimeoutTypeCorrect`: the stamps follow the rows through reused ids, and the loop awaits an
  approval of System exactly while one is under way.
* `OneReminder`: `RemindedAgainUnmarked`, from `SnapshotsTrue` (a request that still has a
  row has the one its reminder names) and `MailsCounted`: a request that had one mail
  more than it lost marks is marked or gone, or will be before the loop mails
  again.  The mark goes by an id that may be another request's by then; that other
  request then loses its reminder, never gets a second.

**PollerProofs**

* `TypeCorrect`: a tick past the now-playing answer has a playlist, an entry and the
  track that is over.
* `DeletionsOnRecord`, `RemovalsTrue`: `DeletesOnlyOnRecord` and `RemovedMeansGone`, from
  `IInv`: entries, approvals and items know the track of their insertion
  (`TicketsTrue`), a track that is not on record as doubled is in one place at most
  (`DoublesNoted`), the entry a tick holds is played and not removed
  (`HeldEntryPlayed`), and an insertion whose deletion Spotify has answered is gone
  (`AboutToRecord`), and stays gone.  No hypotheses: playlists, approvers, settings,
  edits, unavailable items, lost answers, late POSTs and restarts are arbitrary.

**SubmissionProofs**

* `TypeCorrect`; `DeviceOverrun`, `AddressOverrun`: for every limit, window and number
  of handlers.  A step forgets rows or calls (`Forgets`), admits one call while the
  rows are below the limit (`Admits`), or turns a call into a row (`Writes`).  Rows and
  calls together grow in the second only, where they come to the limit and the
  calls beside the new one at most.

**PlaylistPagesProofs**.  `Shown` is a recursive function, and what it computes is proved
without an induction theorem: of the lengths at which a claim fails there would be
a smallest one (`LeastBad`).  So the function exists and satisfies its equation
(`ShownExists`, `ShownTable`), and the listing of a prefix and of the page behind it make
up the listing of both (`ShownParts`).

* `TypeCorrect`; `MissesNothing`: `WalkMissesNothing`, from `StillAhead`: a track that is there
  all the time has been read or stands behind the offset, and insertions only move it
  further back.
* `ReadsExactly`: `WalkExact`, from `ReadSoFar`: the walk has read what is before its offset
  and met no page without a track; `MenuShowsAll` and `NextLeads`: `MenuComplete` and
  `NextLeadsOn`, from `SeenSoFar`: what has been read is the listing up to the offset.

**SpotifyAuthProofs**, for any accounts, callers and connections at once and every lifetime
and margin that `SpotifyAuthAssumption` admits (`SentinelAssumption` says that "no token" is
not a token):

* `TypeCorrect`.
* `NeverMixed`: `TokensOfOneAccount`, from `OneAccount`: an answer that is about to be
  saved is of one account, too.
* `MarginSuffices`: `HandedOutUsable`, from `Timely`: the row overstates a token's life
  by at most `MaxDelay`, and a token in hand has lost no more than its age.  It needs
  `Margin >= 2 * MaxDelay`, once for the answer and once for the request.
* `ChoiceKept`: `ChosenAccountKept`, from `ChosenRefreshed`: every refresh is of the chosen
  account or of one that was being refreshed when it was chosen.
* `RowStaysAlive`: `RefreshTokenAlive`, from `Alive`: the next token is new to everybody
  (`Numbered`), a token not saved yet is in one place and was never sent
  (`HeldOnce`), and what is about to be saved is alive (`SavesAlive`).  The delicate
  step is `RefreshAnswered`, which ends the token it was sent: nobody who is about
  to save something holds that one.

**AdminAuthProofs**

* Of Startup: `StartupTypeCorrect`, and `RecordsTrue` and `ServedIsMigrated` from `StartupInv`:
  the open record, too, is true, and from the end of the migrations on the release's
  migrations are all on record.  AdminAuth implements Startup (`ImplementsStartup`), so
  that both hold with the seeding and the handlers (`RecordsTrueWithAdmin`).
* `TypeCorrect`, whose part about the lockout is `WindowKept`: a failure adds one to the sum over
  the window and is let in below the limit only, and time takes the oldest away
  (`OneMoreFailure`, `OlderFailures`).  The sum is a recursive function, proved about as
  `Shown` is.
* `AdminKeepsWayIn` from `KnownPassword`, which says what the password is between the row
  and the file; `OnboardedTyped`.

**Left to TLC.** The liveness properties, which need fairness and ENABLED: `OverdueDecided`,
`CleanupHappens`, `RepeatFollowsConfig`, `ConnectionRenewed`, `StartsUnlessTorn`,
`LockoutExpires`.  The violation runs are counterexamples, not theorems.

## 5. Not modelled

* A listing of several pages inside Approval and Poller: their listing is one step,
  which `PlaylistPages` justifies for a playlist that holds still meanwhile.
* One module of everything.  Each component meets the others as the steps it can tell
  apart (approvals in Poller and Submission, the worker's deletions in
  PlaylistPages, handlers in RequestTimeout); the two pairs that share more than
  that, Approval with the timeout loop and Startup with AdminAuth, are composed.
* `require_admin_approval`, which the code stores and never reads.
* The poll interval and the failure of a tick to come on time: the time between two
  ticks is arbitrary.  The orderly shutdown: a stop may come anywhere.
* The scope of the tokens and their encryption, password hashing, reference codes
  (a submission that finds none free ends like a failed lookup), the form's
  honeypot and its cookie; the session is a flag that ends with `Logout`.
* Failing SQL statements (a full disk, a lock held longer than the driver
  waits), templates, CSRF, the reverse proxy, Spotify's rate limits.

## 6. Plan

1. Done: Requests, PlaylistState, SpotifyPlaylist, Approval with RequestQueue,
   RequestTimeout, Poller, Submission, PlaylistPages, SpotifyAuth, Startup, AdminAuth;
   proofs of every safety property the runs check.
2. Proofs next: abstract specifications of the worker (an insertion is removed at most
   once, and only by the worker or the venue) and of the form, and that Poller and
   Submission implement them.
3. Model next: the form's cookie (a response that overtakes another gives the browser
   an older token).
