# Verification of fortigate-vpn-linux-gui

TLA+ specifications of the FortiGate VPN GUI for Linux, checked with TLC on small instances
and, for most invariants of the privileged helper, the VPN backend, the network settings, the
browser sign-in, the charon plugin, the profiles, the window, the updates and the diagnostics,
proved with TLAPS for every instance. Paths below are relative to `src/src/fortigate_vpn_gui/`.

* [The system](#the-system)
* [Modules](#modules)
* [Runs](#runs)
* [Disagreements between code and documentation](#disagreements-between-code-and-documentation)
* [Proofs](#proofs)
* [What is not modelled](#what-is-not-modelled)
* [Plan](#plan)

## The system

An unprivileged PySide6 program talks JSON lines over the standard streams of a root helper that
`pkexec` starts. The helper runs one child: `openfortivpn` for SSL profiles, or a private
strongSwan `charon` for IPsec profiles, and it changes two settings of the host for IPsec: DNS of
the link that carries the VPN address, and an explicit `/32` route to the gateway.

| Component | State it keeps | Operations | Talks to | What is hard | Correct when |
|---|---|---|---|---|---|
| Helper sessions (`helper/main.py`, `helper/service.py`, `vpn/process.py`) | current process, files, cancel event, `_ipsec_teardown_done`, gateway route, DNS flags | credentials, connect, disconnect, status, end of input; child output and exit; IPsec bring-up; stop thread | GUI by stdout, child, the three IPsec parts below | four kinds of threads over one object, two locks, external commands outside the locks | a child is always found and stopped; teardown comes after the child's end; every exit and failure is reported; nothing is left behind |
| charon runtime (`helper/ipsec_runtime.py`) | fixed paths below `/run`, owned processes | write, wipe, inspect, recover, reap | helper | a killed helper leaves daemon and files | one charon at a time, on its own files; secrets are wiped |
| VPN DNS (`helper/ipsec_dns.py`) | state file, the link's DNS | snapshot, overlay, restore | resolvectl, nmcli | order of snapshot and overlay, races with teardown | the link has its own DNS back |
| Gateway route (`helper/ipsec_gateway_route.py`) | snapshot in memory and in a file | capture, persist, restore and verify | ip, NetworkManager | the tunnel or a reapply drops the route | the route comes back, and none is invented |
| VPN backend (`vpn/backend.py`, `vpn/models.py`) | session state, timers, pending reconnect, pre-authentication, pre-shared key | connect, disconnect, reconnect, shutdown; helper events; timers; pre-authentication thread | helper client, pages by listeners | five kinds of threads, decisions made under a lock and acted on outside it, events without a session id | state matches the tunnel; user decisions hold; every wait ends |
| Helper client (`system/helper_client.py`) | child process, `_running` | connect, disconnect, reader thread | pkexec, helper | process lifetime differs from tunnel lifetime | end of a helper is noticed |
| Pages, tray, window (`gui/connection_page.py`, `gui/tray.py`, `gui/main_window.py`) | buttons, dialogs | which operation is offered when; certificate decision; closing | backend | events delivered while a dialog is open | only legal requests; the window closes once |
| SAML pre-authentication (`vpn/ipsec/saml_*.py`) | loopback listener | listen, callback, timeout, cancel | browser, backend | cancel against an answer | the attempt ends in one way |
| Profile store (`profiles/`) | profiles and default, in memory and in `profiles.json` | add, update, duplicate, import, delete, default, pin | file, secret store | a file and a keyring with no common transaction | names unique, default exists, no secrets without profile |
| Secret store (`system/psk_store.py`) | keyring entries | get, set, delete | Secret Service | locked or missing keyring reads as empty | secrets follow their profile |
| Backup (`backup/`) | encrypted document | create, preflight, restore, rollback | both stores | every call may fail half way | restore is all or nothing |
| Profile documents and editor (`profiles/model.py`, `ipsec.py`, `storage.py`, `transfer.py`, `gui/profile_editor_dialog.py`) | one entry of `profiles.json`, export files, the editor's form | validate, save, load, export, import, edit | store | lists written twice for older releases, fields that the form does not have | a profile comes back as it was saved |
| Event pump and closing (`gui/event_pump.py`, `gui/main_window.py`) | mailbox, drain, shutdown token | post, drain, error dialogs, quit, close to tray | backend threads, widgets | a dialog inside a drain, a drain inside a dialog, order of notifications | the window shows the present state; quitting ends |
| Helper protocol (`helper/protocol.py`, `validation.py`, `handshake.py`, `argv.py`, `ike_ports.py`) | none | parse, validate, negotiate | helper, GUI | boundaries | only valid requests pass |
| Classification (`vpn/classify.py`, `saml_parse.py`, ...) | none | text to events | helper output | wording | recognised lines |
| Capabilities (`vpn/capabilities.py`, `detect.py`) | none | detect, probe, select | executables | order of preference, silence | the executable that will do is chosen |
| strongSwan configuration (`vpn/ipsec/swanctl.py`, `split_include.py`) | what the plugin's log said | text; reading the log | plugin, helper | several replies in one session, cut lines | DNS is set up for the tunnel that is up |
| VID plugin (`native/fvl-forticlient-vid/`) | the last CFG_REPLY | rewrite IKE_AUTH, read CFG_REPLY, narrow, log | charon, helper by log | order of payloads, repeated replies | FortiClient's order; the log tells the truth |
| Updates (`updates/`, `gui/about_page.py`) | settings, one thread | check by user or clock, announce | GitHub, tray | restarts, a thread's end against the next start | one check at a time; only a newer stable release is announced |
| Diagnostics (`diagnostics/`, `gui/diagnostics_page.py`) | results, the page's selector | run, local refresh | host, gateway | checks that raise, profiles that go away | one failure spoils no other check; the page says whose results it shows |
| Desktop integration, dependencies, packaging | little | inspect, report | system | text | |

`PROJECT.json` lists every component with what is modelled of it, and under `hazards` the places
where this code can go wrong in a way a test would hardly reach.

## Modules

| Module | Models | Checked by | Proofs |
|---|---|---|---|
| `HelperService` | helper sessions, charon runtime, and the threads that use VPN DNS and gateway route | `MCHelperService` | `HelperServiceProofs` |
| `NetworkSettings` | VPN DNS and gateway route, command by command | `MCTunnelParts` | `NetworkSettingsProofs` |
| `SamlListener` | the browser sign-in before an IPsec tunnel | `MCTunnelParts` | `TunnelPartsProofs` |
| `VidPlugin` | the charon plugin, and the helper's reader of its log | `MCTunnelParts` | `TunnelPartsProofs` |
| `ConnectionStates` | states and the table of transitions | with its users | |
| `VpnSession` | abstract: what the backend promises to readers of its snapshots | as a property of `VpnBackend` | as a theorem of `VpnBackendProofs` |
| `VpnBackend` | backend, helper client, what the user may ask for, closing; a compact helper at the other end of the pipe | `MCVpnBackend` | `VpnBackendProofs`, `VpnOrderlyProofs` |
| `ProfileStore` | profiles, secret store, backup and restore, the dialogs that drive them | `MCProfileStore` | `ProfileStoreProofs` |
| `ProfileDocuments` | one profile through validation, file, export, import and editor | `MCDesktopParts` | `DesktopPartsProofs` |
| `Filters` | lists with members left out, for `VidPlugin` and `ProfileDocuments` | with its users | `FiltersProofs` |
| `Desktop` | event pump, window, tray, closing | `MCDesktopParts` | `DesktopPartsProofs` |
| `Updates` | update checks | `MCDesktopParts` | `DesktopPartsProofs` |
| `DiagnosticChecks`, `Diagnostics` | every check's verdict; the run, its thread and its page | `MCDesktopParts` | `DesktopPartsProofs` |

How they fit together: `VpnBackend` implements `VpnSession` by a refinement mapping
(`Session == INSTANCE VpnSession WITH ...`). `Desktop` stands on the promises of `VpnSession` and
keeps of the backend only that its snapshots follow each other. `HelperService` runs the
operations of `NetworkSettings` in its threads, as steps that succeed; `NetworkSettings` runs them
one after the other, and lets every command fail. `SamlListener` is what a pre-authentication
thread of `VpnBackend` does between its start and its result. `VidPlugin` is what the charon of
`HelperService` tells of its tunnel.

`MCTunnelParts` and `MCDesktopParts` check parts that share no variable in one run: a behaviour
is one of a single part, its `focus`, while the others rest in one initial state (`AtRest`), so that
the state space is the sum of the parts and not their product. Nothing is lost by it, since no
action of one reads a variable of another.

Two modules have a constant with the set of *mishaps* (`HelperService`, `ProfileStore`), and
`VpnBackend` one with *scenarios*, each a kind of profile with a set of *windows*: moments that
nothing in the code excludes and on which its promises depend. `NetworkSettings` has sets of
*faults*. A run names those it allows, so it is always visible under which circumstances a
property holds. Where a promise fails in such a moment, this README says so.

Definitions marked *Mutant* in the comments are not part of the model. Each is an existing
definition with a plausible slip in it (a dropped reset, a swapped order) and documents which
line a property guards: with the mutant in place of the original, the property fails.

Types are stated once per module. Outside `HelperService`, whose types are proved on their own,
they are the first conjunct of one of the module's properties.

### HelperService

Threads: the stdin loop `Main` (one request at a time), `Reader(s)` (output thread of child `s`,
ends in `_on_exit`), `Worker(s)` (IPsec bring-up) and `Stopper(s)` (the `helper-stop` thread that a
failed bring-up starts). A *session* is one connect attempt with its child. A step is the code
between two places where another thread can be observed: a lock, an external command, a wait or a
pipe.

| Variable | Code |
|---|---|
| `mem` | `_process`, `_ipsec_runtime_files`, `_vici_cancel`, `_ipsec_teardown_done`, `_gateway_host_route`, `_connected_emitted`, `_error_emitted`, DNS fields of `HelperService` |
| `lock` | `_teardown_lock` with the locals of `_finalize_ipsec_teardown` |
| `pc`, `loc` | where each thread is, with the locals it carries |
| `child`, `kind` | the process of each session and its backend |
| `disk` | the fixed paths below `/run`: whose configuration, DNS state, route state |
| `link` | DNS of the link and the explicit `/32`, as the kernel has them |
| `told`, `asked` | events written for each session; sessions that were asked to stop |
| `crashes`, `dirty` | kills of the helper; killed and not recovered since |

Actions follow the methods: `HandleConnect`, `Recover`, `CaptureRoute`, `WriteRuntime`,
`PublishSession`, `SpawnChild`, `AdoptChild` are `connect` and `_connect_ipsec` /
`_connect_openfortivpn` in order; `HandleDisconnect`, `ReadProcess`, `AwaitStop`, `FinalizeDns`,
`FinalizeRoute`, `ReapCharons`, `Acknowledge` are `disconnect`; `OnExit` and `ReportExit` are
`_on_exit`; `StartBringUp` to `AbandonBringUp` are `_run_ipsec_bringup`; `Overlay` is the DNS
overlay, `Crash` a kill of the helper. Simplifications: a request and the credentials before it are
one step; the grace period and the kill that may follow it are one step; the test and set of
`_connected_emitted` is atomic; `resolvectl`, `nmcli` and `ip` succeed (`NetworkSettings` has their
failures); the text of messages is gone.

Mishaps: `early` (a connect is read before the EXIT of the previous child), `overlap` (after it,
while the worker or stop thread of that session is still at work), `overlay` (a DNS overlay that
passed its checks lands after another thread tore the session down), `persist` (the route
snapshot cannot be written).

### VpnBackend and VpnSession

Threads: `Gui`, `Reader(p)` of helper process `p`, `Worker(a)` (pre-authentication of attempt
`a`), the timers `Expiry(a)` (SAML), `Redial(a)` (automatic reconnect) and `Shut` (shutdown). A
step is one section under `_lock` or one call into the helper client.

| Variable | Code |
|---|---|
| `be` | the fields of `VpnBackend`; `forced` collects transitions outside `ALLOWED_TRANSITIONS` |
| `timers` | armed timers, and the handles the backend keeps of them |
| `run` | where each thread is: `connect`, `disconnect`, `reconnect`, shutdown and the handlers of events, section by section |
| `client` | `_process` and `_running` of `PolkitHelperClient` |
| `helper` | each helper process: requests on its input, child, events on its output, `sent` of the latest attempt |
| `cancelled` | cancel events of pre-authentications |
| `desk` | open question about a certificate, decision, calls of the closing callback, whether the program has ended |

The helper at the other end is compact: it serves a connect by starting a child and saying STARTED,
a disconnect by ending the child, and writes EXIT when a child is gone; the child says what its
kind of profile can say, in the orders the classification admits. Attempts carry a number in the
model for the properties only; the code's events have none.

`VpnSession` has six variables: the state, the number of attempts, whether a connection was lost,
whether a reconnect is to come, whether the application closes, and how often it was told that it
may end. Its actions are the promises: an attempt begins only where none is under way, the state
follows `ALLOWED_TRANSITIONS` (with the two exceptions that `_fail_and_clear` and an early CONNECTED
make, `GiveUp` and `Up`), only a session that was up is dialled again, closing is told once. The
mapping takes the state, `error_code`, `reconnect_pending` and `shutdown_in_progress` from `be`.

Windows: `unsent` (the user stops an attempt before STARTED has been heard), `hasty` (a new attempt
while an earlier process is not reported gone, or a certificate accepted while an automatic reconnect
is due), `race` (the user, or a second thread, acts while a
thread is between two of its steps), `outrun` (the tunnel is up before the thread that asked for it
has returned), `swap` (EXIT is written before STARTED), `late` (the helper starts a child before
it wrote the EXIT of the last), `crash` (the helper dies), `refused` (authorization or start fails).

### ProfileStore

Everything runs on the Qt thread. A step is a change of the profiles with the write of the file
that follows, or one call of the keyring; since the write is atomic (temporary file, `os.replace`),
a kill between change and write looks like a kill before both.

| Variable | Code |
|---|---|
| `mem` | `ProfileManager._profiles` (name, type, pin of each id) and `_default_profile_id` |
| `file` | `profiles.json` |
| `ring`, `desk` | pre-shared key and XAuth password of each id in the keyring; whether the keyring is open, locked or gone |
| `backup` | the `.fvbackup` document |
| `op` | the operation in progress: the editor with the pin it read, the restore plan, the items its loops have not reached, the keyring calls to come, and what the rollback goes back to |
| `session` | profile of the running session |
| `spoiled`, `ops` | history: a kill between two steps or a call on a closed keyring; operations so far |

`Add`, `OpenEditor`/`SaveEditor`, `Forget`, `Copy` (duplicate and import), `SetDefault`, `Delete`,
`Credentials`, `CreateBackup`, `BeginRestore` and `Commit` are the user's operations. `PlanItem` is
one turn of the loop of `plan_restore`, `Preflight` its end; the order of the items is any.
`ReadSecrets` (the next item of `_write_secrets`),
`DeleteSecret`, `SetSecret`, `SetFails` and `RollBackProfiles` are the calls they leave to do;
`SessionStarts`, `Pin`, `KeyringChanges` and `Restart` are the world around. Names are compared
without case in the code, so a name of the model is a class of equal names. `clear_default` has no
caller in the GUI and is left out.

Mishaps: `save` (the file cannot be written), `refuse` (the keyring refuses one value of an
operation), `locked`, `gone` (it reads as empty and refuses everything; it is missing), `crash`,
`meanwhile` (a session starts or a certificate is accepted while a dialog is open).

### NetworkSettings

One thread: `at` is the next command of `resolvectl`, `nmcli` or `ip`, or the next write of a file.

| Variable | Code |
|---|---|
| `link`, `route` | DNS servers, domains and default-route flag of the link as resolved has them; the explicit `/32` |
| `host`, `profile` | whether NetworkManager owns the link, whether there was a `/32`, the mode of the tunnel; the settings the link's owner wants |
| `file` | the two state files below `/run`, which a kill can leave torn |
| `at`, `mem` | where `apply_dns_overlay`, `restore_dns_overlay`, `recover` or the route functions are, with their locals and the result they report |
| `charon`, `faults` | is a charon of ours up; what may go wrong in this behaviour |
| `stale` | history: the second round of a restore has put the snapshot over what the network wants |

The order of the code is the order of the places: recover, capture, persist, overlay (inspect,
write, servers, domains, default route), then teardown (restore of each, reapply, verification,
removal of the record, look for the route, replace). `Renew` is NetworkManager giving the link
new settings at any time: any servers, none, or the very ones the gateway assigns. The verification
takes the last two for a failed restore (`helper/ipsec_dns.py:341`), and its second round puts the
snapshot of the network before over them, where they stay until the next lease. `SettingsBack` names
this exception (`stale`), and `VerifiedIsClean` allows what the network itself wants. `Kill` is a kill of the helper. Faults: `kill`, `write` (a command that
changes something, or a file, fails), `inspect` (a command that only reads fails or hangs).

### SamlListener

`phase` is the next call of `IpsecSamlPreauthSession.run`, `uid` the identity file, `left` the turns
that the listener's loop has before its time is up, `queue` the connections that wait at the port,
`verdict` the listener's `_done` with its result or error, `pages` what browsers were sent, `cancel`
the cancel event, `outcome` what `run` returns or raises. `Turn` is the head of the loop,
`HandleRequest` one call of `handle_request`, `PeerCloses` one that blocked on a connection which sends
nothing. `Arrives` is any program that connects: the callback, a stray request (a favicon, a POST,
a query that does not parse), a method that has no handler, or silence.

### VidPlugin

`request` is the first IKE_AUTH request, rewritten by `FirstAuth` in the order of the C function:
compatibility notifies out, INITIAL_CONTACT and license in, FortiClient's CP, golden order, license
moved, sorting switched off. `CfgReply` reads a reply into `plugin`, `Narrow` sets the `child`'s
selectors, both write log `lines`: prefixes, DNS servers and domains, mode, and that the tunnel is
established. `NoteLine` is the helper's reader thread (`_on_output`, `_note_ipsec_dns_line`): it
merges each line into `known` (`split_include.py`), and sets up `dns` once in a session, as soon as the
tunnel is `connected` and a server is known (`_apply_ipsec_dns`); that may fail, and the next line tries
again. `CatchAll` is `catch_all_dns`: a tunnel that is not split, or a gateway that asks for all names
(`Everything`, which the code also reads from a single dot), on a split tunnel too
(`tests/test_ipsec_split_include.py:138`). The bring-up's own thread gets the same lines from
`swanctl --initiate` and then does the same, and is left out. `replied` is a history variable: the
number of the session's replies, and what they have `said` (full or split tunnel, all names or some). Payloads, prefixes and domains are
names; a buffer of the log has room for `Fits` of them and cuts the next. `RewriteCpRequest` takes
every CP out and the plugin the first one: charon builds one at most, as `MessageAssumption` says.

### ProfileDocuments

A JSON object is a function of its keys. `record` is the entry in `profiles.json`, `profile` what
`build_profile` makes of it, `export` the last exported or found file, `form` the editor's fields,
`wanted` the profile as the user made it. `Save`, `Restart`, `Export`, `Import` go through
`to_dict` and the parsers with their defaults, refusals and dropped keys; `OlderRelease` reads and
writes the file as a release did that knows the singular keys only; `OpenEditor`, `ChangeType`,
`ChangeField`, `Submit` and `Cancel` are the editor, whose form has fewer fields than a profile.
Of the IPsec settings there is one or more of each kind (a choice, a number, a text, a switch, a
list with its singular key); the others of a kind are treated alike by the code.

### Desktop

`backend` counts the changes of the backend's state, and a snapshot is the count it was taken at.
Each thread (`Workers` and the GUI) has `posting`, the events it has yet to put in the mailbox
`queue`, because listeners are called after the lock is released; `pump` is the timer slot (off,
draining, inside a modal error dialog), `held` the snapshot that the drain will emit once that
dialog closes, `shown` what window and tray show. `close` and `tray` are the flags of
`MainWindow`. `BeginClose` drains again, from inside a dialog too. `late` is a history variable: the
snapshots that were still under way when the state last changed, with other threads, or held by a
dialog as the window closes.

### Updates

`settings` outlive the application, `app` says whether it runs and whether its automatic check is
still to come, `threads` has what each check's `QThread` does, `thread` the one that the page
holds, `events` the queue through which results reach the GUI. `Answer` is a check with its
request, `ApplyResult` the page's handler, `Quit`/`ClearThread` the thread's end and its
`finished` signal. The clock does not tick during a check and the signals it leaves: a check is over
after eight seconds, a day is 86,400.

### DiagnosticChecks and Diagnostics

`DiagnosticChecks` has one operator per check of `diagnostics/checks.py`, named like the function,
from a request (profile, snapshot, network allowed) and a `world` (what there is on the host and at
the gateway) to PASS, WARNING, FAIL, INFO or NOT_TESTED. `Diagnostics` runs them: a full run in its
own thread (`worker`, `checks`), one dependent check at a time, with the resolver's thread beside it
(`lookup`), a local run at once in the GUI. `page` and `combo` are the diagnostics page and its
selector, `profiles` the profiles with the one the connection page has chosen. `followed` is a
history variable: a visit of the page took over the connection page's profile while a run was under way,
which `refresh` does until a first full run is done.

## Runs

Bounds are constants of the `.cfg` files, and every bound appears in a guard of its module.

| Run | Instance | Shows |
|---|---|---|
| `helper_main` | 2 sessions, both backends, no mishap, 1 kill | one charon, on its own files; teardown after exit; a running child stays known and a disconnect finds it; no silent failure; a disconnect is acknowledged only when stopped and wiped; DNS, route and secrets are cleaned up; the `/32` is always recoverable |
| `helper_live` | 1 session, `persist`, NetworkManager drops routes, fairness | disconnects and exits come to an end, and no `/32` is invented on the way |
| `helper_stale_finalizer` | `overlap` | *violated*: `TeardownAfterExit` |
| `backend_calm` | 2 attempts; SSL with SAML, `swap`, `outrun`; pre-authentication with `late`, `refused` | nothing outlives its session, Connected is real and shown, attempts start when idle, events reach their own attempt, automatic reconnects do not repeat, a stop by the user holds |
| `backend_race` | 2 attempts, 2 helpers; SSL with `race`, `unsent`; pre-authentication with `race`, `late`, `unsent`; pre-authentication with `late`, `crash`, `refused` | under every interleaving of the GUI's threads, and with helpers that die or are denied, the backend implements `VpnSession`, and a key belongs to the current attempt and is gone with its session |
| `backend_live` | SSL, fairness | disconnecting and reconnecting end, a reconnect and a trusted certificate lead to a new attempt, quitting stops everything |
| `backend_unsent` | SSL, `unsent` | *violated*: `NothingOutlivesSession` |
| `backend_reconnect_ipsec` | IPsec, fairness | *violated*: `ReconnectStarts` |
| `profiles_faults` | 2 ids, 2 names, 1 secret value, 5 operations, `refuse`, `gone`, `crash`, `meanwhile` | names and default are consistent, no orphan secrets, restore is atomic and exact |
| `profiles_unwritten` | the same, `save` | *violated*: `RestoreAtomic` |
| `tunnel_parts` | focus *network*: 2 servers, a link with a search domain and one server or none at first, leases with any servers, the tunnel's mode and a route to the gateway as far as they meet, faults kill, kill and write, or kill and inspect; *saml*: 3 turns, 2 waiting connections; *vid*: 2 networks, 2 domains, 2 replies, 48 orders of payloads | the network is put back as its owner wants it, and "verified" is true; the browser's page tells the truth; the request has FortiClient's order; the helper sets up DNS as the gateway's replies ask, and knows the tunnel that is installed |
| `desktop_parts` | focus *window*: 1 thread beside the GUI, 4 changes; *updates*: a day of 2 ticks, 5 ticks, 4 checks, every answer of up to 2 of 7 releases; *diagnostics*: some 40 hosts with each of 3 profiles, and the healthy one and those where a check raises with 2 profiles to choose from; *documents*: 11 entries of `profiles.json` or 11 files found | the window shows the present state and quitting ends; one check at a time and only right announcements; one failing check spoils no other and the page says whose results it has; a profile comes back as saved |

Why the bounds are enough to be of interest: a second session or attempt is what it takes for
events, finalizers and timers of the first to act on the wrong one, and a third adds no new kind of
pair. One kill of the helper is followed by a whole recovery. Five operations allow a profile with
a key, a second one, a backup, a change and a restore; two ids and two names give every collision
of a restored name with a kept one. A value that differs from another is `none`; one real value of
secrets then tells set from deleted, which is what the two stores can get wrong. One DNS server of
the gateway and one of the network give every way in which sets of servers can differ, share or be
empty. Three turns and two connections let a request of each kind arrive before, between and after
those that decide. One thread beside the GUI is enough to overtake a notification. Four checks and
five ticks hold a check by the clock, one by the user and one after a restart, in each order. A
host differs from a healthy one in one fact, since a check looks at one fact or at a result before
it; the pairs that meet in one check (resolver with route and port) are in the set.

`helper_main` uses symmetry of sessions (they are interchangeable; only its safety properties are
checked with it). Deadlock is checked in all runs but one; backend and profiles have
an explicit `Over` step where a bound or the end of the program stops them, and the helper never
stops. It is not checked in `desktop_parts`, where a closed application, or one that has used up its
bounds, really has no step left.

Fairness in `helper_live`, `backend_live`, `backend_reconnect_ipsec`: weak fairness of each thread
of the program for the steps it can take by itself, since each is an operating-system thread and
each of its waits has a timeout (the stop grace period, `vici` and listener timeouts, the
shutdown timer); of the helper for serving its input; of the timers for running out. Nothing is
assumed of the user, of the authorization dialog, of the gateway or of what a child says.
Fairness in `desktop_parts` (`DesktopFair`): threads post what they have, the pump's timer fires
and its slot runs, the backend ends its shutdown (which `backend_live` shows as
`QuitStopsEverything`), and the user closes dialogs; without the last, a modal dialog keeps the
application open for ever, as it does in the code.

What the properties leave out on purpose:

* `ShownIsCurrent` allows the present state or a snapshot in `late`, and nothing else, wherever events
  overtake each other and drains are nested: a listener is called after the lock is released, so a
  notification that was under way at the last change may be put in the mailbox last and stay on
  the screen. Where nothing was under way, it is the present state. The closed window is left out.
* `HonestPage` covers every choice and deletion during a run but two: the profile that was run is
  itself gone, and the selector has `followed` the connection page in one of the two moments of a
  first run (button to thread, thread to `finish_run`) in which `refresh` does not see that it runs.
* `HelperAgrees` says of the DNS what it is when the session's replies agree on the tunnel, or on the
  names they ask for; with replies of both kinds the first decides for the rest of the session (see
  below). Names that the log cut are left out, of the domains and of the prefixes.
* `SettingsBack` is for commands that succeed, and names the `stale` second round; `VerifiedIsClean` is
  what remains when commands fail.
* `NothingLost` names the two settings that the editor changes.

## Disagreements between code and documentation

Runs marked *violated* above, each reported under `findings` in `PROJECT.json`:

* `helper_stale_finalizer`: a stop thread of an ended session may run its finalizer when a new
  charon is already up, because `_ipsec_teardown_done` has been reset by the new connect.
* `backend_unsent`: cancelling before STARTED has been read sends the helper nothing; the tunnel
  comes up behind a disconnected window.
* `backend_reconnect_ipsec`: a reconnect of an IPsec profile stops the tunnel and starts none, for
  `connect` is called without credentials.
* `profiles_unwritten`: a restore whose first write fails keeps the restored profiles in memory.

Seen while modelling, outside the listed runs. The first group is reproduced by adding the named
window or mishap to a configuration:

* `early`: a connect accepted before the previous child's EXIT lets `_on_exit` of the old child
  drop the new process (`OwnRuntime`, `StoppedWhenAcknowledged`, `NoSilentFailure`,
  `RouteRecoverable`, `NothingLeftBehind` fail).
* `overlay`: the DNS overlay may land after its session was torn down (`NothingLeftBehind`).
* `persist`: secrets stay on disk when the snapshot cannot be written (`NothingLeftBehind`).
* `hasty` and `race`: a second attempt begins while the old process runs, as when a certificate question
  left over from a lost session is accepted while its automatic reconnect is due; an automatic reconnect may
  begin after the user's stop; the SAML timeout (`vpn/backend.py:1524`) looks at the state under the
  lock and fails the session after releasing it, which may end one that has just authenticated.
* `refused` together with `crash`: an end of the pipe in DISCONNECTING is not shown
  (`system/helper_client.py:470` reports it only if `poll()` already sees the process dead), and a
  helper that may not be killed leaves the retry after trust waiting.
* With no race the automatic reconnect count never exceeds one, so the limit of three attempts is
  never met.

The second is visible in the models' definitions:

* A keyring that is locked when a backup is made leaves its secrets out without a word, and
  restoring that backup deletes them (`backup/service.py:308`); the editor saves the pin it read
  when it was opened (`gui/profile_editor_dialog.py:592`); between preflight and confirmation of a
  restore the tray can start a session (`gui/profiles_page.py:422`).
* `default_resolve_host` waits for the lookup for a limited time, but the end of its `with` block
  joins the lookup's thread (`diagnostics/checks.py:891`), so that the limit does not bound the wait.
* `check_ike_ports` is called without the processes of the application (`diagnostics/checks.py:685`),
  so that its own charon is a failure while connected; `check_openfortivpn` reports a missing
  program when only the package's own binary, which is not on PATH, is there (`checks.py:172`).
* A silent connection blocks the sign-in's listener, and with it its time limit and its cancel
  event, until its peer closes it (`vpn/ipsec/saml_listener.py:95`).
* A gateway that answers with a split tunnel and, when charon establishes the tunnel anew in the same
  session (`dpd_action = restart`), with a full one leaves the helper with split DNS on a full tunnel:
  `merge_split_include_info`, written for "lines from the same CFG_REPLY", keeps the earlier reply's
  mode (`vpn/ipsec/split_include.py:221`), and DNS is set up once in a session
  (`helper/service.py:801`). `docs/research/ipsec-saml-sso.md:2536` has catch-all DNS for this case.
* An entry with an empty list of proposals is invalid, is dropped when the file is read and is gone
  with the next save, where the docstring of `profiles/ipsec.py:26` has the singular key as the
  fallback.
* The editor keeps the first group for PFS and turns the authentications `psk` and `certificate`
  into its own; a profile that goes from SSL with single sign-on to IKEv1 and back has lost
  `use_sso`. Nothing calls
  `load_exported_profile_file`, nor `_reject_secret_text` but for it.
* The about page waits two seconds for its thread when the window closes, and a check may take
  eight; a clock that is set back keeps automatic checks from running (`updates/cache.py:25`).

## Proofs

Every theorem holds for all values of the constants that satisfy the named assumption of its
module, and for any number of steps; where it needs more, its statement says so with ASSUME.
Most invariants the runs check are not inductive: they speak of the state when something has
ended, and what makes them true is where the threads can be before. Each proof names that first, as an
invariant that TLC has checked on small instances, and then goes action by action.

### Helper

`HelperServiceProofs` first proves three theorems for every set of sessions, every set of backends and
mishaps, either kind of link and any number of kills, from `HelperAssumption` alone (the names of
sessions differ from `NoSession`; the other constants are of their kinds):

* `TypeCorrect == Spec => []TypeOK`. One lemma per group of actions; the lemma for a shared step
  (finalizer, overlay, announcement) is stated for any thread and used by each.
* `OneCharonHolds == Spec => []OneCharon`. `OneCharon` is not inductive: a connect checks for a
  charon in `Recover` and starts one several steps later. The invariant adds `StartsAlone`: from the
  capture of the route to the start of the child, no charon runs. It holds because only the stdin
  loop starts children. The argument is in `Harmless`: each other step starts no charon and does
  not move the stdin loop into the steps from capture to start.
* `NeverInventedHolds == Spec => NeverInvented`. A route is put back from one of three snapshots: in
  memory, in the locals of a finalizer, in the state file. `NoSnapshot` says that without a `/32`
  none of the three holds one; each step is `Honest`: it keeps this and does not create a
  route. Captures happen only where there is a route, and persisting or loading a snapshot copies
  an existing one.

Its second part proves the other seven invariants of `helper_main`, for any number of
sessions and kills. Some fail in a mishap (see above), and each theorem excludes those only that
its argument needs. The invariant is built in layers, each inductive on top of those before it:

| Layer | Says | Without |
|---|---|---|
| `Places` | where each kind of thread can be, and that the stdin loop is in one request | |
| `Known` | one child at most is read, and `_process` holds it until its exit is handled | `early` |
| `Alone` | only the threads of one session are at work | `early`, `overlap` |
| `Strays` | a charon that nobody reads was left by a killed helper | the same |
| `Held` | who holds the teardown lock, and that no charon runs while a session is its target | the same |
| `Own` | a charon that is read has its own files on disk, from their write to its end | the same |
| `Reports` | what keeps `_on_exit` silent was announced before, or is about to be | the same |
| `Routes` | the snapshot of the `/32` is on disk as long as anything may drop it, or a finalizer has it | the same, `overlay` |
| `Carried`, `Published`, `Links`, `Tidied` | which files, DNS records and routes a thread has yet to clean up | all mishaps |

* `DisconnectFindsChildHolds` and `StoppedWhenAcknowledgedHolds` follow from `Known`: a disconnect
  reads `_process` after the request that set it, and only the handled exit clears it.
* `TeardownAfterExitHolds` is `Held`, `OwnRuntimeHolds` is `Own`. That they need `overlap` excluded
  is not a weakness of the proof: `helper_stale_finalizer` is the counterexample.
* `NoSilentFailureHolds` is `Reports`. The difficult case is a worker that stops the child itself
  after a failed bring-up: its reader then sees an exit that it must not report twice.
* `RouteRecoverableHolds` is `Routes`. A charon, an overlay under way and the restore of DNS may drop
  the `/32`; the file with the snapshot is there as long as one of them is, and a finalizer has
  read it before it deletes it.
* `NothingLeftBehindHolds` assumes `Mishaps = {}`. Secrets, DNS and route are cleaned up by different
  steps, so the layers name for each what is still to come, and at whose hands.

### Browser sign-in

`TunnelPartsProofs` proves `PageTellsTruthHolds == SamlSpec => []PageTellsTruth` for any number of
turns and waiting connections (both positive, `ListenerAssumption`). The property speaks of the end
of a sign-in, and is not inductive; `SamlInv` adds what holds on the way: a turn is left while a
connection is awaited (`Waiting`), the pages that were sent are those of the verdict and there is
one at most (`OnePage`), there is no verdict before the listener is asked (`VerdictInTime`), and the
outcome is the verdict's (`OutcomeOfVerdict`). The step that matters is `HandleRequest`: `accept` is
entered without a verdict, so a second page can never join the first.

### The plugin and the helper's reader

`TunnelPartsProofs` also proves two theorems about `VidPlugin`, from `VidAssumption` (the buffer has
room for one prefix, there may be one reply, the default is not among the networks) and
`MessageAssumption`: charon's tasks put IDi, AUTH, SA, TSi and TSr into a request once, INITIAL_CONTACT
and CP once at most, and no payload that only the plugin knows, in any order and with any others.

* `GoldenOrderHolds == VidSpec => []GoldenOrder`. The plugin filters a list of payloads and joins the
  parts, so what counts are the lemmas of `FiltersProofs` about `Select` over `Append`, `\o` and `Select`
  itself (`SelectAppend`, `SelectConcat` and their neighbours) and what each does to `Count`. `SelectConcat` needs
  induction over the second sequence. The library's induction theorems take an operator as a
  parameter, which the provers cannot use; `NatInduct` and `SeqInduct` are the same principles stated
  with a set of numbers or sequences, and follow from the well-foundedness of `<`
  (`WFMin`, `NatLessThanWellFounded`).
* `HelperAgreesHolds == VidSpec => []HelperAgrees`. The property compares what the helper set up, at some
  line, with a tunnel that charon may have narrowed before or after. `HelperInv` is about the lines
  on the way. As long as the plugin has a split tunnel, its networks are in the last unread line that
  names any, or are known and no unread line names others (`SplitInv`), whatever replies came
  before. What no reply has said, no line says and nobody knows: if none was for a split tunnel, no
  line names a network, and if none was for a full one, each line for the networks names one
  (`ModeInv`); likewise the domains (`PlainInv`). If every reply asked for all names, that is known, or
  unread and in front of the line that says the tunnel is established (`NamesInv`): so DNS is
  not set up before it is known (`DnsInv`). `LogInv` is why the first line read decides nothing too
  early: it is a split-include line.

### Backend

`VpnBackendProofs` proves of `VpnBackend`, for any scenarios, numbers of attempts and helper
processes, and limit of reconnects (`BackendAssumption`):

* `TypeCorrect == Spec => []TypeOK`, with `Hearing`: a thread handles only events that a helper may
  write, and the steps that set a timer are steps of an attempt.
* `Implements == Spec => ImplementsSession`: the refinement of `VpnSession`, under every window.
  `NextShown` maps each action to a step of the abstract session or a stutter. `MovesOn` is
  what the operators on the fields have in common (a transition of the table, a lost session only
  from CONNECTED, no field of the user's touched). The only invariant it needs is `Closing`, on the
  end: before a shutdown is asked for nothing is `CLOSING` and no thread is at one of its steps, and
  its callback has been called as often as `finished` was set, once at most.
* `AutoReconnectOnceHolds` and `UserStopHoldsAlways`, from `Places`, `Counted` and `Obeyed`: one
  reader at a time is on its way to schedule a reconnect, and comes from CONNECTED where the count is zero; the
  timer that is pending, and the attempt it begins, are not ones the user has stopped. Assumes
  `Undivided` (no scenario has the window `race`): between two steps of a thread the user may press
  Disconnect, and then a reconnect does follow the stop.
* `KeyForgottenHolds`, under every window, from `Keyed` and `Unmixed` (a thread on its way to a session
  carries the kind of a profile the user has). Assumes `OneKindOfKey`: in each scenario every
  profile has a pre-authentication, or none has. With both kinds the property is false: FAILED keeps
  the key, and a connect of another kind does not clear it, so it is held through a session it was
  not for.

The lemmas `ThreadSteps`, `ReaderSteps`, `WorkerSteps`, `TimerSteps` and `UserSteps` say once where
each kind of step takes the threads (`Flow`), and `ThreadChanges` to `OtherChanges` what it
does to the session and to the user's wishes; the invariants above are proved from these and not
from the actions.

`VpnOrderlyProofs` proves `NothingOutlivesSession`, `ConnectedIsReal`, `StartsWhenIdle` and
`NoStaleEvent`, which relate the state to the helper's process and its unread events, for any profiles,
attempts, helper processes and limit of reconnects. It assumes `Orderly`: no scenario has a window but
`late` and `refused`. `backend_unsent` is the counterexample without it for `unsent`; with `hasty` or
`race` two attempts can be under way at once; `swap`, `outrun` and `crash` break the order that the
proof follows, though TLC finds no state with the first two where one of the four properties fails.
`backend_live` is an instance of the hypothesis, and so is `backend_calm` with the second of its scenarios alone.

None of the four is inductive. What makes them true is that there is one process at a time, and that
the state, `client.running`, the threads and what the helper has still to do and to say agree on it.
`OInv` says this, until the application closes, in the following parts:

| Part | Says |
|---|---|
| `Turns`, `Apart` | one thread is at work, but that a reader may hear the helper while `connect` returns; an attempt's pre-authentication belongs to the current attempt and nobody prepares another beside it |
| `Seats`, `Course` | where each kind of thread can be and where it returns to; the state while it is there |
| `Prepared` | nothing is under way, unread or unserved while an attempt is prepared or a reconnect is due |
| `Hears` | of each helper: which phase goes with which place of its reader (`Placed`); requests, child and output are of the current attempt, STARTED comes first, EXIT last, and a request to connect waits only where no child is left (`Carried`); what its reader is at is what it wrote (`Heeded`) |
| `Runs` | the client takes a session for running only if its EXIT is unread; the SAML timer is of a process under way |
| `Stops`, `Starts` | in DISCONNECTING, DISCONNECTED and FAILED the child is gone or asked to end, or a thread is about to ask; in STARTING nothing of the child's has been shown |
| `Shows` | when the child is up and has said so, CONNECTED is shown or about to be |

From a shutdown on the threads no longer take turns, and `Closed` is enough: the state is CLOSING and
no thread is at a step that begins an attempt.
The proof says first what the move of one thread does to every part (`TurnsMove` to `ShowsMove`), and
what a request to stop, the reader's reading, a new attempt, its request and a step of the helper do
(`DropMove`, `ReadEventKeeps`, `ReadEofKeeps`, `BeginKeeps`, `SendKeeps`, `HelperStepKeeps`). Each action
is then shown to be one of these (`ConnectActs` to `UserActs`), and `QuitCloses` and `ClosedStays` are the
rest.

`StartsWhenIdle` has a counterexample that came up in the proof: a certificate question that is still
open when the session is lost can be accepted while the automatic reconnect is due, and its attempt
begins beside the timer's. The window `hasty` stands for this too.

### Network settings

`NetworkSettingsProofs` proves `VerifiedIsCleanHolds` and `SettingsBackHolds` for any servers of the
gateway, servers of the network and set of faults (`NetworkAssumption`). `NetInv` has two parts.
`Compared` holds whatever fails: the servers that the check compares with are the gateway's, so
"verified" is never said of another record. `DnsKept` and `RouteKept` hold where every command does
what it is told, while the helper may be killed anywhere: at every place either the link is the
owner's, or the record on disk (`Keeps`) tells what to put back, or the second round has made it
`stale`; and the route is there, or its snapshot is on disk. The network may change at every step.

### Desktop

`DesktopPartsProofs`, of four modules:

* `ShownIsCurrentHolds`, for any threads and number of changes
  (`DesktopAssumption`). What a thread posts last is the present state or one of `late` (`Posters`): each change
  takes into `late` what the other threads have yet to post. So whoever posts last posts one of
  these, and `Fresh` follows it: somebody has something to post (`Posting`), or the last event that
  shows anything is in the mailbox (`Queued`), held by a dialog (`Held`) or shown (`Seen`).
* `OneCheckAtATimeHolds` and `AnnouncedRightHolds`, for any payloads, numbers of
  checks, restarts and ticks (`UpdatesAssumption`), and any three numbers in a
  version (`VersionAssumption`). `OneThread` contains `Progress`: the events under way are those that the
  page's thread has still to cause, at most three in one order; and the day of a check is recorded
  before its thread ends, which is why the clock does not start another. `Remembered` ties
  the last announcement to the settings, restarts included.
* `HonestPageHolds` and `DiagnosisSoundHolds`, for any worlds and profiles
  (`DiagnosticsAssumption`). `DoneInOrder` says that the results are those of the first checks of the
  run's order, each judged on its own and turned into a failure if it raises; `Selected`
  that the run's profile is the selected one, or gone, or that the selector has `followed` (`Stays`),
  through choices on either page and deletions.
* `NothingLostHolds`, for any settings, with any values, lists and catalogs (`SettingsAssumption`: a
  default is a valid value, and no key is both a setting and the singular key of a list).
  `DocumentsInv` says that whatever a profile can be made from fits the profile that is wanted:
  the entry in the file read now (`RecordInv`), the profile (`ProfileInv`), the exported file for what
  was wanted when it was written (`ExportInv`), and a form that was not touched (`FormInv`: it
  shows the profile). The lemmas are the round trips: `Reread` (what was written is read), `Older`
  (of each list its first item remains), `Untouched` (opened and submitted). `Same` is what a
  round trip keeps, and `SameFits` that this is enough. What it needs to know of lists is in
  `FiltersProofs`: leaving repetitions out, and the boxes of the editor's lists, keep the members,
  and the first item stays the first (`DistinctFacts`, `SelectRange`).

### Profiles and their secrets

`ProfileStoreProofs` is about any ids, names, secrets and number of operations; it asks only for
as many names as ids (`NameAssumption`: a restore must find a free name).

* `DocumentsWellFormed == Spec => []WellFormed`, under all mishaps. Besides both documents, `WInv` is
  about what may become one: the backup, the plan (its items have different names, none of them
  that of a profile that stays: `PlanWell`), and the profiles that a rollback goes back to.
  `TodoWell` says that the calls to come are of a kind that fits the operation.
* `SecretsHaveProfiles`, `RestoreIsAtomic` and `RestoreIsExact` assume that the file can be written
  (without it `profiles_unwritten` is the counterexample). Their invariant `SInv` says of each
  operation which calls of the keyring are still to come (`Awaits(i, k)`: one for this secret is). In a
  restore (`RestoreWell`) a secret is the backup's once its item is reached and its call is made, and
  the old one until then, and of every secret that changed the old value is on the list of calls
  that went well; in a rollback (`RollbackWell`) what differs from before is awaited, and the calls
  store what was there before. `CallsWell` is `NoOrphans` but for the secrets that are awaited.

### Only model-checked

* `NothingOutlivesSession`, `ConnectedIsReal`, `StartsWhenIdle` and `NoStaleEvent` of `VpnBackend` with
  `swap` and `outrun` (`backend_calm`); the theorems exclude these two.
* Every liveness property: the prover has no rules for fairness and ENABLED.

## What is not modelled

* Text: recognition of output (`vpn/classify.py` and its neighbours), redaction, log buffers,
  reports, the syntax of swanctl files, URLs and queries, the rules for names and gateways. The
  models take the results of recognition as any event that it can produce, and requests as valid.
* Cryptography and the container of a backup.
* Data races on single Python attributes: the interpreter makes each read and write atomic.
* Desktop integration and dependency checks: small files read and written whole, and lookups of
  packages for a table. Packaging, release and research scripts run outside the program.
* Widgets, layout, settings and icons; the plugin's vendor ids and its reading of configuration.

## Plan

Done: the modules above, the refinement of `VpnSession` as a theorem, and proofs for
eleven of the modules. Left, in this order:

1. `VpnOrderlyProofs` with `swap` and `outrun`: what a helper says of a child before its STARTED.
2. The compact helper of `VpnBackend` as an abstraction of `HelperService`, with the order of STARTED
   and EXIT.
