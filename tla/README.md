# Nano Stack 7: specifications, model checks and proofs

This directory holds TLA+ models of the program in `src/`, the TLC
configurations that check them, and proofs checked by TLAPS. Every definition
was translated from the code; `PROJECT.json` (`map`) names the lines each one
stands for. Paths below are relative to `src/`.

The top-level `README.md` of the repository announces a move to a stand-alone
client. The code at this commit is the server-centric phase 1, and that is what
is modelled: the agent always enrolls, and the server evaluates findings.

## 1. The system

### Components

| component | state it keeps | operations |
|---|---|---|
| **Server: device channels** (`ns7-server/src/device_channel.rs`, `checkin_channel.rs`, `main.rs`) | the identity key loaded at start; one tokio task for each connection | accept a Noise_XX enrollment: find workspace, issue certificate, insert, answer. Accept a Noise_IK check-in: look the certificate up, verify it, read the inventory, record, look the workspace's name up, answer |
| **Server: workspaces, registry, schema** (`workspace.rs`, `registry.rs`, `migrations/0001_init.sql`) | tables `workspaces`, `devices`, `server_identity` | create, rename, delete (cascade to devices), upsert of an enrollment, update at a check-in, load or create the identity |
| **Server: admin authentication** (`auth.rs`, `api.rs`) | table `admin_accounts`; session tokens in memory | status, setup, login, the check before every protected route |
| **Admin console** (`admin-console/src`) | token in localStorage, one gate per tab | checkAuth, setup and login forms, logout, pages |
| **Agent: enrollment and check-ins** (`ns7-client/src/main.rs`, `identity.rs`, `checkin.rs`) | `identity.key`, `device_cert.bin`, `workspace_public_key.bin`, and their copies in memory | start, `--reenroll`, load or generate the key, enroll, check in on a schedule |
| **Agent: configuration and status** (`config.rs`, `cli.rs`, `setup.rs`, `status.rs`) | `NS7Conf.toml`, `status.json` | resolve flags, environment, file and dialog; save; mirror `[synced]`; write the snapshot |
| **Admin console: pages** (`admin-console/src/pages`, `hooks.ts`) | the list of each page, its forms | fetch and refetch, create, rename, delete |
| **Channel and certificates** (`shared/proto/src`) | handshake state; certificate with HMAC | XX and IK handshakes, length-prefixed frames, `issue` and `verify` |
| **Agent: consent** (`consent.rs`, `bin/consent-helper.rs`, `checkin.rs`) | dialogs, each a process; the audit trail in the log | ask about each finding, time out, decide, report |
| **Server: finding rule**, **agent: inventory** (`finding.rs`, `inventory.rs`) | none | read winget's table, filter it, compare versions segment by segment |
| **Tray, setup and status helpers** (`bin/*.rs`) | none | ask for a target, show the snapshot |
| **Start-up, plugin configuration, deployment** | none | connect with retries, two constants, compose file and installer |

### How they interact

- Agent and server meet only through the two Noise channels. Enrollment (XX)
  tells the agent the server's static key, which it pins; a check-in (IK) can
  only be opened against that key. The server recognises a device by its static
  key, which is the primary key of `devices`.
- Handlers, the admin API and the start of the server share the database. No
  handler opens a transaction: every `sqlx` statement is atomic by itself, and
  anything can happen between two of them.
- The workspace's row decides about its devices: the foreign key refuses a device
  of a workspace that is gone, and the cascade removes the devices with it.
- Tabs of a browser share one localStorage; the server keeps sessions in the
  memory of the process that created them.
- An answered check-in carries findings; the agent asks about them, one helper
  process after the other, before the scheduler goes on. A helper that is not
  waited for any longer stays on the screen.
- Every process started from the client's binary (agent, second agent,
  `--show-config`, `--configure-only`) shares two files with the user's editor.

### What is hard

1. Handlers interleave between statements: with each other, with the deletion or
   renaming of a workspace, and with the next connection of the same device,
   since nobody tells a handler that its client has left.
2. The agent writes its enrollment to three files and removes it from three
   files; `std::fs::write` empties a file before it fills it. A stop anywhere
   leaves a mixture that the next start has to read.
3. The server draws its key first and stores it second; agents pin what it serves.
4. Two setups race; tabs race for one token; the server restarts between the two
   requests with which a tab finds out which screen to show.
5. The configuration in the memory of a running agent is written back over the
   file, whatever the file has become meanwhile. `[synced]` and the snapshot are
   two files written one after the other.

6. Dialogs outlive the check-in that opened them, and later ones ask the same again.
7. A page fetches its list again after each change; answers to old and new fetches
   arrive in any order, while other administrators change the table.
8. The stream cuts frames anywhere, a peer may stop in the middle of one, a body may
   be above what a Noise message holds, and no read has a timeout.
9. Version segments that are words, too large, or missing count as 0.

`PROJECT.json` (`hazards`) lists them one by one with the line and the property.

### What makes each part correct

- *Tables*: a device row implies its workspace's row; a certificate in the
  registry verifies; joining, hearing and deleting are atomic.
- *Enrollment*: a device that holds a certificate is known; an accepted check-in
  has been recorded; no workspace's end touches another's devices.
- *Agent*: certificate and key on disk belong together; the pin is the server's
  identity; after any finite number of faults it checks in again, unless a crash
  left one of its files empty, a connection stays silent, or it was moved to
  another workspace.
- *Admin access*: a session belongs to an account and was earned with the stored
  password; nobody overwrites an account; no tab hangs at "Loading".
- *Configuration*: no agent runs with a blank target; the file shows what it runs
  with; an outage shows the last known counts; reporting never stops.

- *Channel*: a request is performed at most once and only if it was made whole; an
  answer means that it was performed; both tasks end.
- *Consent*: an approval was given in the dialog of that check-in and finding; every
  finding of a reported check-in is decided; the report comes without a user.
- *Console pages*: what the page was told is done is on the list it shows at rest; the
  list never goes back.
- *Finding rule*: versions of numbers that fit compare by their numbers; a line
  without a version is reported.

## 2. Modules

| module | what it is |
|---|---|
| `Fleet` | the core: server process, tables, connection tasks, administrators and agents, composed in one module because they share the tables and the connections |
| `Membership` | abstract specification of the tables: create, rename, delete, join, hear, each atomic |
| `FleetProofs` | theorems about `Fleet`, and that it implements `Membership` |
| `FleetRowProofs` | theorems about `Fleet` that relate one enrollment to another |
| `AdminAccess` | accounts, sessions, requests, and the tabs of the console |
| `AdminAccessProofs` | theorems about `AdminAccess` |
| `AgentFiles` | the two files and the processes that share them |
| `AgentFilesProofs` | theorems about `AgentFiles` |
| `Consent` | the loop over the findings of a check-in, the dialogs and the user |
| `ConsentProofs` | theorems about `Consent` |
| `FindingRule` | from winget's table to findings: the filter and the loop of `is_older` |
| `FindingRuleProofs` | theorems about `FindingRule` |
| `ConsolePage` | the workspaces page of the console, its requests and the table behind them |
| `ConsolePageProofs` | theorems about `ConsolePage` |
| `Channel` | one connection, both handshakes, request and answer, in frames |
| `Exchange` | abstract specification of a connection: ask, perform, answer, give up |
| `ChannelProofs` | theorems about `Channel`, and that it implements `Exchange` |
| `MCFleet`, `MCAdminAccess`, `MCAgentFiles`, `MCConsent`, `MCFindingRule`, `MCConsolePage`, `MCChannel` | instances for TLC (symmetry, the function from tabs to browsers, tables, lists of findings) |

How they compose: `Fleet` takes a connection as one step of each side, `Channel` looks
inside it and implements `Exchange`, whose promise is what `Fleet` relies on (a request
reaches the handler whole or not at all, an agent that gave up does not know
whether it was performed). `Consent` is the inside of an answered check-in of the
scheduler of `AgentFiles` and `Fleet`; `FindingRule` is where its findings come from.
`ConsolePage` is a page behind the gate of `AdminAccess`, and its server side is the
administrator's part of `Fleet`.

Operators whose comment says "Variant with a bug" are used by no specification.
Each is the definition that follows it, or precedes it, with a plausible mistake,
and stands beside it so that one can see the property that catches the mistake.

### `Fleet`

- `workspaces`, `devices`, `identity` are the tables. A certificate is a record:
  its number stands for `device_id` and `issued_at_unix`, `by` for the HMAC, which
  verifies exactly for the key that made it. A device's row is the certificate
  and whether a check-in was recorded. `created` is history: an id is an UUID, so
  it is never drawn twice.
- `srv` is the process. `LoadIdentity` either takes the stored key or draws one;
  `StoreIdentity` is the `INSERT ... ON CONFLICT DO NOTHING` (`workspace.rs:29-55`).
- `sess[s]` is a connection task. Its stage says which statement comes next, and it
  carries what was read so far. `EnrollFind`, `EnrollInsert`, `EnrollAnswer` are
  `handle_enrollment`; `CheckinLookup`, `CheckinRecord`, `CheckinAnswer` are
  `handle_checkin`. `owner` is the client at the other end, or `None` when it has
  gone: the task goes on (`DropOrphan` is the task that was still waiting for a
  message of its peer). `TaskFails` is a statement the database does not answer,
  or an answer that cannot be sent.
- The inventory, findings and configuration in the messages are left out: nothing
  in this module depends on them. A handshake is part of the step that connects:
  `EnrollConnect` learns the key the server serves with, `CheckinConnect` is possible
  only if that key is the pinned one.
- `disk`, `mem`, `pc` are an agent. A file is `None`, `Torn` (created and empty) or
  has its content; each `std::fs::write` is two steps, each removal one. `Exit` is
  every way the process ends. An error in enrollment ends the process; an error in
  a check-in ends that attempt.
- A connection is lost in two ways. `Disconnect` is a loss the agent is told of.
  `GoesSilent` is one it is not told of: no read has a timeout
  (`shared/proto/src/framing.rs:12-19`), so the agent stays in `enroll` or `run_once`
  (`enroll_silent`, `checkin_silent`) until the operating system gives the connection
  up, which is `Disconnect` again, or the process ends, or for ever. The task of the server is left
  behind in both. A message above the limit of the channel is an error of that one
  attempt (`TaskFails`, `Disconnect`); sizes are in `Channel`.
- `config` is the workspace a machine was configured for, `synced` the rest of
  `NS7Conf.toml` that matters here, or `Torn` for the whole file emptied. `CheckinReceive`
  and `CheckinRefused` put the name into the memory of the agent; `SaveSynced` is
  `config::save` in its two halves, and `SaveSyncedFails` the warning with which the agent goes on when either
  half fails. A crash in between, or within `Configure`, leaves `Torn`: such a machine
  is not `Configured`, so the next start stops at the setup dialog.
- `Configure` is the save of setup, in a run of the client that is not the scheduler. A machine
  that is moved to another workspace is not enrolled again by the code
  (`is_enrolled` looks at files only), so properties about a machine's workspace
  hold for machines that stay (`Reconfigure = FALSE`).

### `Membership`

Four variables, five atomic actions. `Fleet!Promise` maps `member` and `heard` to
the rows of `devices`. A deletion ends the membership of all devices of the
workspace, and none comes back unless it joins while the workspace exists.

### `AdminAccess`

- `accounts` stores the password where the table stores its bcrypt hash; hashing
  takes time, which is why `SetupCheck` and `SetupInsert` are two steps. The form's
  refusal of empty names and short passwords (400) is left out: for the tab it is
  one more refusal.
- `req` are requests under way; a request carries the token the browser held when it
  was sent. A tab that is reloaded stops waiting; the handler runs on.
- `ServerCrash` empties `sessions`, which live in memory, and loses running requests;
  a request sent while the server is down is lost at once.
- `ReceiveStatus` and `ReceiveProbe` are `checkAuth` with its `catch`; `Unauthorized`
  is the branch of `request()` that clears the browser's token, whichever token
  the refused request carried.

### `AgentFiles`

- A target stands for the pair of host and workspace id, `Blank` for a pair with an
  empty part. An emptied `NS7Conf.toml` parses, because every part of it has a
  default, as a blank configuration (`Saved`), and counts as not configured.
- `Resolve` is `resolve_config` with its order: flags, environment, file, dialog;
  `Chosen` lays the port overrides on top. `SaveEmpties`, `SaveFills`, `SaveFails` are
  `config::save` in its three places; `StatusWrite` is `status::write`. Either write fails
  before its file is emptied or after, as on a full disk.
- `written` is history: no report of an answered check-in, neither its save nor its
  snapshot, was lost to a failing write or to a crash in the middle of it.
- Time is the number of the check-in; a count stands for both counts of the snapshot.
- Enrollment between `Resolve` and the scheduler is one choice: it succeeds or ends
  the process (`Proceed`). `--reenroll` is in `Fleet`.

### `Consent`

- `pc` is the scheduler inside `run_once`: `deciding` is between two findings, `waiting`
  is in `run_helper`. A dialog is a helper process; it belongs to a round and an item,
  and once the agent has stopped waiting for it its answer reaches nobody.
- `HelperAnswered`, `Timeout`, `HelperFails` are the three ways in which `request`
  comes to a decision; the last two decline. `Stop` is the end of the agent, which leaves its
  dialogs open and forgets the loop.
- `dialog` in a decision is history: it names the dialog that was read.

### `FindingRule`

- A text is the sequence of its segments between dots; a number is a segment of
  digits, a word any other. `Columns` are the cells of a line as `inventory.rs` cuts it.
- `Match`, `Equal`, `Differ`, `Exhausted`, `Skip` are the branches of the two loops;
  `Older` and `Before` are the references they are compared with. `Older` reads segments as
  the code does, `Before` as numbers of any size.

### `ConsolePage`

- A version numbers the states of the table; a list carries the version it was
  read at, so that how old a list is can be compared. Device counts and names are left out.
- `Effect` is the effect of `useApiData`: it cancels the fetch before. `Deliver` drops
  the answer of a cancelled fetch. `Answered` is the rest of a handler after its `await`:
  a change that succeeded fetches again; a rename or delete that failed does not, and
  its handler ends there.
- An answer reaches the component that asked. A page that was left and opened again
  is another one, so a delete that was under way in between can leave its row on the
  new page's list; `own` therefore begins anew with each mount.
- The answer of a rename closes whichever name is being edited by then.
- With all ids drawn a creation can only fail, which bounds the table.

### `Channel`

- Both sides walk through the list `Senders`; `at` is the message they are at. A message
  is a length and as many units of body; `wire[s]` is what is on its way to `s`. `need`, `got`
  and `whole` are the reader's half of `read_exact`.
- `Handle` is the whole of a handler between reading the request and answering; what it
  does to the tables is in `Fleet`. `Bail` is every early return of either side: unknown device,
  workspace or certificate, failed statement, inventory that cannot be collected. An enrollment for an
  unknown workspace is closed without an answer, too.
- `WriteTooLarge` is the error of `write_message` above the limit of a Noise message;
  nothing has been written then.
- `Break` loses the connection, either with an error on both sides or silently.

## 3. Runs

All runs with `expect: pass` explore their instance completely.

| run | instance | shows |
|---|---|---|
| `fleet_safety` | 2 workspaces, 2 names, 1 agent, 3 keys, 2 server keys, 2 connections, 3 certificates, 3 faults, machines may move | registry, certificates, pins and files stay consistent while an orphaned handler overlaps with a new connection; `Fleet` implements `Membership` |
| `fleet_stay` | 2 workspaces, 2 agents, 3 keys, 2 connections, 3 certificates, 1 fault, machines stay | `MembersOfLiveWorkspacesAreKnown`: nobody loses a row through another's workspace or handler; the inductive invariant `FleetInv`, which contains `IInv` and says that an agent hangs only on a connection that went silent |
| `fleet_liveness` | 1 workspace, 2 names, 1 agent, 3 keys, 4 certificates, 2 faults | the agent checks in again and again, and learns the last name, unless a file stays torn or a connection silent |
| `access_safety` | 1 user, 2 passwords, 2 tokens, 2 tabs of one browser, 2 requests, 1 restart | sessions have accounts and are earned; credentials stay; no tab stays at "Loading"; `IInv` |
| `files_shared` | 2 processes, edits under them, failing writes, 1 check-in, 1 crash | no agent runs blank |
| `files_alone` | 1 process, 2 targets, 2 ports, environment, failing writes, 2 check-ins, 2 crashes | the file names the target in use, unless that came from the environment; a failed check-in shows the last known counts, over restarts and new configurations, unless a report was cut short; a running agent keeps reporting; `IInv` |
| `rule` | versions of up to 4 segments out of 0..3 and a word, where 3 does not fit; tables of up to 2 lines, some short of columns | the loop finds exactly the older lines; numbers that fit compare as numbers; unknown versions are reported; `IInv` |
| `consent` | 2 check-ins with no finding, one, or twice the same; 1 end of the agent | approvals are given, reports decided, left-over dialogs declined, the report comes; `IInv` |
| `console_list` | 1 workspace, a page opened twice, 2 own changes, 1 foreign change, any request may fail | own changes are shown, the list never goes back, the page does not stay loading; `PageInv` |
| `channel` | both handshakes, known and unknown key, bodies of 1 to 3 units with a limit of 2, handshake messages of 2, 3 units in flight, one break of either kind | frames stay whole, too large leaves no trace, tasks end, answers arrive; `Channel` implements `Exchange`; `IInv` |

`IInv` (`PageInv` for the page, `FleetInv` for the fleet) contains the type invariant of its
module, so a run that checks it does not list `TypeOK` again.

### Bounds, and why they are enough

- Two connections are what it takes for a late handler to overlap with a newer one;
  the properties speak of one key and one or two tasks at a time. Two workspaces are
  a machine's old and new one, or the deleted and the surviving one. Three keys
  allow an enrollment, a `--reenroll`, and another `--reenroll` after an
  interruption. `MaxIssued` is at least the number of enrollments those allow.
- `MaxUpsets` bounds crashes of either side, lost connections, failed statements and
  `--reenroll` starts together. Three let a connection break or go silent, the agent be
  reset, and the server or the agent stop in the middle of what follows.
- The theorems of section 5 are free of all these bounds.
- In `AdminAccess` two requests are the two setups, or a login and a page of another
  tab; `TokensLeft` sends a form only while a token is left to be drawn (the code
  draws 32 random bytes and never runs out). `MaxRestarts` bounds crashes.
- In `AgentFiles` two answered check-ins, with any number of failed ones around them,
  let a snapshot be carried forward and be replaced; two crashes are a crash in a
  save and another in the save that repairs it. Writes may fail without a bound, and a process may
  exit and be started again, with another target, without a bound.

- In `FindingRule` two lines show that one line's comparison leaves nothing behind for the
  next; four segments are one more than the recommended version has, and one value above
  the width stands for all. The theorems need none of this.
- In `Consent` a second check-in meets the dialogs of the first, and the same finding twice
  in one check-in is what two installations give. One end of the agent in the middle of a
  loop is followed by a complete one.
- In `ConsolePage` two own changes let two fetches overlap and their answers cross; the
  foreign change moves the table between them. A second workspace multiplies the states
  without a new case, because no definition compares two workspaces.
- In `Channel` three sizes are below, at and above the limit. A window of 3 holds the last
  unit of one message and the head and first unit of the next, the case in which frames
  could run into one another, and is less than two frames, so that writers have to wait.

The fleet and file runs do not check deadlock: a fleet without a configured machine,
one whose bounds are spent, or a process whose user does not answer, may stop. Neither do
`rule`, `consent`, `console_list` and `channel`: the rule ends, the bounds of
check-ins and changes are spent, both sides of a connection end, and after a silent break
they wait for ever. `access_safety` checks it.

Symmetry is used in safety runs only, over sets whose members no definition tells apart.

### Fairness

- `Fleet`: weak fairness of the server's start (`restart: unless-stopped` in
  `ns7-server/deploy/docker-compose.yml`, and the retries of `db.rs`), of each task's
  statements (tokio polls every task, the database answers; when it does not, that
  is `TaskFails`), and of each agent's steps, its start included (the installer's
  shortcut in `ns7-client/wix/main.wxs` starts it at every logon). Nothing is assumed
  about administrators, users, `--reenroll`, or faults. Faults are finite by
  `MaxUpsets`: an agent whose every connection breaks, or whose every inventory or answer is above the
  limit of a message (`Channel`), never checks in.
- `AdminAccess`: weak fairness of handlers and of what a tab makes of an answer. The
  start of the server is not fair: `LoadingEnds` holds with the server down for good.
- `AgentFiles`: weak fairness of the steps of a running process, `run_once` among them, which
  returns with an answer or an error. The user need not answer the dialog, and the server need not
  answer a check-in. A server that neither answers nor breaks the connection is not in this
  module: there `run_once` does not return and nothing is reported (`GoesSilent` of `Fleet`, `Break` of `Channel`).
- `Consent`: weak fairness of the agent's own steps, the timer of `tokio::time::timeout`
  among them. Nothing is assumed about the user.
- `ConsolePage`: weak fairness of React's effect and of each request until it is answered
  or failed and delivered: a browser reports a connection that breaks.
- `Channel`: weak fairness of each side's task (tokio polls a task whose stream is
  ready) and of the handler. Nothing is assumed about a network that went silent;
  `TasksEnd` and `AnswerArrives` name it as the exception, and for it the code has
  no timeout: the agent's scheduler and the server's task wait for ever.

Both liveness properties of `Fleet` name two exceptions, and the code has no repair for either.

- `Damaged`: a torn file. A torn `identity.key` fails every start, a torn pin every
  handshake, until somebody runs `--reenroll` or removes the file. An emptied `NS7Conf.toml` is a blank
  configuration: the agent asks for it in a dialog at every start until somebody answers.
- `Silent`: a connection that went silent and stays so. The agent waits in a read without a timeout.
  That this is the only way in which an agent hangs is `OnlySilenceHangs` (section 5). Nothing is assumed
  about how long the operating system takes to give such a connection up, or that it does.

## 4. Where code and documentation differ

Each of these runs checks one sentence of the repository, and TLC finds a behaviour
of the code that contradicts it. `PROJECT.json` (`findings`) has the details.

| run | sentence | what happens |
|---|---|---|
| `fleet_stale` | "Re-enrolling the same device key replaces the old record" (`registry.rs:75`) | a late handler replaces the newer record by the older |
| `access_race` | "the (single) admin" (`auth.rs:9-10`) | two setups with different usernames both succeed |

Other differences are visible in a definition without a run:

- `--reenroll` makes "a genuinely new device" (`identity.rs:75-78`). Stopped between its
  second and third removal, the next start enrolls the old key again (`ClearEnrollment` in
  `Fleet`, where the key goes last).
- Values of the environment do not "overwrite a saved config" (`main.rs:105-106`). The
  first answered check-in saves them (`CheckinSucceeds`, `SaveFills` in `AgentFiles`).
- `[server]` and `[workspace]` are "yours to edit" (`config.rs:173`), but a running
  agent writes back what it read at its start (`Edit`, `SaveFills` in `AgentFiles`).
- An outage is not to look "like a clean device" (`main.rs:258-260`). It does when the
  snapshot of an answered check-in was lost to a failing write or a crash (`Undisturbed` in `AgentFiles` says so).
- A dialog without an answer is not to block "the daemon forever" (`consent.rs:8-12`), and
  it does not; but the scheduler waits for every dialog in turn, up to the timeout for
  each, before it reports (`RunHelper` in `Consent`).

- `is_enrolled` is "True once this device has completed enrollment"
  (`identity.rs:30-31`), but an empty file counts (`IsEnrolled` in `Fleet`).
- The upsert keeps check-in time and findings of the record that it replaces
  (`registry.rs:78-88`, `Enrolled` in `Fleet`).
- A port override is made "before saving so an override is persisted"
  (`main.rs:69-71`); on top of a saved configuration nothing is saved (`Resolve`).
- `--show-config` is "a read-only query" (`main.rs:117-118`); with a server and a
  workspace on the command line it saves them (`Resolve`).

## 5. Proofs

### `FleetProofs`

Assumptions: those of `Fleet`, namely that `None` and `Torn` are two values different from all
others (`ConstantsDistinct`, `AbsentIsNoRecord`) and that the bounds are numbers. The sets of
workspaces, agents, keys, sessions may be of any size, infinite ones included.

The argument is the inductive invariant `IInv`. The safety properties are not inductive
by themselves. `RegistryVerifies` needs to know that a task about to insert carries a
certificate signed with the stored identity (`TaskSound`), which needs that a
serving server serves that identity (`ServerServesIdentity`). `PinnedKeyIsIdentity` needs
the pin in the memory of an agent that is enrolling, and that this memory and the
task it waits for belong together (`OwnerWaits`, `AgentSound`).
`CertificateIsForKey` rests on the order of the three removals: while the certificate
is still there the key is too. `CertifiedDevicesAreKnown` has to follow a certificate
from insert to answer to memory to disk (`Known`). There is one lemma for each action;
`FleetInvariant` collects them, and six corollaries state the properties.
`FleetImplementsMembership` shows that `Init` maps to `Membership!Init` and every
step, under `IInv`, to a step or a stutter.

### `FleetRowProofs`

It adds to `IInv` what four properties need that speak of more than one enrollment, or of an
agent and its connection; the whole is `FleetInv`, and `FleetStaysSound` proves it.

- `AcceptedIsRecorded`: a check-in is answered after its `UPDATE`, but the row it updated may have been
  replaced or deleted by then. `RecordInv` says that a certificate that waits to be inserted is in
  no row and in no other task (`CertificatesAreFresh`), so an insert cannot bring back an
  unchecked row with a certificate that was checked in, and that a task past its
  `UPDATE` finds its own row checked, or none (`Recorded`). `TaskEases` collects the
  steps that cannot disturb it.
- `MembersOfLiveWorkspacesAreKnown` is about machines that stay (`~Reconfigure`). `MemberInv`
  follows a key: the agent that holds it, the tasks that carry it and the row all name
  the one workspace the machine is configured for, so that the deletion of
  another workspace reaches none of them and a late handler writes what is there already.
- `DevicesStayPut`, an action property, is about the same machines and also about keys that no
  machine holds any more, of which `MemberInv` says nothing: the handler of an enrollment that was given
  up long ago may still insert. `OneHome` says that all enrollments of a key and its row
  are for one workspace; it is kept because `MemberInv` holds when a key is sent. Without
  `~Reconfigure` the property fails: a machine that is moved after a lost answer enrolls its old key.
- `OnlySilenceHangs` (`AgentsHangOnlyInSilence`): an agent waits for an answer without a timeout, and
  hangs when nothing that would end its wait can come any more. A connection that goes silent does that; the theorem
  says that nothing else does, no crash of the server, failed statement, deletion, late handler or
  end of a task. `OwnerWaits` of `IInv` says that the client of a task waits for it; `WaitsOnATask` is
  the converse for an agent whose connection is not silent. With what a task is
  (`TaskSound`), that connection holds its error, its own answer, or a handler of
  a running server.

### `ChannelProofs`

Assumptions: those of `Channel`: limit and window are positive, a handshake message fits.
The sizes of the bodies and the length of the window are arbitrary.

`FramesStayWhole` says that a reader never meets the bytes of another message. It is not
inductive: one has to know what is on the wire. `InFlight` says it unit by unit: what
is on its way to a side is what its peer has written since the start of the message the
side is at (`Written`), less what the side has read of it, and each unit is the one that is
due at its place (`Due`). No side is two frames ahead, because the conversation makes each
wait for the other (`InStep`, with `Turns` for the two lists of senders). `FrameSound` and
`Handled` tie the lengths, the limit and the handler to the places of the two sides.
`WriteStep` and `ReadStep` say once what a unit written or read does to this; the actions use them.
`TooLargeIsNeverPerformed` follows, since a server that has handled a request has
read it whole, so that it was written. `ChannelImplementsExchange` shows
that every step, under `IInv`, is a step or a stutter of `Exchange`, and `AnswersArePerformed`
carries the invariant of `Exchange` (what was answered was performed, what was performed was asked)
over to the connection.

Three theorems say why both tasks end. `OneSideWrites`: two full buffers never face each
other. `NobodyWaitsInVain`: while a task runs, some step of one of the sides is possible, unless the
network went silent; the place of the one that is behind decides which (`NobodyIsStuck`, with the
guards of the steps as `CanWrite`, `CanRead`, `CanEnd`, `CanHandle`). `ConversationsGoForward`: every
step of a side ends it, or takes it on by one message or one unit, of which there are
finitely many.

### `ConsolePageProofs`

Assumptions: `None` is neither a workspace nor a list, bounds are numbers. Any number of
workspaces, requests and changes. The invariant `PageInv` says that the one answer that will be taken is no
older than the list that is shown, nor, unless another fetch is about to start, than what the
page was told is done (`NextListIsNewer`); that needs requests with different numbers
(`FetchesAreApart`) and versions that exist (`VersionsAreReal`). `Kept` collects it with the step
of the list, so that `OwnChangesStayShown` and the action property `ListStaysMonotone`
come out of the same lemmas, one for each action.

`LoadingAwaitsAFetch`: a page that shows "Loading" has the fetch that counts under way, or about to
start. `FormAwaitsItsCreation`: the form is locked exactly while its creation is under way, of
which there is one; the answer to a creation of an earlier visit does not unlock it.

### `AdminAccessProofs`

Assumptions: `None` is none of the values, each tab has a browser. `AccessInv` adds to the two
properties that a handler past its first step is of the kind that gets there and has
username and password (`RequestSound`). From it follow `SessionsHaveAccounts`,
`TokensAreEarned` and, as an action property, `CredentialsStay`.

`IInv` is `AccessInv` and `CheckingIsAsking`: a tab at "Loading" has its request under way
(`CheckingAwaitsAnAnswer`). A tab gives a request up only when it is reloaded, and then it asks
anew.

### `AgentFilesProofs`

Assumptions: those of `AgentFiles` (`None` and `Torn` are no files' contents, `Blank` no target,
bounds are numbers). Any number of processes shares the files. `NeverRunsBlank` is inductive
once it is said of every place from the choice of the configuration on (`KnowsTarget`),
`FileShowsTarget` once it starts where the save ends (`FileTarget`). `OutageShowsLastKnown`
needs what a lone agent's memory, draft, configuration and snapshot have to do with the last
answered check-in at each place, in the scheduler and before it (`LastKnown`): a time is that check-in's or
none, and counts that stand beside it are that check-in's (`Fits`). It is kept over crashes, starts and new
configurations, and lost only with a report that was cut short (`written`).
`ProcessStep` reduces a step to the process that
takes it; there is one lemma for each action.

### `ConsentProofs`

Assumptions: the lists of findings are lists, bounds are numbers. `IInv` adds where the loop
stands: what lies behind it is decided (`InTheLoop`), the dialog it waits for is the last one
and unread (`Waits`), each dialog was read at most once (`ReadOnce`), and a dialog of a
round that is over was declined (`LeftOver`); together they are `LoopInv`, and three properties
follow. `AskedOnce`, that no check-in asks twice about a finding, needs besides that what was asked lies
behind the loop (`AskedBehind`); both are part of `IInv` (`EveryFindingIsAskedOnce`).

### `FindingRuleProofs`

Assumptions: words are no numbers, `unknown` holds none. `IInv` says that the lines
behind are decided as `Older` decides them and that the versions are equal up to the current
segment. From it follow that the loop is exact, that proper versions compare as numbers, and that
unknown versions are reported, for every table and version. `EndingsDoNotCount` says that a segment at
the end that does not parse or is 0 changes nothing, on either side of the comparison;
`OlderIsTransitive`, that the comparison is transitive, unparsed segments included.

### What is only model-checked

- All liveness, which is beyond the prover: `KeepsCheckingIn`, `LearnsWorkspaceName`,
  `LoadingEnds` of `AdminAccess`, `PageLoads`, `KeepsReporting`, `ReportComes`, `TasksEnd`, `AnswerArrives`.
- `NewerRecordStays` and `SingleAdmin`, which the code violates (section 4).

Every invariant, every action property and both refinements of the passing runs are theorems.

For liveness the prover reaches the safety core. `TasksEnd`, `LoadingEnds`, `PageLoads` and the waiting
inside `KeepsCheckingIn` are arguments of one form: whoever waits waits for a step that is possible or
an answer that is under way, and each step goes forward. The first half is `NobodyWaitsInVain`,
`LoadingAwaitsAFetch`, `CheckingAwaitsAnAnswer` and `AgentsHangOnlyInSilence`, the second, for `Channel`,
`ConversationsGoForward`. That a fair step which is possible is taken, that these halves make it
happen, and that the guards written out in `CanWrite` and its siblings are those of the
actions (`ENABLED`), is not proved; TLC checks the outcome.

## 6. Not modelled, and why

- `SERVER_PRIVATE_KEY_HEX`: with it the identity is a constant and nothing is stored.
- Time: intervals and session expiry by time (there is none) are left out; `Wake` may
  come at any moment.
- The bytes of certificates and messages, cryptography: a HMAC verifies for its key
  and content, a handshake succeeds between the two keys it is for.
- Running winget, the tray icon and the layout of the status window: platform output and
  display. What the rule reads of a table is in `FindingRule`, what the window reads of the
  snapshot in `AgentFiles`.
- Devices and Dashboard pages: lists without changes, which is `Mount`, `Effect` and `Deliver` of
  `ConsolePage`. Device counts, texts in forms and the copy button are left out there.
- Migrations and the number of retries at the server's start; two servers on one
  database, which the compose file does not start.
- Plugin configuration, reference configuration, scripts, workflows, images and
  installer, apart from the restart policy and shortcut used under fairness.
- Disk writes that stop half-way: each file is written by one call after it was created or
  emptied, so a file is empty or whole.
- Two agents on one set of identity files.

## 7. Plan

Done: all modules of section 2, theorems for every safety property of the passing runs, the safety
core of the liveness properties, and both refinements.

What would come next, in this order:

1. `ServerStartup`: two servers that start on one empty database (`workspace.rs:52`).
2. `AgentFiles` with identity files shared by two agents.
3. A step of the agent that goes forward in `Fleet` as `ConversationsGoForward` has it in `Channel`.

## 8. Running

    tlc -config MCFleet_safety.cfg MCFleet.tla
    tlapm FleetProofs.tla

Each run of `PROJECT.json` names its module and configuration. Every passing run
ends within about two minutes on two workers.
