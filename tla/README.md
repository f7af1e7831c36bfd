# Code2Create 2020 app: a verification project

The repository is the iOS app of a hackathon: participants sign in, read the
timeline and redeem food coupons. Its own code is about 1 700 lines of Swift
under `src/Project`; the rest is vendored pods. The state that matters is not in
the app alone but in the Firebase Realtime Database, of which every phone holds a
copy, and in Firebase Auth. Nothing in the repository tests it.

Of the vendored code one part has a state machine of its own that is worth the
trouble: leveldb (pod leveldb-library), the store under the persistence of
FirebaseDatabase. `APLevelDB.mm` opens it with default options and writes with
`sync = false`. The app leaves persistence off (`FRepo.m:127`), so the modules of
leveldb stand beside those of the app and do not compose with them.

Paths below are relative to `src/`; `c2c/` stands for `Project/c2c/`, and `db/`,
`table/`, `util/`, `include/` for directories of `Project/Pods/leveldb-library/`.

## The system

| part | state | operations |
|---|---|---|
| Coupon desk (`c2c/Controller/FoodCoupons.swift`, `validateToken` in `c2c/AppDelegate.swift`) | globals `token`, `currentT`, `tokenRecieved`, `typeArr`, `reedeemedArr`, ...; per instance `k` and the microphone | open, select a row, listen, receive a key, validate, redeem, collect redeemed coupons |
| Admin bypass (`Project/someThingWrongVC.swift`) | none of its own; it writes `tokenRecieved` | type a key, go back |
| Menu (`c2c/Controller/BottomMenuVC.swift`) | UserDefaults `status` | go to a screen, log out |
| Launch and Google sign-in (`c2c/AppDelegate.swift`) | UserDefaults `status`, the window's root screen | launch, sign in, observe `registeredEmails` |
| Log in (`c2c/Controller/ViewController.swift`) | `status`, the one spinner of all screens | log in, ask for another verification mail |
| Sign up (`c2c/Controller/SignUpViewController.swift`) | an observer per press | create an account for a registered email |
| Timeline, sponsors (`AgendaVC.swift`, `SponsorsVC.swift`) | their rows | show every version of a list |
| FAQs, about, prizes, cells, the card transition | constants | none |
| Realtime Database client (pod FirebaseDatabase) | listens, copies, unacknowledged writes, in memory | observe, read, set, acknowledge, revert |
| Firebase Auth (pod FirebaseAuth) | `currentUser`, in the keychain | sign in, create, reload, send mail, sign out |
| leveldb: `DBImpl` (`db/db_impl.cc`) | `writers_`, `mem_`, `imm_`, the log, snapshots, `bg_error_`, `pending_outputs_`, files | open, write, get, take and release a snapshot, compact in the background, compact a range |
| leveldb: versions (`db/version_set.cc`) | `current_`, the manifest, `compact_pointer_`, file numbers | search, pick a level, pick and install a compaction, recover |
| leveldb: the log file (`db/log_writer.cc`, `log_reader.cc`) | the bytes of a file, `block_offset_`; buffer and scratch of the reader | add a record, read a record |
| leveldb: memtable, tables, iterators (`db/skiplist.h`, `table/*.cc`, `db/db_iter.cc`) | nodes and links; blocks with restart points; positions | insert, build, seek, next, prev |

How they interact. Buttons, sounds and all callbacks run on the main queue. A call
into the database is dispatched to the SDK's serial queue; its answer comes back to
the main queue later. Requests to Auth travel to the server and are answered on the
main queue in any order. Controllers talk to each other through globals. An
`observe` is never undone: its closure holds the controller and runs at every change
as long as the process lives, after its screen was covered and after logout.
UserDefaults and the keychain survive the process; the SDK's copies and
unacknowledged writes do not (persistence is not switched on).

What is hard about it:

- between a read of the database and the write that depends on it there is a trip
  through two queues, and other phones write in between;
- every callback reads `Auth.auth().currentUser` again, and it may be another user;
- globals of the selection are overwritten by taps between a comparison and its use;
- writes are announced before the server has them, and may be lost or refused;
- listens may be refused or revoked, while what was chosen from the list stays;
- observers run on the wrong screen, in the wrong session, or on a stale list;
- alerts and segues asked of a controller that is not on the screen do nothing.

And about leveldb:

- `mutex_` is released around every slow step: the append to the log, the insertion
  into the memtable, the building of a table, a merge, the write of the manifest;
- one writer writes for several, with one record and one sync;
- the background thread flushes a memtable in the middle of a merge;
- files are deleted by rules about which version and which log are still needed;
- the process or the machine stops between any two steps, or in the middle of an
  append; a sync, an append, a new file or a block can fail;
- readers walk the memtable's list without a lock while a writer links into it.

What makes each part correct: a record exists only for a coupon whose key was
heard; what was announced is not lost; the redeemed status is that of the account
signed in; only registered people get in; a press is answered; a list on the
screen ends with the newest version of it. leveldb is correct when batches take
effect one after the other and whole, what a reader, a snapshot or an iterator sees
does not change, nothing synced is lost in a crash and nothing at all in a crash of
the process alone, and nobody waits for a background thread that is not coming.
`PROJECT.json` lists the hazards line by line with the properties aimed at them.

## Modules

    CouponLedger            what the desk promises (abstract)
      ^ refined by
    Redemption              the coupon desk on several phones
      EXTENDS RealtimeDatabase    the attendance subtree and its clients
    RedemptionProperties    properties, refinement mapping, inductive invariant
    OrderlyRedemption       Redemption under a discipline the code does not enforce
    RedemptionProofs        theorems (TLAPS): what holds of every use, that the desk
                            implements the ledger, what holds under the discipline
    Session, SessionProperties    getting into the app on one phone
    SessionProofs           theorems
    Feeds, FeedsProperties        the lists of one process
    FeedsProofs             theorems

    KeyValueStore           what leveldb promises (abstract)
      ^ refined by
    LevelDB                 threads, memtables, files, crashes, recovery
      EXTENDS VersionSet          levels of files, compactions (no state)
        EXTENDS InternalKeys      entries: key, sequence number, value (no state)
    LevelDBProperties       properties and the refinement mapping
    LevelDBInvariant        the inductive invariant
    LevelDBProofs           theorems about who waits and who works, and about
                            the files that are kept
    LevelDBCrashProofs      theorems about what a crash leaves, and about what
                            memtables and tables hold
    LevelDBLevelsProofs     theorems about sequence numbers and about what a level
                            may hold
    CompactRange            LevelDB with a caller of DB::CompactRange
    LogFormat, LogFormatProperties    the log file, byte by byte
    LogFormatProofs         theorems
    Cursor                  what an iterator promises (abstract)
      ^ refined by
    Iterators               DBIter over MergingIterator over memtable and tables
      EXTENDS Block, SkipList     (no state)
        EXTENDS ByteKeys          keys as bytes, and their order (no state)
    IteratorsProperties     properties and the refinement mapping
    IteratorsInvariant      the inductive invariant
    IteratorsProofs         theorems about the memtable's list, blocks, tables and
                            iterators

    MC*                     instances for TLC

Definitions that begin with a comment `(mutant)` are not part of the models: each
is a plausible bug in the definition after it, used to see that a property can fail.

**RealtimeDatabase.** A record `<<uid, coupon>>` is the node
`scannables/attendances/<coupon>/couponUidList/<uid>`. A phone listens to all of
`scannables`, so `cache[d]` is a complete copy once `listen[d] = "synced"`; what the
app reads then is `LocalData(d)`, the copy with the phone's own unacknowledged writes.
`ListenAnswered` is the answer "ok" to a listen. `ListenLost` is every other end of
it: refused when it is sent, or sent again after a reconnect
(`FPersistentConnection.m:799-807`), or revoked when the user is gone (638-643). The
copy and all observers go with it (`FSyncTree.m:880-890`); what a screen has read
stays. A read that the phone cannot answer (`Answerable`) is put into `waiting[d]`:
the next answer to the listen answers it too, a write of that very node does, and
without a listen it gets one of its own (`ReadAnswered`), which may be refused as
well. Pushes, puts and acknowledgements are separate network actions; being offline
is their absence. An acknowledgement follows the data on the same connection and is
held back while a listen is unanswered (`NothingAsked`), hence the guards of
`AckWrite` and `RevertWrite`. The database rules are not in the repository:
`Refused` is a constant set of records whose write they may refuse at one time and
accept at another, `refused` the history of those they did, and every listen may be
lost. The app never removes a record, so none is removed.

**Redemption.** `app[d]` holds the globals and the screen, `fbq[d]` the calls
waiting on the SDK's queue, `mainq[d]` the callbacks waiting on the main queue.
`validateToken` is one atomic method up to its read; `FirebaseRead` takes the read,
and answers it or leaves it waiting; `AlreadyRedeemed` and `Redeem` are the two
branches of its callback; `FirebaseSet` makes the write visible. `check` is called by
the observer (`Scannables`) and on the way back from the bypass screen.
`currentUser!` is the disjunct that ends in `Terminate(d, "crashed")`. `Listened`
tells the waiting reads of the answer, in any order, and then the observers;
`ReadReturned` one node's reads, or nobody when they were refused: the app passes no
block for a cancellation, so that `Cancelled` changes nothing on the screen. `heard`
and `served` are history variables: keys that matched, and successes shown.
Abstractions: one call stands for the reads that one `check()` makes for all coupons;
those that the phone can answer are answered together, the others wait one by one,
and only callbacks that find a record are kept, for the others do nothing; two equal
refreshes queued one after the other are one, and so are two reads of `check()`
waiting for the same node; a read with a listen of its own does not leave its node
behind as a copy, for that view ends with its first event; alerts keep
only whether they are the last one of `validateToken`; the other screens are
`"elsewhere"`; `Login` is one step (Session has them all); that a row shown as
Redeemed stops reacting to taps is left out, so the model allows more taps.

**CouponLedger** is the promise: redemptions are owed by a device only after it
heard the key, the ledger grows only by what is owed, and what is owed is struck
off only once recorded, when it is in fact refused, or with the process. Redemption
implements it with `owed` = unacknowledged writes and writes still queued, and
`alive` = the phones whose process runs.

**OrderlyRedemption** restricts the steps of Redemption: one account per phone and
one phone per account, one validation at a time, the process ends only when no write
is outstanding, and the rules refuse no write. Listens may be lost all the same. It
says exactly under which use the README's "one coupon for one meal" holds.

**Session.** One phone; accounts are named by their emails. `requests` are answered
in any order, with success, with an error, or with an error that makes the SDK sign
the user out. `observers` are the closures on `registeredEmails`, each with its
email and its controller; a controller that has left the screen is `"covered"`, and
what it presents is dropped. The handlers are `SignedIn`, `Reloaded`, `Created`,
`VerificationSent`, `GoogleSignedIn`, `ListSeenByApp`, `ListSeenBySignUp`. Passwords
are the nondeterminism of the answers. The listens on `registeredEmails` are taken
as granted and never revoked: one that is refused leaves the press of Sign Up, or of
Google sign-in, without an answer, and changes nothing. UserDefaults `current` is
left out: it only feeds a global that nothing reads.

**Feeds.** Controllers are stacked by the menu and never taken down; each observes
its list, which is taken as granted and never revoked. `table` stands for the global
arrays of FoodCouponsVC, shared by its instances; `data` for the arrays of the
others; `rows` for what the table view was told at its last `reloadData`. `Blank` is
SwiftyJSON's answer to an index past the end. An empty list ends the process for
coupons and sponsors (`Crash`).

**LevelDB.** Between two actions `mutex_` is free, or its holder has released it.
`writer[w].pc` says where a thread is in `DBImpl::Write`: `Write` joins the queue,
`WaitForRoom`, `NoRoom` and `BeginWrite` are the ways out of `MakeRoomForWrite`,
`AppendToLog`, `Sync`, `SyncFails` and `InsertIntoMemTable` run without the mutex,
`Publish` sets `last_sequence_` and answers the group. `bg` is the background
thread: `BeginCompactMemTable`, `BuildTable`, `BeginCompaction`, `WriteOutput`,
`EndMerge`, `InstallVersion` (`LogAndApply`), `BackgroundError`,
`DeleteObsoleteFiles`. A flush can begin between two outputs of a merge, and the
merge goes on after it. `Recover`, `ReplayRecord`, `EndOfLog`, `BeginLog`,
`InstallRecovered` and `FinishOpen` are the steps of `Open`; a crash may come
between any two of them and leaves the tables written so far. `disk` is what a crash
leaves: tables, logs with how many of their records are synced, and the manifest.
`Crash` is the end of the process, or of the machine with any suffix of the unsynced
records of each log. `history` is a history variable: the batches the contents are
made of; after a crash, those that a recovery will find (`Recovered`), of the
history and of the group that was being written. Abstractions: sizes count entries;
every batch writes a value of its own; reference counts are the set of versions that
readers and the compaction hold; file names last once the data is synced; an append
writes a record or nothing (LogFormat has the torn ones); an error of the recovery
only makes `Open` fail, which can be tried again; the sleep of 1 ms at
`kL0_SlowdownWritesTrigger` is timing.

**VersionSet** has, as operators on a version: where `Get` looks and in which order,
`PickLevelForMemTableOutput`, `PickCompaction` with `SetupOtherInputs`, trivial
moves, the outputs of a merge (which entries are dropped, where a file ends), edits.

**KeyValueStore** is the promise: batches are submitted, take effect in some order,
some together, or fail; snapshots and readers see the contents of one moment; a
crash takes away unsynced batches and may bring back those that were never answered
or whose sync failed. LevelDB implements it with `contents` = all entries merged.

**CompactRange** adds the caller of `DB::CompactRange(nullptr, nullptr)`.

**LogFormat.** A byte is `<<p, i>>`, byte i of physical record p, or padding. The
checksum matches just for a whole physical record; of any other header length and
type are arbitrary. `EmitPhysicalRecord` is one turn of the loop of `AddRecord`,
`EmitFails` an append that leaves any part of it behind, `Crash` cuts the file at
any byte, `FillBuffer` and `ReadPhysicalRecord` are the turns of the reader. With
`ReuseLogs` a log is appended to after it was read.

**Iterators.** A step is one turn of a loop of `DBIter`; between steps another
thread inserts, link by link, and in a step a block may turn out unreadable. `Block`
has the iterators of a block and of a table (`TwoLevelIterator`), `SkipList` the
memtable. A search in the skip list is one step: nodes are never removed, and
`SearchesAgree` says that from every position a search may hold it ends where the
lowest list says, so that links set on the way make no difference.

**Cursor** is the promise: five calls that move through the sorted snapshot, as long
as `status()` is ok.

## What is checked

| run | shows | instance |
|---|---|---|
| `redeem_ledger` | `DeskInv` is invariant, `NoRecordWithoutKey`, `RedeemedStatusIsOwn`, and Redemption implements CouponLedger | 1 phone, 1 account, 2 coupons, one of them without its key in the list, any write may be refused, 1 queued call; 530 000 states |
| `redeem_one_phone` | the liveness properties `RedeemedStatusAppears`, `RedemptionIsDelivered`, `ValidationIsAnswered` | 1 phone, 1 account, 1 coupon, any write may be refused, 1 queued call; 182 000 states |
| `redeem_orderly` | under the discipline `OneCouponPerMeal`, `AnnouncedIsKept`, `AnnouncedIsSeen` | 1 phone, 1 coupon, 3 queued calls; 1.4 million states |
| `session` | `OnlyRegistered`, `TimelineIsForMembers` | 2 emails (symmetric), 2 requests or callbacks waiting, 1 observer per process, 3 presses, 1 change of the list; 1.5 million states |
| `session_answers` | `LoginIsAnswered` (liveness) | as above, 2 presses, no change of the list |
| `feeds` | `RowsInRange`, `NewestIsShown`, `UpdateIsShown` (liveness) | 3 topics, lists of at most one of 2 items, 3 screens, 1 change; 64 000 states |
| `leveldb` | LevelDB implements KeyValueStore (`RefinesStore`); `GetFindsTheNewest`, `OverlapsAreCopies`, `NeededFilesExist`, `WaitingIsServed`, `ProcessCrashLosesNothing`, `SyncedWritesSurvive`, `TablesAreNotOverwritten` | 2 writers (symmetric), 1 reader, 1 snapshot, 3 keys, 3 levels, 2 tables of an earlier session, memtables and tables of one batch, 3 events; 67 000 states |
| `log_format` | `RecordsAreWhole`, `RecordsAreRead`, `CrashIsNoCorruption`, `LoopsEnd` (liveness) | blocks of 6 bytes, headers of 2, records of 0, 3, 6 and 9 bytes, 2 records, 1 failure, 2 crashes, logs reused; 505 000 states |
| `iterators` | Iterators implements Cursor (`IsACursor`); `KeysAreDecoded`, `LoopsAdvance`, `SearchesAgree` | 3 user keys, 2 tables of up to two blocks, a memtable with at most one entry and lists of 2 levels, every snapshot, 1 insertion or unreadable block; 87 000 states |

Three runs look for a disagreement with a sentence of the repository and find it:

| run | sentence | what happens |
|---|---|---|
| `one_coupon_per_meal` | README.md:36, one coupon for one meal | a key that is received, or typed, a second time before the first read has come back is answered with success as well; so it is with two phones of one account, or when the phone is killed |
| `torn_append` | include/leveldb/options.h:174, no writes lost when only the process crashes | an append fails half-way, `block_offset_` advances all the same (`log_writer.cc:106`), the next record is appended out of step with the blocks, its caller is told OK, and the reader drops it |
| `compact_range` | db/version_set.cc:747, "Must not overlap" | a merge of level 1 into 2 has inputs with keys 1 and 3; a memtable with key 2 is flushed meanwhile and fits on level 2; the output 1..3 is then installed across it |

The bounds. `MaxQueue` and `MaxCalls` stop new input of the user while that many
calls, callbacks and reads wait. What these set off, and the network, are not
bounded: with one call queued by the user there come the observer's events, the
reads of `check()`, the write and its acknowledgement beside it, and taps that queue
nothing (another row, logout, login, the end of the process) fall between any two of
them. Two let a second validation come between a read and its write
(`one_coupon_per_meal`), three let one come behind a write that is still queued
(`redeem_orderly`). One phone suffices where the property speaks of one device: what
other phones do reaches it only through `records`, which a killed and restarted phone
fills as well; the theorems hold for any number of them. In `redeem_ledger` a tap on the coupon without a
key overwrites the selection of the other; with a key each the instance has more than
four million states, of which the first 3.7 million were searched by hand without
finding anything, and the theorems are about any coupons and keys. Two emails
are one for the account that a callback was meant for and one for whoever replaced
it. In Feeds the third screen lets two instances of the coupons stand over the
timeline, and one change makes each list arrive at least twice.
`MaxServed` only caps a history counter. In Session `MaxPresses` and `MaxChanges`
bound what the user and the organizers begin, not what is answered.

In `leveldb`, `MaxEvents` bounds writes, reads, snapshots, errors and crashes
together; what they set off is not bounded. Three are enough for a write, another
that makes room for itself, and one thing that goes wrong in between; the earlier
tables make every flush meet a level that it overlaps or passes, and a merge is due
as soon as the database is open, so that a memtable is flushed within it. The
triggers are 1, so that writers wait and levels are compacted at once. A wider
instance was run once by hand without finding more: one writer, a snapshot and four
events (1.1 million states), which includes a flush that is retried in a merge and
the recovery after it. In `log_format`
the lengths give records of none, one and several fragments, trailers, and a first
fragment without bytes; with three records it was run by hand (up to 4 million
states). In `iterators` the tables hold puts and deletions of one key in several
layers and blocks with two restart points; two events of different kinds were run by
hand (303 000 states).

Fairness. Dispatch queues are served (`FirebaseStep`, `MainStep`, `Arrived`): the
app does nothing that blocks them. `ServerPut` and `ListUpdate` are fair: the
connection returns in the end and the SDK sends listens and puts again
(`restoreState`). So is `Listened(d) \/ ReadReturned(d, r)`, the answer to a read
that waits, by the listen or on its own. The loss of listens and the refusal of
writes are not: they may happen for ever. Auth's requests are answered, if only with
an error: they have a timeout. No fairness is assumed of taps, of keys, of
organizers or of `Launch`; each leads-to allows for the death of the process or a
change of screen. In LogFormat the turns of the loops are fair: one thread runs them
to their end. LevelDB states no fairness: that a write returns would need the
scheduler's fairness towards every thread, and evaluating it is out of TLC's reach
here. What could go wrong in the code is a lost wakeup, and that is the invariant
`WaitingIsServed`. `LoopsAdvance` likewise stands for the end of the loops of
DBIter.

### Met on the way

Each of these is a sentence or an assertion that the code does not keep, or a
surprise. The definitions named are in the modules, with the shortest trace here;
to see one, check it with the MC module in place of the properties of the run named.

- *`RedeemedStatusIsOwn` without refused writes* (`redeem_ledger`, `refused` struck
  from the property). A coupon is redeemed, the write is an event, `check()` finds
  the pending record and appends the coupon (FoodCoupons.swift:117); then the rules
  refuse the write, `ackWrite` takes the record back (FRepo.m:590-594), and the row
  goes on saying "Redeemed" until the app is started again: nothing empties
  `reedeemedArr`. "Successfully Reedeemed Coupon." was announced before.
- *A validation that waits for the network.* Select a row and log out: the listen is
  revoked, `currentT` and `token` stay. Log in, open the coupons, turn the microphone
  on: a key that comes before the new listen is answered makes `validateToken` read
  what the phone does not have. Nothing is shown until the answer comes
  (`ValidationIsAnswered`), and if the rules refuse the read nothing is shown at all
  (AppDelegate.swift:144 passes no block for it). A refused list is silent too: the
  table stays empty, or as it was.
- *`RedeemedStatusIsOwn` with two accounts* (`redeem_ledger`, `Users = {u1, u2}`).
  One account redeems and logs out; the next one logs in while a `check()` of the
  first is still queued, or simply opens the screen: `reedeemedArr`
  (FoodCoupons.swift:117) is global and never emptied, and its coupon is shown as
  redeemed.
- *`NeverCrashes`* (`redeem_ledger`). Log in, open the coupons; the server signs
  the user out because the token is no longer valid; the list arrives, and
  `currentUser!` (FoodCoupons.swift:114) ends the app.
- *`ToldOnlyIfUnregistered`* (`session`). The first press of Sign Up with a
  registered email: the alert is decided (SignUpViewController.swift:100) before the
  answer can be there.
- *`EnteredOnceConfirmed`* (`session`). Google's sheet is open for one email; Sign Up
  is pressed for another; the account is created, and before its callback runs
  (SignUpViewController.swift:75) Google's answer replaces `currentUser`. The
  callback sees a verified user and enters the unverified email (line 91).
- *`TimelineIsTheAgenda`* (`feeds`). The agenda arrives, is edited, arrives again:
  `get()` appends to `data` (AgendaVC.swift:45), so the old entries stay above the
  new ones.
- *`LevelsAreDisjoint`* (`leveldb`), the assertion "Must not overlap" without
  CompactRange. During a merge a memtable is flushed; the edit reaches the manifest
  but the sync fails; `imm_` stays, the merge goes on, and at its next key
  `CompactMemTable` runs again (db_impl.cc:908) and succeeds. The manifest names two
  equal tables on one level: the next `Open` fails its assertion, or, in a build
  without assertions, works with both. `OverlapsAreCopies` and `GetFindsTheNewest`
  say that nothing worse comes of it. (`compact_range` keeps clear of it: with two
  events there is no room for a failure.)
- A manifest edit of a flush that was written although its sync failed, followed by
  the edit of the merge, moves the log number of the manifest back: a log is
  replayed again whose entries are in a table already. Harmless: they are equal.
- A power failure can lose an unsynced write and keep a later, synced one: the log
  of the memtable before is not synced when `MakeRoomForWrite` begins the next. Nothing
  promises otherwise, and KeyValueStore allows it.

## What is proved

The theorems are proved with TLAPS for every value of the constants that the
assumptions in the modules admit. The assumptions are those of the code: the empty
key, the empty coupon and nil differ from real ones, `KeyOf` maps coupons to keys or
to the empty key, limits and triggers are numbers, there are more than two levels.
Coupons may share a key, and a key may be the name of a coupon, which TLC's
instances leave out; the theorems that need them apart say so. Each inductive
invariant was checked by TLC on the instances above before it was proved.

| module | theorems |
|---|---|
| `RedemptionProofs` | `DeskInvariant`, `TypeCorrect`, `RecordsNeedAKey`, `DeskImplementsLedger`: `Spec => RefinesLedger`; `OrderlyInvariant`, `OneCouponIfOrderly`, `AnnouncedIsKeptIfOrderly`, `AnnouncedIsSeenIfOrderly`; `StatusInvariant`, `StatusIsOwn`, `StatusOfOneAccountIsOwn` |
| `SessionProofs` | `SessionInvariant`, `SessionTypeCorrect`, `OnlyInvitedGetIn`, `TimelineNeedsASignIn` |
| `FeedsProofs` | `FeedsInvariant`, `FeedsTypeCorrect`, `RowsStayInRange`, `NewestListIsShown` |
| `LevelDBProofs` | `WakeInvariant`, `NoWakeupIsLost`; `FilesInvariant`, `NoTableIsOverwritten`, `LogsInvariant`, `NeededFilesAreKept` |
| `LevelDBCrashProofs` | `CrashInvariant`, `ProcessCrashKeepsAll`, `SyncedWritesAreKept`, `EntriesInvariant`, `LevelDBTypeCorrect` |
| `LevelDBLevelsProofs` | `NumbersInvariant`, `LevelsInvariant`, `OverlapsAreOfCopies` |
| `LogFormatProofs` | `LogInvariant`, `LogTypeCorrect`, `RecordsReadAreWhole`, `RecordsInTheLogAreRead`, `NoCorruptionReported` |
| `IteratorsProofs` | `ListIsInOrder`, `SearchesFindTheirPlace`; `ReadersFindTheirEntries`, `IteratorsTypeCorrect`, `KeysAreDecodedAlways`, `ReadersAdvance` |

**The desk.** `NoRecordWithoutKey` is not inductive. A record appears when the server
carries out a write; the write was queued by a callback; the callback answers a read,
which may have waited for the server; and the read was queued because two globals
matched. `DeskInv` therefore says of each stage what the next needs: the two globals
of a selection are of one coupon (`SelectionPaired`); every read queued or waiting,
every callback and every unacknowledged write is of a coupon whose key was heard
(`KeyHeard`); a copy holds only what the server has, none is left without a listen,
and a read waits only for what the phone cannot answer (`CopyIsOld`). That last part
says nothing about how long a validation takes: that no answer is lost is
`ValidationIsAnswered`, which TLC checks. `PhoneStep` reduces a step of one phone to
its new memory, queues and writes; `TerminateInv`, `CheckInv` and `ValidateInv` treat
the operations that several handlers call; `NextInv` puts them together.

**The ledger.** `Owed(d)`, the unacknowledged writes of a phone and the writes still
on its queue, is the ledger's `owed`. Hearing a key is `Hear`; the callback that
finds a coupon free is `Promise`; the server's step `Deliver`; an acknowledgement
`Settle`, a refusal `Refuse`; the end of a process `Forget` and its launch `Start`;
all else leaves the ledger alone.
Two steps are subtle: `FirebaseSet` moves a write from one part of `owed` to the
other, and an acknowledgement strikes nothing off while an equal write is queued.

**The discipline.** Under `Orderly` the queue of a phone is `Tidy`: of its owner,
and no write comes behind a validation, of which there is at most one; beside one
that waits for the server no write is on its way to the client (`WaitsAlone`), so
that an answer that comes with the listen sees all writes before it; and a coupon
that a waiting callback has found free was announced to nobody (`Free`).
`OrderlyInv` adds that what was announced is on the server, in the phone's writes or
on its queue, and in what the phone sees if it has its copy. `Owner` gives each phone
an account and no two phones the same (`OwnerAssumption`), and a step takes a write
off a phone only by acknowledging it, so nothing is refused: these are the
discipline, not the code, and `one_coupon_per_meal` and "Met on the way" show what
happens without.

**The status.** `RedeemedStatusIsOwn` says of a coupon shown as redeemed that the
account signed in has redeemed it: the record is on the server, is a write of this
phone, or was refused. It needs that each phone has one account (`PersonalSpec`), and
nothing about the rules or the listens. `StatusInv` says where a found coupon can be:
in a `check()` that was read for the owner, or waits for the server, in its callback,
in `reedeemedArr`. Of what is found it says the same as the property: a record once
found may leave the phone's copy when the listen is lost, but not the server; and a
pending write that was found ends in the server or in `refused`. The killed process
loses its writes, and `reedeemedArr` with them. `StatusIsOwn` also assumes
`NamesApart`, that no key is the name of a coupon, since `validateToken` appends the
key, not the name, to `reedeemedArr`. `StatusOfOneAccountIsOwn` is the instance of
`redeem_ledger`.

**Session.** An answer arrives when another user may be signed in. `SessionInv` says
of each request, callback and observer what still holds when it is answered, run or
called again: its email was on the list, or some user was signed in or confirmed.
That some user was, and not the one signed in now, is what the code gives:
`EnteredOnceConfirmed` (above) is false.

**Feeds.** `FeedsInv` says of each controller: of the events waiting that fill its
list the last brings the copy of the SDK, and if none waits the last rows are that
copy. Of the coupons only the instance on top counts, for `table` is shared.

**leveldb, who waits.** `WakeInv` states that the background thread is scheduled
whenever it works, is waited for or has something to do. A writer waits for room
because level 0 has as many files as the trigger for stopping; that this is
something to do needs that a level is a finite set, for its files are counted. So
`FinitelyMany` is part of the invariant, and the proof follows an edit from the
inputs of a merge, whose list `AddBoundaryInputs` extends by a recursive function,
to the levels it is applied to. Recursive functions are shown to exist by the least
argument without a value.

**leveldb, tables.** `FilesInv`: what the manifest names lies below the file number
that it tells; what the versions in memory and the background thread name lies below
`next_file_number_`, and is on the disk; an output under construction is in
`pending_outputs_` and no version names it. So a new table never takes the number of
one that is there (`TablesAreNotOverwritten`), and what `DeleteObsoleteFiles` keeps
is enough.

**leveldb, logs.** A log may go when the manifest's log number passes it. That its
entries are in a table by then is `LogsInv`: a writer past the wait for room is the
first of the queue and writes to the current log, so the contents of the immutable
memtable stand still while its table is built; a new memtable begins only when that
one is gone; the edit of a flush carries the current log and its table holds the
memtable; the edit of a merge repeats a log number not above that of the immutable
memtable. It holds as well after an edit of which nobody knows whether it reached
the manifest.

**leveldb, crashes.** `CrashInv` adds where each published batch is: its log number
is below what the manifest passes over, so that a table holds it (`LogsInv`), or the
record that contains its sequence number is in a log that is there, and below what is
synced of that log if the batch asked for it. For the step that publishes, the record
of the group must be in the log before (`GroupIsLogged`), and synced if any of its
batches wants that: a property of `BuildBatchGroup`, which admits such a batch only
behind a first writer that syncs (`GroupAsks`). That a log is not overwritten by a new
one of its number needs that the numbers of all logs are below the next one, except
those still to be replayed (`LogNumbersUsed`). A crash cuts a log only behind what is
synced. What a recovery finds is computed batch by batch; `RecoveredFinds` says by the
least counterexample that it loses no batch that is on the disk and keeps their order.
The theorems are about logs to which a record is appended whole, as LevelDB has them:
`torn_append` shows what happens when an append fails half-way.

**leveldb, contents.** That a table holds entries, and at least one, is not
inductive either (`EntriesInv`). A flush writes no empty table; a recovery writes its
memtable when it is full or has something left at the end of a log; a merge writes
what `Outputs` has put together, so the invariant says of `bg.todo`, which it still
has to write, that these are such tables. `OutputsAreContents` goes with
`ShouldStopBefore` over the entries of the inputs, one by one: no output is closed
without an entry. The inputs are finitely many files with tables that are there,
which needs `FilesInv`, and that `level + 1` is a level: a file charged with too many
seeks was searched before another one, so it is not on the last level
(`ChargedAboveLast`). What comes into memtables are the operations of batches and of
the records in the logs, of which `CrashInv` says what they are. With its
`QueueOK` and `LogsOK`, `TypeOK` follows.

**leveldb, numbers.** That entries are in a strict order of their internal keys needs
that no sequence number is given twice (`NoNumberTwice`), among the entries of logs,
memtables, tables that are in use, what a merge has yet to write and what a recovery
has in its memtable. The same entry may be in several of these. A new number is above
the last one, so every entry written must be at most that (`TablesBelow`,
`LogsBelow`): but the last one known is another for each: `LastSequence` of the open
database, except for the group that is in the log and not published; the number in
the manifest, from which a recovery starts and which the records it replays raise;
and the number in an edit on its way, which is the one the manifest will tell.

**leveldb, levels.** `OverlapsAreCopies` is about versions; what keeps it true is in
the compaction. `AddBoundaryInputs` and `GetOverlappingInputs` take in files until the
keys of the inputs are `Connected`: no key between two inputs is outside all of them
(`PickConnects`, by following the recursive widening of the range). So a file of the
next level that is not an input overlaps none of them, and is apart from every output
(`PickedIsApart`); the outputs are cut from the entries in order, so they are apart
from each other (`OutputsAreInOrder`, `PiecesAreApart`). While the merge goes on
(`MergeOK`) a flush may put a table on the level that the outputs will enter, but only
where it overlaps no file of that level nor of the one above
(`PickLevelForMemTableOutput`), and so no output (`FlushIsApart`). That an edit keeps
levels disjoint (`EditFits`) must hold for two versions: the current one, and that of
the manifest, which after an error may have edits that the current one has not. These
were flushes of the memtable that is there still, or was during this merge; so
`CopiesInManifest` says that what the manifest has more are copies of a file that is
current and not an input of the merge, or of the table that is to come. That the
description of a file gives the ends of its table (`FileOK`) is part of the invariant,
for compactions are picked by descriptions and their entries taken from tables.

**The log file.** `LogInv` is about the bytes of the file, whatever failed, crashed
or was gone on with. `BytesOK`: a byte that is not the first of its physical record is
behind the byte before it, and physical records come in the order in which they were
emitted; an append that is cut off, and a crash that cuts the file, keep that, for
they leave a beginning of the file (`Cut`). `InOrder`: a record is emitted from its
"first" on, and a "middle" or "last" follows one of the same record. `Follows`: in
the file too, it is right behind the whole one before it, with at most padding
between. So the bytes of a buffer that have a good header and are not cut off are one
physical record (`PhysicalFinds`), and what `ReadRecord` has in scratch is a run of
physical records of one `AddRecord` (`ScratchInv`): a bad record clears scratch, and
behind a record that was left unfinished only a new one begins. That gives
`RecordsAreWhole`. The other way about, `RecordsAreRead`, needs that nothing failed
and no torn log was gone on with (`Clean`): then physical records lie in their blocks,
one behind the other, with padding only where no header fits (`AlignInv`); so the
reader, which takes a block at a time, is always at the end of a physical record or
of padding (`AtInv`), finds no bad record, has in scratch what it has left unfinished
(`TailInv`), and has returned what ends where it has been (`SeenInv`). This is the
arithmetic of `BlockSize - block_offset_` against `HeaderSize`, for every size of
block that `LogFormatAssumption` admits, the block included in which just a header
still fits and a physical record without payload is emitted. `CrashInv` adds for
`CrashIsNoCorruption` that after one crash no record begins before the one before it
has ended, so that the reader never meets a partial record without its end; only the
end of the file cuts one.

**The skip list.** `SearchesAgree` says that `FindLessThan`, `FindGreaterOrEqual` and
`FindLast`, which go down the levels while a node may be linked on some of its
levels only, end where a walk along the lowest level would. `ListInv` is what they
rely on. `LinksInv`: a link leads to a later node that has the level. `LevelsInv`:
the nodes of a level are on the levels below it, no level above the height is in
use, and no level skips one of its nodes. `InsertInv`: an insertion has linked its
node from below, and on the levels that are left `prev` is still the node behind
which it belongs; that it is, is so because there is one writer at a time, and a new
key differs from all in the list, for its number is above theirs. That keys are in a
strict total order is shown by the first byte in which two differ. A search is a
recursive function on pairs of a node and a level; that it has a value everywhere,
and that its steps come to an end, is shown by the least and the greatest argument
for which it would not (`TailRecursion`, `LastKey`). TLC checks `ListInvariant` on
the instance of `iterators`, and with insertions alone for heights up to 3.

**The iterators.** `ReaderInvariant` goes from the bytes up. `Holds(b, K)`: the block
`b` stores the keys `K`, an entry leaves out a prefix of the key before it, and
nothing at a restart point. `NewBlockIs` shows this of what `BlockBuilder` writes,
whatever the restart interval. An iterator of the block (`BlockIters`) has the key and
the value of the entry where it is, and a restart point that is not behind it; that is
enough for `ParseNextKey` to decode the next entry (`ParseIs`), so that
`CorruptionError` is never reached, and for `Prev` to come back to the entry before.
The binary search of `Seek` may end at any restart point whose key is before the
target (`RestartForIs`); the entries are in order, so the linear search from there
finds the first one not before it (`BlockSeekIs`). `IsTable`: the keys of the index
are not before those of their block and before those of the next, which is what
`FindShortestSeparator` and `FindShortSuccessor` must give (`SeparatorIs`).
`TableIters`: a `TwoLevelIterator` has the block at which its index is, one that could
not be read, or none, and between calls it is at an entry or at its end (`AtRest`);
`SkipEmptyDataBlocksForward` passes blocks that cannot be read and ends in a later
block (`ForwardIs`). `TablesInv`: entries have sequence numbers of their own, so none
is in two tables, or in one and in the memtable; a new write has a number above all.
Hence the children of the `MergingIterator` never have equal keys, and its next
position is strictly behind, or before, its last (`MergedNextIs`, `MergedPrevIs`):
that is `LoopsAdvance`, and it needs that `DBIter` calls each loop only with the
merged iterator in the direction it goes (`CallInv`). An iterator of the memtable
moves over a list that grows meanwhile: `ListInvariant` has it that a level keeps its
nodes and that none is skipped. TLC checked `ReaderInvariant` on the instance of
`iterators` before it was proved.

Recursive functions of the code's loops are shown to exist, and to have a property, by
the least number for which they would not (`Recursion`, `Induction`).

Only model-checked:

- liveness (`RedeemedStatusAppears`, `RedemptionIsDelivered`, `ValidationIsAnswered`,
  `LoginIsAnswered`, `UpdateIsShown`, `LoopsEnd`): fairness and ENABLED are beyond the
  prover;
- `RefinesStore` and `GetFindsTheNewest` of LevelDB: they compare what folds and
  recursive functions over histories and levels compute for whole sets of entries,
  which is more than the arguments by least counterexample reach here;
- `IsACursor` of Iterators: that no entry is passed over, and that what `DBIter`
  shows is the newest entry of the snapshot, relates a whole run of a loop to the set
  of all entries.


## What is not modelled

FAQs, about and prizes show constants. Cells, colours and the card transition are
layout; the transition matters only in that the menu does not take the coupons off
the screen. `c2c/Controller/FoodCouponsVC.swift` is an empty class with the name of
the real one, and `Project/PrizesVC.swift` a second `PrizesVC`. The pods Chirp and
GoogleSignIn are binary; their callbacks are modelled from the closures given to
them. Of the two Firebase pods only what the app uses is modelled.

Of leveldb: the caches of tables and blocks (`db/table_cache.cc`, `util/cache.cc`)
decide only whether something is read again; filters, the arena and the operating
system's files (`util/env_posix.cc`) are taken as what they do; `db/repair.cc`,
`db/c.cc`, `db/dumpfile.cc` and `CompactRange` are not called by the repository (the
last is modelled all the same). Left out of the modelled files: `ReuseManifest`,
`ApproximateOffsetOf`, the encoding of edits and batches, compression, checksums of
blocks, footers, statistics, the reader's initial offset (the database passes 0).
In LogFormat a checksum never matches by accident, no payload is itself a log, and
a short read is the end of the file.

The rest of the repository is vendored transport, parsing, images and generated or
declarative headers (gRPC, Protobuf, nanopb, GTMSessionFetcher, Kingfisher,
SwiftyJSON, the other Firebase pods): nine lines of ten, on which nothing modelled
depends, most of them without state that outlives a call. A model of a third of the
repository would be one of declarations.

Further observations in the app:

- `AppDelegate.swift:99` reads `userStatus =` with nothing after it and no such
  variable; as committed the file does not compile. The line is read as absent.
- `AppDelegate.swift:100` compares the string of a stored Bool with `"false"`; it is
  `"1"`, `"0"` or nil, so an unregistered Google user gets no alert and the spinner
  turns for ever.
- Without a selection `validateToken` answers a key with "Coupon already
  reedeemed." (line 183); "Select a coupon to reedeem." (line 170) needs a selected
  coupon whose key is empty.
- `BottomMenuVC.swift:70` builds the alert of a failed logout and never presents it,
  after `status` was already cleared.
- `FoodCoupons.swift:97` and `SponsorsVC.swift:35` do not survive an empty list.

## Plan

Done: the coupon desk with its database, ledger, discipline; Session; Feeds;
leveldb: threads and files, versions, the log file, iterators, with their abstract
specifications; the proofs listed above.

Next, the proofs:

- `GetFindsTheNewest` of LevelDB, from `LevelsInv`: that of two entries of a key the
  newer one is in a memtable, a file or a level that is searched first;
- `IsACursor`: with `ReaderInvariant`, that a child which is not current is at the
  first of its entries behind the current key, or on the way back the last before it.

Next, the model:

1. Event: Session and Redemption composed, so that `Login` of Redemption is the
   sequence of Session's steps, and logout and forced sign-out act on both; show
   that Session implements a small abstract Membership (signed out, asked, in).
2. Feeds with Redemption's `reedeemedArr` and the row that stops reacting, so that
   what a row says and what a tap does can be related.
3. The Realtime Database client in more detail (connection, resent puts and listens,
   views below a listen), shown to implement RealtimeDatabase; Session and Feeds over
   listens that may be lost.
4. leveldb's LRU cache with its handles, and LogFormat as the log of LevelDB.
