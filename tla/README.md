# TLA+ models of libstoragemgmt's client, plugin protocol and plugins

This directory holds TLA+ models of the Python code under `src/` and the TLC
configurations that check them:

- `src/python_binding/lsm/_client.py`: `lsm.Client` and its `_TestClient`;
- `src/plugin/v7k/ibmv7k.py`: the IBM V7000 plugin;
- `src/plugin/smispy/smis_disk.py`: the SMI-S disk conversion.

`PROJECT.json` records four things: the components, every run, the mutants that
show each checked property can fail, and the map from each definition to the
source lines it translates. It also lists the findings and the hazards of the
code.

## The system

A program creates `lsm.Client(uri)`. The Client works out which plugin serves
the URI's scheme. It looks for a Unix domain socket of that name in lsmd's
socket directory. If the socket is missing, `_check_daemon_exists` probes the
other sockets so it can tell PLUGIN_NOT_EXIST from DAEMON_NOT_RUNNING. The
Client then connects and sends `plugin_register`. After that, every stub
(`volumes`, `volume_create`, `job_status`...) does the same few things:

1. It writes one request with `_TransPort.rpc`.
2. It blocks reading one reply. Nothing in the reply says which request it
   answers.
3. It checks the reply's shape with `_return_requires`.

Long operations may return a job id instead of a result. The caller polls
`job_status` until the job leaves IN_PROGRESS, then calls `job_free`
(`_TestClient.wait_to_finish`).

On the plugin side, one process per connection serves requests one at a time.
The V7000 plugin runs each operation as a series of CLI commands over one SSH
session to the array. Several plugin processes, one per Client, drive the same
array, and nothing stops their commands from interleaving. The SMI-S plugin
turns CIM instances into lsm objects; `cim_disk_to_lsm_disk` is its disk
conversion.

Some of the code these parts rely on is not under `src/`:

- the transport (`_transport`);
- `_return_requires` (`_common`);
- the plugin runner;
- the simulator plugin;
- lsmd.

Where a model needs them, they are modelled from `spec.md` and marked
`spec_modelled` in the map.

## Inventory and status

| Part | Source | Module(s) | Status |
|---|---|---|---|
| Client stubs, request/response, read timeout, close | `_client.py` | LsmClient, LsmConnection | partly: the stubs `_TestClient` calls, plus `initiator_grant`, `initiator_revoke` and the masking reads; the other ~60 stubs differ only in name and return shape |
| Transport and plugin runner | not in src (spec 5) | LsmConnection | spec-modelled: FIFO queues of whole messages, one handler run per request |
| Job lifecycle, `wait_to_finish` | `_client.py` | LsmClient, LsmPlugin, LsmConnection | modelled |
| Job-capable plugin (simulator) | not in src (spec 4.3, 6) | LsmPlugin (`Sim*`) | spec-modelled |
| Discovery: `__init__`, `_check_daemon_exists`, `available_plugins` | `_client.py` | Locator | modelled |
| V7000 session and volume operations | `ibmv7k.py` | LsmPlugin (`V7k*`) | modelled: every handler the plugin defines; any other call is NOT_IMPLEMENTED |
| V7000 volume masking: `initiator_grant`, `initiator_revoke`, and reading access back (`initiators`, `volumes_accessible_by_initiator`, `initiators_granted_to_volume`) | `ibmv7k.py` | V7kHostMap (CLI steps), V7kAccess (what it promises), LsmPlugin (the reply the Client sees) | modelled |
| V7000 CLI output parsing | `ibmv7k.py` | V7kParse | partly: `_execute_command_and_parse_detailed` and `_execute_command_and_parse_concise` are modelled; `_pool` and `_volume` only copy fields |
| SMI-S disk conversion | `smis_disk.py` | SmisDisk | partly: OperationalStatus goes through `DMTF.dmtf_op_status_list_conv`, which is not in src |
| Data classes, URI parsing, CLI, logging | not in src | none | out of scope (spec 1) |

## Modules

**LsmPlugin** holds the plugin process's state and one operator per handler.

- The state is a record: registration, `tmo`, the SSH session and the timeout
  it was opened with, the jobs and their kinds, and the number of volumes on
  the array.
- Each handler maps a request and the state to the **set** of possible
  outcomes `[reply, st]`. Failures of SSH or of a CLI command are members of
  that set.
- `V7kTimeOutSet` follows `time_out_set` exactly. It sets `tmo`, closes the
  session, then reconnects, and the reconnect may fail.
- A command on a closed session is `V7kSshDown`, which gives PLUGIN_BUG. The
  closed paramiko client raises something other than an LsmError.
- `V7kInitiatorGrant` returns what `initiator_grant` returns: NO_SUPPORT for
  access other than rw, a CLI error (PLUGIN_ERROR, NOT_FOUND_INITIATOR,
  UNSUPPORTED_INITIATOR_TYPE), or the bool `_initiator_grant_is_success`.
  The CLI steps behind it, and their effect on the array, are V7kHostMap's.
- `V7kInitiators`, `V7kVolumesAccessible` and `V7kInitiatorsGranted` are the
  three masking reads as the Client sees them: a CLI error or a list of
  initiators (at most `ArrayHosts`) or of volumes (at most those on the
  array).
- The `Sim*` handlers include `volume_replicate` and `volume_resize`, which
  answer a volume or a job, and `volume_online` and `volume_offline`.
- `Handle` is the runner's dispatch. A plugin that has exited answers with EOF,
  which the client sees as TRANSPORT_COMMUNICATION.

**LsmClient** holds the Client object and the program driving it.

- The Client state is `cstate` (init, open, closed, or failed when `__init__`
  raised), the `pending` call and the last `outcome`.
- The program is `_TestClient`. `CallerCalls` is `wait_to_finish`: inside a
  wait the caller may only poll `job_status`, and then it calls `job_free`.
  Outside a wait it may call any stub in `CallerOps`. It waits on the jobs of
  the `DualResultOps`, `volume_create`, `volume_replicate` and
  `volume_resize`, as `test_volumes` does. With `WaitDeletes` it also waits on
  the job id `volume_delete` may return, as spec 4.3 asks. `test_volumes`
  does not do this.
- `Invoke` is a stub passing its local checks (`_check_search_key`), and
  `RejectSearchKey` is the check failing.
- `Complete` is the stub returning. It updates `cstate`: `__init__` raises on
  a failed register, and `close` clears `_tp` after the unregister. It also
  updates the wait and the last job status seen.
- `Returns` and `StubResult` are `_return_requires`. A reply of the wrong shape
  becomes PLUGIN_BUG. A `unicode` declaration accepts a job id or None.
  `Accepts` lets a bool through where an int is declared, since a Python
  bool is an int. A
  typed list (`[Volume]`, `[Pool]`, `[System]`) checks each element, so an
  empty list passes whatever it lists (`ElementOf`; lists are `ListV(kind, n)`).
- `volumes` and `pools` take a search key (`SearchOps`); `systems`,
  `capabilities` and `plugin_info` take none (`InfoOps`), and neither do
  `initiators`, `volumes_accessible_by_initiator` and
  `initiators_granted_to_volume` (`MaskingReadOps`, `[Initiator]` or
  `[Volume]` lists). The V7000 plugin
  answers the last three without a command, so they succeed even on a closed
  session.

**LsmConnection** joins LsmClient and LsmPlugin through the socket.

- `req` and `resp` are the two byte streams, modelled as sequences of
  messages.
- `Send` writes, `Serve` is one request read and handled by the plugin, and
  `Receive` is the blocking read.
- `TimeOut` is the read giving up. It raises TRANSPORT_COMMUNICATION and
  leaves the socket, and any late reply, in place, as the Client does.
- Requests and replies carry nothing that pairs them, as on the wire.

**V7kHostMap** models two plugin processes serving `initiator_grant` and
`initiator_revoke` against one array.

- **Array state:** hosts (an id mapped to an initiator), mappings, and the
  host ids ever used.
- **Process state:** each process's `pc`, which is the next CLI command. The
  lookup `_map_lsm_init_id_to_v7k` is `List`, then one `Detail` per host, then
  `Looked`. After it come `MkHost` and a second lookup, then `MkMap`; or
  `Unmap` then `RmHost`. `Fail` is any command exiting non-zero, which gives
  V7kError and then PLUGIN_ERROR. The revoke swallows a failing `rmhost`.
- **Reads:** `ListHosts` is the `lshost` listing of `initiators()`.
  `VdiskHostMap` is the `lsvdiskhostmap <vol>` of
  `initiators_granted_to_volume`. Each listed host is then read by a
  `HostDetail` (`lshost <id>`, then `_initiator`), and `HostsRead` returns.
  `volumes_accessible_by_initiator` does the lookup and then `HostMaps`
  (`lshostvdiskmap <id>`). The per-volume `lsvdisk` reads can only fail, since
  volumes are not deleted here, and `Fail` covers that. `out` is the list a
  read builds.
- **Ghosts:** `requested` holds the pairs some caller asked to grant. `granted`
  holds grants that returned success, minus later revokes.
- **Composition with LsmPlugin:** `Handler == INSTANCE LsmPlugin WITH ...`
  brings in the V7000 handlers the connection model uses, over a session
  that is up (`SessionUp`). `Reply(p)` is what process p sends back for its
  call (an error code, the grant's bool, the revoke's None, or a list with one
  entry per item read), and `WireOp`/`WireArg` are the request it answers.
  RepliesAsHandlerOffers requires each reply to be one the handler offers, so
  the two models of the same code cannot drift apart. When first checked, it
  found that LsmPlugin's grant handler lacked UNSUPPORTED_INITIATOR_TYPE
  (`_initiator_create`, `ibmv7k.py:311`), which a grant of a missing host of
  another type raises.

**V7kAccess** is what masking promises, over the access relation alone:
the set of `<<initiator, volume>>` pairs the array lets through. It follows
the Client's docstrings of `initiator_grant` ("allows an initiator to access
a volume") and `initiator_revoke`. A call `Start`s, may `Apply` its change to
its own pair once, and `Finish`es; it may finish without a change (an error)
or make the change in its last step. V7kHostMap is checked to implement it
(`AccessSpec == Abs!Spec`) with this refinement mapping:

- `access`: `{<<hosts[h], v>> : <<h, v>> \in maps}`, the initiator of each
  mapped host;
- `call`: the grant or revoke a process is serving, or none while it is idle
  or serving a read;
- `applied`: the revoke has removed its mapping and is at `rmhost`. A grant
  maps and returns in one step, `MkMap`.

So every CLI step of a read, a lookup, `mkhost` and `rmhost` is a stutter of
V7kAccess: none of them changes who can reach which volume.

**Locator** models `Client.__init__`'s socket lookup and `available_plugins`.

- Each `os.path.exists`, `os.walk` and connect is one step.
- `Churn` is lsmd starting a plugin, a plugin dying and leaving its socket
  file, or the file being removed. It interleaves with the client's steps.
- Ghosts record which sockets were live throughout the call (`stable`), live
  at some point during it (`seen`), and whether nothing changed (`quiet`).
- `FairSpec` adds weak fairness on `ClientStep`, the calling thread's steps.

**SmisDisk** models `cim_disk_to_lsm_disk` as operators over one provider
answer, with one `Convert` step.

- The answer covers the properties the conversion reads, including whether
  each is absent (and, for InterconnectType and DiskType, NULL), the number of Primordial extents, the class, and
  the LSI endpoint.
- `DiskTypeOf` is the code's type chain in the code's order. `RefDiskType` is
  an independent reference built with `SelectInSeq`: the first source that
  knows the type.

**V7kParse** models the two readers of CLI output.

- A Python str is a sequence of one-character strings over a small alphabet
  with the delimiter `!` and the newline. `Split`, `Partition` and `IsBlank`
  are `str.split`, `str.partition` and `len(s.strip()) == 0`; `Split` is
  RECURSIVE, like Python's, it keeps empty pieces.
- `ParseDetailed` folds `cmd_output[name] = value` over the lines.
  `ParseConcise` takes the header's names and `output_lines[1:-1]` as rows; a
  row with fewer values than names raises IndexError.
- The state is the object(s) the array describes, the text the CLI prints for
  them (`Concise`, `Detailed`: fields joined by `!`, each line ending in a
  newline), and the result; `ReadConcise` and `ReadDetailed` parse in one
  step.

## Runs

The passing runs:

| Run | Properties | What it shows |
|---|---|---|
| conn_sim | TypeOK, NoJobLeak | With the job plugin and reads that do not time out, a caller that polls its jobs frees every job that `volume_create`, `volume_replicate`, `volume_resize` or `volume_delete` starts. |
| conn_v7k_one_timeout | TimeoutRoundTrip | The caller calls every stub the V7000 plugin implements except `initiator_grant`, the masking reads included. With the plugin's SSH failures and reconnects, a `time_out_get` that returns returns the last `time_out_set`: `tmo` is stored before the reconnect that may fail. With one read timeout a stale reply stays on the socket, and none of these calls leaves one that passes `_return_requires(int)`. The grant's bool does (see observations). |
| hostmap | TypeOK, AccessOnlyAsGranted, GrantedAccessPersists, ReportedAccessWasRequested, AccessSpec, RepliesAsHandlerOffers | Grants, revokes and reads of two processes, with CLI failures, never map a volume to an initiator nobody granted it to. A grant that succeeded is never undone by another process's revoke, because the revoke's `rmhost` runs without `-force`. A successful read reports only access some caller asked for, although it reads by host ids listed one or more commands earlier. And the processes implement V7kAccess: access changes only in the pair of a running grant or revoke, at most once per call. Every reply a process sends, whatever the interleaving, is one LsmPlugin's handler offers for the request. |
| locator | TypeOK, NoDaemonOnlyIfNoneAnswered, ListingCountsLive, CallReturns | While lsmd churns, DAEMON_NOT_RUNNING is reported only if no plugin was live throughout the call. `available_plugins` counts no file twice and skips no plugin that stayed live. `Client()` and `available_plugins()` always return: every scan moves past a file that refuses it. |
| v7k_parse | TypeOK, ConciseRoundTrip, DetailedRoundTrip | Over every listing of up to two columns and two objects, and every detailed view of up to three lines, the readers give back what the CLI printed: one dict per object in order, and each attribute with the text after the first `!` of its line. Of an attribute printed on several lines, only the last survives. |
| smis_disk | TypeOK, TypeMatchesReference | The type chain agrees with the reference whenever InterconnectType is not NULL. |

No property states that every reply answers its own request. Without read
timeouts that follows from the Client having one call outstanding, and with
one it is false, as conn_v7k_stale_list shows.

The violation runs. Each checks one property, and TLC finds it violated by
what the code does:

| Run | Property | Counterexample | Finding |
|---|---|---|---|
| conn_v7k_stale_list | VolumesCountsArray | `volume_create` times out, and the array has made the volume. `volumes(search_key)` reads the create's late reply. `volumes()` then reads the filtered, empty list and returns no volumes while the array holds one. An empty list passes `_return_requires([Volume])`, and `test_volumes` asserts `len(volumes()) == num_volumes`. | spec gap: the spec requires strict alternation but says nothing of resynchronising after a timeout (`_client.py:533`) |
| conn_v7k_reconnect | NoPluginBugReported | `time_out_set`'s reconnect fails. The session stays closed and the next command fails inside paramiko, reported as PLUGIN_BUG. | code bug, `ibmv7k.py:390` |
| conn_v7k_grant | NoPluginBugReported | `initiator_grant(…, rw)` runs on the array, and the plugin returns `_initiator_grant_is_success(stdout)`, a bool. `Client.initiator_grant` is `@_return_requires(None)`, so the caller gets PLUGIN_BUG. | code bug, `ibmv7k.py:477` |
| hostmap_id_reuse | AccessOnlyAsGranted | P1's grant(i1,v1) looks up host h3. P2's revoke(i1,…) deletes h3. P2's grant(i2,…) creates a host that gets id h3. P1's `mkvdiskhostmap -host h3 v1` gives i2 access to v1. | code bug when the array reuses host ids, `ibmv7k.py:347` |
| locator_stale_socket | AvailableListsEveryLive | One socket file left by a dead plugin makes `available_plugins` fail with TRANSPORT_COMMUNICATION instead of listing the live plugins. | spec/code divergence, `_client.py:197` vs spec 8 |
| smis_null_interconnect | DiskTypeIsLsm | A present but NULL InterconnectType makes `disk_type` None. `None == TYPE_UNKNOWN` is false, so DiskType is never read, and a non-LSI disk comes back with type None. | code bug, `smis_disk.py:170` |

For every property of a passing run, PROJECT.json names a mutant: a plausible
bug in the mapped code, which TLC then catches. Examples:

- `rmhost -force`;
- `_check_daemon_exists` giving up at the first dead socket;
- the poll loop waiting for COMPLETE instead of leaving IN_PROGRESS;
- `tmo` stored only after the reconnect;
- `rmvdiskhostmap` without `-host`, dropping every host's mapping of the
  volume (AccessSpec);
- `initiator_grant` without its read-only check (RepliesAsHandlerOffers);
- `_check_daemon_exists` retrying a refused connect on the same file
  (CallReturns);
- the concise reader taking every line after the header as a row, and the
  detailed reader splitting at the last `!`.

### Other observations

Each of these takes a few steps to show, so no run is kept for it:

- `test_volumes` deletes every volume and at once asserts
  `len(volumes()) == 0`, without waiting on the jobs `volume_delete` may
  return (`_client.py:1200`). With the job plugin, whose listing includes
  volumes still being deleted, the assertion fails after one delete job.
- With two read timeouts (`MaxTimeouts = 2` in the stale-list cfg),
  TimeoutRoundTrip fails. `time_out_get` times out, then `time_out_set(40000)`
  times out, and the next `time_out_get` reads the stale 30000, which passes
  `_return_requires(int)`.
- With `initiator_grant` among the V7000 caller's calls, TimeoutRoundTrip
  fails after one timeout. The grant's read times out, its reply `True`
  stays on the socket, and the next `time_out_get` reads it. `True` is an
  int, so `_return_requires(int)` lets it through, and the caller is told
  the timeout is 1 (`_client.py:215`, `ibmv7k.py:477`). `_return_requires`
  is not under `src/`; the spec calls it "dynamically typed return
  validation", and a Python type check accepts a subclass. Without the
  grant, one timeout can only leave `time_out_get` a reply of the wrong
  shape, as conn_v7k_one_timeout shows.

- `test_volumes` calls `volume_delete` and drops the job id it returns. With
  `WaitDeletes = FALSE` and the job plugin, TLC finds NoJobLeak violated: the
  delete job is never freed (`_client.py:1198`, against spec 4.3).
- With host ids reused (`MC_hostmap_id_reuse.cfg`), ReportedAccessWasRequested
  fails too. `initiators_granted_to_volume` lists host h by
  `lsvdiskhostmap`. A revoke then deletes h, and a grant for another initiator
  gets id h. `lshost h` then names that initiator as granted the volume
  (`ibmv7k.py:499`).
- `volume_online` is declared `@_return_requires(unicode)`, while its
  documentation says it returns None (`_client.py:649`). A job id would pass
  the check, and no caller would poll it.

- `_check_search_key` tests `if search_key and …`, so `search_key=''` is sent
  to the plugin (`_client.py:45`).
- After `close()` sets `_tp = None`, any stub raises AttributeError rather than
  an LsmError (`_client.py:175`).
- The comment "This should not cause an exception this time!"
  (`ibmv7k.py:339`) does not hold. A concurrent revoke of the same initiator
  can remove the new host before the second lookup, and the hostmap run
  reaches that interleaving.
- A host with two WWPNs: `lshost <id>` prints a `WWPN` line per port and
  the detailed reader keeps the last (DetailedRoundTrip states this). So
  `_map_lsm_init_id_to_v7k` cannot find the host by its other WWPNs
  (`ibmv7k.py:287`). The TODO in `_initiator` knows of it.
- `md5(SystemName + DeviceID)` has no separator, so the disks ("a", "aa") and
  ("aa", "a") share an id (`smis_disk.py:75`).

## Bounds and why they are enough

- **Connection:**
  - two job ids, so a second job can start while one is polled;
  - two timeout values, so a stale value can differ from the set one;
  - `MaxVolumes = 2`, so a create can be refused at capacity while a create job is running;
  - four search keys: none, empty, supported, bogus;
  - at most one read timeout. One is enough for a stale list to reach
    `volumes()`; a stale *integer* reaching `time_out_get` needs two (see
    observations);
  - the array has one pool (`ArrayPools`), so `pools(search_key)` can answer
    an empty or a full list.
- **Connection, masking reads:** a list of initiators holds at most
  `ArrayHosts = 2`, as many as the host map's two initiators can have.
- **Host map:**
  - two processes, two initiators, two volumes, three host ids;
  - `MaxCalls = 3`: the id-reuse race needs three calls, and so does a read
    racing a revoke and a grant;
  - `MaxFailures = 1`.

  The processes, initiators, volumes and host ids are each symmetric. With
  `MaxCalls` capped, the system really stops, so deadlock is not checked.
- **Locator:** three sockets (the target and two others), and two lsmd changes
  per behaviour. That is enough for a socket to die and another to start
  during one call.
- **SmisDisk:** every combination of the values named in `MC_SmisDisk`:
  absent for every property, NULL for InterconnectType and DiskType (the two
  whose None the code reads as a value; a NULL SystemName, DeviceID or
  Caption is not generated), extent counts 0 to 2, both classes, and all
  endpoint kinds. The conversion is one step and then stops.
- **V7kParse:** names "a" and "ab" (one a prefix of the other), values of
  length 0 to 2, and detailed values holding a `!` at the start and inside.
  Two rows and two columns reach a row after a row and a column after a
  column; three detailed lines reach a name repeated after another. The
  parse is one step and then stops, so deadlock is not checked.

## Fairness

`LsmConnection.Fairness` assumes weak fairness for four actions:

- `Serve`: the plugin process loops reading its socket.
- `Receive`: a blocked read returns once a reply is there.
- `WaitStep`: `wait_to_finish` keeps polling, since its loop has no other
  exit.
- `ArrayProgress`: the array finishes its jobs.

Nothing obliges the caller to make any other call.

`Locator.FairSpec` assumes weak fairness for `ClientStep`, the steps of the
calling thread: `os.path.exists`, `os.listdir`, a connect to a Unix socket
(refused at once when nobody listens) and a `plugin_info` rpc to a plugin
that is live. None waits for another actor of the model. lsmd's changes and
a caller's next call are not fair. The other modules are checked for safety
only.

## Not modelled

- The Client stubs of disks, file systems, exports, access groups and
  replication. No plugin under `src/` implements them, so they only ever
  answer NOT_IMPLEMENTED or NO_SUPPORT.
- CIM parsing, `_pool` and `_volume` (they copy parsed fields into objects),
  formatting, logging, and the JSON codec.
- OperationalStatus conversion (`_disk_status_of_cim_disk`). It uses
  `DMTF.dmtf_op_status_list_conv`, which is neither in `src/` nor described
  in spec.md, so its result cannot be derived; only the missing-property
  branch is known.
- A Client shared by threads. The code has no lock, and spec 5 leaves
  such use unsupported; nothing under `src/` does it.

## Plan for later work

1. Take the composition further than RepliesAsHandlerOffers: drive
   V7kHostMap's processes from Clients, so that a timed-out grant and its
   late reply meet the array's state.
2. Add `_disk_status_of_cim_disk`, once the DMTF conversion it calls is
   specified.
3. Add Client `__init__` followed by the `plugin_register` rpc to Locator, so
   discovery and the first request compose.
4. Feed V7kHostMap's `lshost <id>` through V7kParse, so that a host with
   several WWPNs is looked up as the code really reads it.
