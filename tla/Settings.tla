------------------------------- MODULE Settings ------------------------------
(***************************************************************************)
(* Settings: the config table, the cache of each process in front of it    *)
(* (core/runtime_config.py), the master key that secrets are encrypted     *)
(* with (core/crypto.py), and the commands that rotate it or encrypt what  *)
(* is still plain (cli/config.py, services/config_service.py).             *)
(*                                                                         *)
(* Threads of several processes read and change settings.  Whoever needs   *)
(* the master key loads it from its file, and makes one where there is     *)
(* none: a key that is None in a thread or a command is one that was not   *)
(* found and will be made.  A value is the number of the change that wrote *)
(* it, 0 the default; a setting pinned by the environment is not read from *)
(* the table and is not in Keys.  Time is counted where it matters: what   *)
(* is left of a cached value's time to live, and for how long that value   *)
(* has not been the setting's.                                             *)
(***************************************************************************)
EXTENDS Integers, FiniteSets

CONSTANTS
  None,          \* no row, no file, nothing under way
  Keys,          \* settings
  Sensitive,     \* those stored encrypted (SENSITIVE_KEYS)
  Procs,         \* daemons and CLI processes, each with its cache
  Threads,       \* reads and changes that may be under way at once
  Ttl,           \* TTL_SECONDS
  MaxStall,      \* bound: time a thread may take between its read and the cache
  MaxChanges,    \* bound: number of changes
  MaxKeys        \* bound: number of master keys made

ASSUME SettingsAssumption ==
  /\ Sensitive \subseteq Keys
  /\ Ttl \in Nat \ {0} /\ MaxStall \in Nat
  /\ MaxChanges \in Nat /\ MaxKeys \in Nat \ {0}
  /\ None \notin Nat /\ None \notin [val : Nat, enc : Nat]

VARIABLES
  config,     \* the row of each setting: [val, enc], or None
  keyFile,    \* the key in master.key, or None
  backup,     \* the key in master.key.bak, or None
  cache,      \* what each process has cached: [val, failed, left, stale], or None
  thread,     \* what each thread is doing, or None
  command,    \* the rotation or encryption under way, or None
  changes,    \* number of changes so far
  keys,       \* number of master keys made so far
  \* history, read by properties only
  overtaken,  \* settings changed since the command read them
  careless    \* a key was given up or overwritten that a secret may have needed

tableVars == <<config, changes>>
fileVars  == <<keyFile, backup, keys, careless>>
vars == <<config, changes, keyFile, backup, keys, cache, thread, command, overtaken,
          careless>>

Plain == 0     \* a value stored as it is; a master key is a number from 1
Default == 0   \* the default of the schema, as a value

Row(v, enc) == [val |-> v, enc |-> enc]

Encrypted(row) == row # None /\ row.enc # Plain

\* The value a setting has, whoever can decrypt it.
ValueOf(row) == IF row = None THEN Default ELSE row.val

\* Secrets are stored encrypted, or plain by an older version.
Init ==
  /\ config \in {f \in [Keys -> {None} \cup {Row(0, e) : e \in {Plain, 1}}] :
                   \A k \in Keys : Encrypted(f[k]) => k \in Sensitive}
  /\ keyFile = 1 /\ backup = None
  /\ cache = [p \in Procs |-> [k \in Keys |-> None]]
  /\ thread = [t \in Threads |-> None]
  /\ command = None
  /\ changes = 0 /\ keys = 1
  /\ overtaken = {}
  /\ careless = FALSE

\* The key that was not found is made, and written over the one another may have made.
WriteKey ==
  /\ keys < MaxKeys
  /\ keyFile' = keys + 1
  /\ keys' = keys + 1
  /\ careless' = (careless \/ keyFile # None)
  /\ UNCHANGED backup

-----------------------------------------------------------------------------
(* RuntimeConfig.get *)

\* An entry whose time has run out is as good as none, and is not kept here.
Cached(p, k) == cache[p][k] # None

Doing(t, kind, step) ==
  thread[t] # None /\ thread[t].kind = kind /\ thread[t].step = step

\* A session is opened and the key loaded, or found missing.
Open(t, p, k, kind) ==
  thread' = [thread EXCEPT ![t] =
    [kind |-> kind, proc |-> p, key |-> k, step |-> "opened", crypt |-> keyFile,
     val |-> Default, failed |-> FALSE, stalled |-> 0, stale |-> 0]]

\* Not in the cache.
StartGet(t, p, k) ==
  /\ thread[t] = None
  /\ ~Cached(p, k)
  /\ Open(t, p, k, "get")
  /\ UNCHANGED <<tableVars, fileVars, cache, command, overtaken>>

\* No key was found: one is made.
MakeKey(t) ==
  /\ thread[t] # None /\ thread[t].crypt = None
  /\ WriteKey
  /\ thread' = [thread EXCEPT ![t].crypt = keys + 1]
  /\ UNCHANGED <<tableVars, cache, command, overtaken>>

\* The row can be read with the key that was loaded.
Readable(row, crypt) == Encrypted(row) => row.enc = crypt

\* _read_db: the row, or the default if there is none, and if anything goes wrong.
Fetch(t) ==
  LET op == thread[t]
      row == config[op.key]
      Got(v, failed) ==
        thread' = [thread EXCEPT ![t] = [op EXCEPT !.step = "fetched", !.val = v,
                                                   !.failed = failed]]
  IN  /\ Doing(t, "get", "opened")
      /\ \/ op.crypt # None /\ Readable(row, op.crypt) /\ Got(ValueOf(row), FALSE)
         \/ Got(Default, TRUE)
      /\ UNCHANGED <<tableVars, fileVars, cache, command, overtaken>>

\* Mutant: what is left of the entry that is overwritten is added.
TtlAfterLast(entry) == (IF entry = None THEN 0 ELSE entry.left) + Ttl

TtlAfter(entry) == Ttl

\* The cache is filled, whatever has happened since the row was read.
Store(t) ==
  LET op == thread[t]
  IN  /\ Doing(t, "get", "fetched")
      /\ cache' = [cache EXCEPT ![op.proc][op.key] =
                     [val |-> op.val, failed |-> op.failed,
                      left |-> TtlAfter(cache[op.proc][op.key]), stale |-> op.stale]]
      /\ thread' = [thread EXCEPT ![t] = None]
      /\ UNCHANGED <<tableVars, fileVars, command, overtaken>>

-----------------------------------------------------------------------------
(* RuntimeConfig.set and delete, and flowtrack config *)

\* PATCH and DELETE of a setting, or the prompts of the command.
StartChange(t, p, k, kind) ==
  /\ thread[t] = None
  /\ changes < MaxChanges
  /\ Open(t, p, k, kind)
  /\ UNCHANGED <<tableVars, fileVars, cache, command, overtaken>>

StoredWith(k, crypt) == IF k \in Sensitive THEN crypt ELSE Plain

\* ConfigService.set, which encrypts what is sensitive, or delete; then the commit.
CommitChange(t) ==
  LET op == thread[t]
      row == Row(changes + 1, StoredWith(op.key, op.crypt))
  IN  /\ Doing(t, "set", "opened") \/ Doing(t, "delete", "opened")
      /\ op.crypt # None
      /\ changes < MaxChanges
      /\ changes' = changes + 1
      /\ config' = [config EXCEPT ![op.key] = IF op.kind = "set" THEN row ELSE None]
      /\ overtaken' = overtaken \cup {op.key}
      /\ thread' = [thread EXCEPT ![t].step = "committed"]
      /\ UNCHANGED <<fileVars, cache, command>>

\* The cached value is dropped, in this process.
Invalidate(t) ==
  LET op == thread[t]
  IN  /\ op # None /\ op.step = "committed"
      /\ cache' = [cache EXCEPT ![op.proc][op.key] = None]
      /\ thread' = [thread EXCEPT ![t] = None]
      /\ UNCHANGED <<tableVars, fileVars, command, overtaken>>

\* The database or the key fails a change, or the process ends.
FailChange(t) ==
  /\ thread[t] # None /\ thread[t].kind # "get"
  /\ thread' = [thread EXCEPT ![t] = None]
  /\ UNCHANGED <<tableVars, fileVars, cache, command, overtaken>>

-----------------------------------------------------------------------------
(* flowtrack config rotate-key and encrypt; one is run at a time *)

Commanded(step, rows, rewrite, key) ==
  [step |-> step, rows |-> rows, rewrite |-> rewrite, key |-> key]

\* The service is made, and with it the key loaded.
StartCommand ==
  /\ command = None
  /\ command' = Commanded("opened", config, {}, keyFile)
  /\ UNCHANGED <<tableVars, fileVars, cache, thread, overtaken>>

\* No key was found: one is made.
CommandMakesKey ==
  /\ command # None /\ command.key = None /\ command.step # "renamed"
  /\ WriteKey
  /\ command' = [command EXCEPT !.key = keys + 1]
  /\ UNCHANGED <<tableVars, cache, thread, overtaken>>

AtStep(step) == command # None /\ command.step = step

\* rotate-key reads the rows and asks the user; its session keeps the rows it has read.
Ask ==
  /\ AtStep("opened") /\ command.key # None
  /\ \E k \in Keys : Encrypted(config[k])
  /\ command' = Commanded("asked", config, {}, command.key)
  /\ overtaken' = {}
  /\ UNCHANGED <<tableVars, fileVars, cache, thread>>

\* Someone has or will write a secret with a key other than the one in the file.
BackupNeeded ==
  \/ \E k \in Keys : Encrypted(config[k]) /\ config[k].enc # keyFile
  \/ \E t \in Threads : Doing(t, "set", "opened") /\ thread[t].crypt # keyFile

\* Mutant: the old key is not backed up.
NoBackup(key) == None

BackupOf(key) == key

\* Confirmed: master.key is renamed to master.key.bak, over the backup there was.
Rename ==
  /\ AtStep("asked")
  /\ keyFile # None
  /\ backup' = BackupOf(keyFile)
  /\ keyFile' = None
  /\ careless' = (careless \/ BackupNeeded)
  /\ command' = [command EXCEPT !.step = "renamed"]
  /\ UNCHANGED <<tableVars, cache, thread, keys, overtaken>>

\* The new CryptoService finds no key, unless another process has made one.
OpenNewKey ==
  /\ AtStep("renamed")
  /\ command' = [command EXCEPT !.step = "opened anew", !.key = keyFile]
  /\ UNCHANGED <<tableVars, fileVars, cache, thread, overtaken>>

\* The rows are read again, but those the session has are not refreshed.
Requeried ==
  [k \in Keys |-> IF config[k] # None /\ command.rows[k] # None
                    THEN command.rows[k] ELSE config[k]]

Secrets(rows) == {k \in Keys : Encrypted(rows[k])}

\* rotate_key decrypts each secret with the backup; one it cannot decrypt ends it.
Decrypt ==
  /\ AtStep("opened anew") /\ command.key # None
  /\ \A k \in Secrets(Requeried) : Requeried[k].enc = backup
  /\ command' = Commanded("writing", Requeried, Secrets(Requeried), command.key)
  /\ UNCHANGED <<tableVars, fileVars, cache, thread, overtaken>>

\* encrypt_existing: what is sensitive and plain.
Encrypt ==
  /\ AtStep("opened") /\ command.key # None
  /\ command' = Commanded("writing", config,
                          {k \in Sensitive : config[k] # None /\ ~Encrypted(config[k])},
                          command.key)
  /\ overtaken' = {}
  /\ UNCHANGED <<tableVars, fileVars, cache, thread>>

\* Mutant: the text that is encrypted anew is the empty one.
RewrittenBlank(row, key) == Row(Default, key)

Rewritten(row, key) == Row(row.val, key)

\* The commit: every row to rewrite is written as it was read.
Rewrite ==
  /\ AtStep("writing")
  /\ \A k \in command.rewrite : config[k] # None
  /\ config' = [k \in Keys |-> IF k \in command.rewrite
                                 THEN Rewritten(command.rows[k], command.key)
                                 ELSE config[k]]
  /\ command' = None
  /\ UNCHANGED <<fileVars, cache, thread, changes, overtaken>>

\* Nothing to do, an exception, a row that is gone, or the user ends it: nothing is
\* committed, and the files stay as they are.
EndCommand ==
  /\ command # None
  /\ command' = None
  /\ UNCHANGED <<tableVars, fileVars, cache, thread, overtaken>>

\* "Delete after verifying": the user deletes the backup.
DeleteBackup ==
  /\ command = None
  /\ backup # None
  /\ backup' = None
  /\ careless' = (careless \/ BackupNeeded)
  /\ UNCHANGED <<tableVars, keyFile, keys, cache, thread, command, overtaken>>

\* What is not the setting's value has not been for one tick more.
Aged(val, failed, k, stale) ==
  IF failed \/ val = ValueOf(config[k]) THEN 0 ELSE stale + 1

AgedEntry(k, entry) ==
  IF entry = None \/ entry.left = 1 THEN None
  ELSE [entry EXCEPT !.left = @ - 1, !.stale = Aged(entry.val, entry.failed, k, @)]

\* A thread that has read a row fills the cache within MaxStall.
Tick ==
  /\ \A t \in Threads : Doing(t, "get", "fetched") => thread[t].stalled < MaxStall
  /\ cache' = [p \in Procs |-> [k \in Keys |-> AgedEntry(k, cache[p][k])]]
  /\ thread' = [t \in Threads |->
       LET op == thread[t]
       IN  IF Doing(t, "get", "fetched")
             THEN [op EXCEPT !.stalled = @ + 1,
                             !.stale = Aged(op.val, op.failed, op.key, @)]
             ELSE op]
  /\ UNCHANGED <<tableVars, fileVars, command, overtaken>>

-----------------------------------------------------------------------------
Next ==
  \/ \E t \in Threads, p \in Procs, k \in Keys :
       StartGet(t, p, k) \/ StartChange(t, p, k, "set") \/ StartChange(t, p, k, "delete")
  \/ \E t \in Threads :
       MakeKey(t) \/ Fetch(t) \/ Store(t) \/ CommitChange(t) \/ Invalidate(t) \/ FailChange(t)
  \/ StartCommand \/ CommandMakesKey \/ Ask \/ Rename \/ OpenNewKey \/ Decrypt \/ Encrypt
  \/ Rewrite \/ EndCommand \/ DeleteBackup
  \/ Tick

Spec == Init /\ [][Next]_vars

-----------------------------------------------------------------------------
(* Properties *)

Values == 0 .. MaxChanges
MasterKeys == 1 .. MaxKeys
Rows == [val : Values, enc : {Plain} \cup MasterKeys] \cup {None}
Ages == 0 .. Ttl + MaxStall
Entries == [val : Values, failed : BOOLEAN, left : 1 .. Ttl, stale : Ages] \cup {None}
Ops ==
  [kind : {"get", "set", "delete"}, proc : Procs, key : Keys,
   step : {"opened", "fetched", "committed"}, crypt : MasterKeys \cup {None},
   val : Values, failed : BOOLEAN, stalled : 0 .. MaxStall, stale : Ages]
Commands ==
  [step : {"opened", "asked", "renamed", "opened anew", "writing"},
   rows : [Keys -> Rows], rewrite : SUBSET Keys, key : MasterKeys \cup {None}]

\* Rows, files and caches hold what their writers can write; no entry outlives its time.
TypeOK ==
  /\ config \in [Keys -> Rows]
  /\ keyFile \in MasterKeys \cup {None} /\ backup \in MasterKeys \cup {None}
  /\ cache \in [Procs -> [Keys -> Entries]]
  /\ thread \in [Threads -> Ops \cup {None}]
  /\ command \in Commands \cup {None}
  /\ changes \in Values /\ keys \in MasterKeys
  /\ overtaken \subseteq Keys /\ careless \in BOOLEAN

\* "So the new value is visible within one TTL window" (runtime_config.py:9-10), give or
\* take the time between a read and the cache: whichever process changed a setting, and
\* whatever reads were under way, what a process has cached was the setting's value at
\* most that many ticks ago, unless the read failed.
BoundedStaleness ==
  \A p \in Procs, k \in Keys : Cached(p, k) => cache[p][k].stale < Ttl + MaxStall

\* "Old key backed up to" (cli/config.py:91): whatever is set during a rotation and
\* however it ends, one of the two files has the key of every secret, unless a rotation
\* was confirmed, or the backup deleted, while a secret needed the backup, or two
\* processes made a key at once.
SecretsRecoverable ==
  careless \/ \A k \in Keys : Encrypted(config[k]) => config[k].enc \in {keyFile, backup}

\* "Re-encrypt all encrypted values with a new key" (config_service.py:58): a command
\* leaves the value of every setting that nobody changed since the command read it.
RewriteKeepsValues ==
  [][(command # None /\ command' = None)
       => \A k \in Keys \ overtaken : ValueOf(config'[k]) = ValueOf(config[k])]_vars

=============================================================================
