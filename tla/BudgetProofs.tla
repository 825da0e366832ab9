----------------------------- MODULE BudgetProofs -----------------------------
(***************************************************************************)
(* Proofs, for every value of the constants, about the values the runtime  *)
(* configuration gives (Settings), the caps of the budget among them, and  *)
(* about what the agents spend under those caps (Metering).                *)
(***************************************************************************)
EXTENDS Settings, Metering, Sums, SequenceTheorems

(***************************************************************************)
(* Settings: its invariants, and what its commands leave of the values.    *)
(* The ages of cached values and the types go together: a value is read at *)
(* most MaxStall before it is cached, and what it has left to live and how *)
(* long it has been stale add up to no more than Ttl + MaxStall.           *)
(***************************************************************************)

-----------------------------------------------------------------------------
(* The inductive invariants *)

\* A command writes rows that were there, with a key.
WritesRows ==
  AtStep("writing") => command.key # None /\ \A k \in command.rewrite : command.rows[k] # None

\* The files have the key of every secret, of every secret that is about to be written, and
\* of the command that is about to write.
SecretsKept == \A k \in Keys : Encrypted(config[k]) => config[k].enc \in {keyFile, backup}
ThreadsKept ==
  \A t \in Threads : Doing(t, "set", "opened") /\ thread[t].crypt # None
                       => thread[t].crypt \in {keyFile, backup}
CommandKept ==
  \/ AtStep("opened") \/ AtStep("opened anew") \/ AtStep("writing")
  => (command.key # None => command.key = keyFile)

\* Or a key that was needed is lost.
KeysKept == careless \/ (SecretsKept /\ ThreadsKept /\ CommandKept)

\* What a command has read of a setting is its value, unless it was changed since.
ReadsKept ==
  /\ AtStep("asked") \/ AtStep("renamed") \/ AtStep("opened anew")
       => \A k \in Keys \ overtaken : ValueOf(command.rows[k]) = ValueOf(config[k])
  /\ AtStep("writing")
       => \A k \in command.rewrite \ overtaken : command.rows[k].val = ValueOf(config[k])

-----------------------------------------------------------------------------
(* Typing *)

TableTypes == config \in [Keys -> Rows] /\ changes \in Values

FileTypes ==
  /\ keyFile \in MasterKeys \cup {None} /\ backup \in MasterKeys \cup {None}
  /\ keys \in MasterKeys /\ careless \in BOOLEAN

CacheTypes ==
  /\ cache \in [Procs -> [Keys -> Entries]]
  /\ \A p \in Procs, k \in Keys :
       cache[p][k] # None => cache[p][k].left + cache[p][k].stale <= Ttl + MaxStall

ThreadTypes ==
  /\ thread \in [Threads -> Ops \cup {None}]
  /\ \A t \in Threads : thread[t] # None => thread[t].stale <= thread[t].stalled

CommandTypes ==
  /\ command \in Commands \cup {None} /\ overtaken \subseteq Keys
  /\ WritesRows

TypeInv == TableTypes /\ FileTypes /\ CacheTypes /\ ThreadTypes /\ CommandTypes

\* What a step leaves alone keeps its types.
LEMMA Untouched ==
  /\ TableTypes /\ UNCHANGED tableVars => TableTypes'
  /\ FileTypes /\ UNCHANGED fileVars => FileTypes'
  /\ CacheTypes /\ UNCHANGED cache => CacheTypes'
  /\ ThreadTypes /\ UNCHANGED thread => ThreadTypes'
  /\ CommandTypes /\ UNCHANGED <<command, overtaken>> => CommandTypes'
BY DEF tableVars, fileVars, TableTypes, FileTypes, CacheTypes, ThreadTypes, CommandTypes,
       WritesRows, AtStep

\* A stored row is not the row that is missing.
LEMMA RowExists ==
  ASSUME NEW v \in Nat, NEW e \in Nat
  PROVE  Row(v, e) # None /\ ValueOf(Row(v, e)) = v /\ Row(v, e).enc = e
<1>1. Row(v, e) \in [val : Nat, enc : Nat]
  BY DEF Row
<1> QED
  BY <1>1, SettingsAssumption DEF Row, ValueOf

\* A setting has a value, whether it has a row or not.
LEMMA ValueType ==
  ASSUME NEW row \in Rows
  PROVE  ValueOf(row) \in Values /\ (row # None => row.val \in Values)
BY SettingsAssumption DEF Rows, ValueOf, Values, Default

\* The state of an installation is in its types.
LEMMA TypeInit == Init => TypeInv
<1> SUFFICES ASSUME Init PROVE TypeInv
  OBVIOUS
<1> USE SettingsAssumption DEF Init
<1>1. TableTypes
  <2>1. \A e \in {Plain, 1} : Row(0, e) \in Rows
    BY DEF Row, Rows, Plain, Values, MasterKeys
  <2>2. {None} \cup {Row(0, e) : e \in {Plain, 1}} \subseteq Rows
    BY <2>1 DEF Rows
  <2> QED
    BY <2>2 DEF TableTypes, Values
<1>2. FileTypes
  <2>1. keyFile \in MasterKeys /\ keys \in MasterKeys
    BY DEF MasterKeys
  <2> QED
    BY <2>1, Zenon DEF FileTypes
<1>3. CacheTypes
  BY DEF CacheTypes, Entries
<1>4. ThreadTypes
  BY DEF ThreadTypes
<1>5. CommandTypes
  <2>1. command = None /\ overtaken = {}
    OBVIOUS
  <2> QED
    BY <2>1 DEF CommandTypes, WritesRows, AtStep
<1> QED
  BY <1>1, <1>2, <1>3, <1>4, <1>5 DEF TypeInv

\* Writing a new key keeps the types of the files.
LEMMA WriteKeyTypes ==
  ASSUME FileTypes, WriteKey
  PROVE  FileTypes' /\ keys + 1 \in MasterKeys
<1> USE SettingsAssumption
<1>1. keys + 1 \in MasterKeys
  BY DEF WriteKey, FileTypes, MasterKeys
<1>2. careless' \in BOOLEAN
  BY Zenon DEF WriteKey, FileTypes
<1> QED
  BY <1>1, <1>2 DEF WriteKey, FileTypes

\* A thread that opens its session is in the types.
LEMMA OpenTypes ==
  ASSUME FileTypes, ThreadTypes, NEW t \in Threads, NEW p \in Procs, NEW k \in Keys,
         NEW kind \in {"get", "set", "delete"}, Open(t, p, k, kind)
  PROVE  ThreadTypes'
<1> DEFINE op == [kind |-> kind, proc |-> p, key |-> k, step |-> "opened", crypt |-> keyFile,
                  val |-> Default, failed |-> FALSE, stalled |-> 0, stale |-> 0]
<1>1. op \in Ops
  BY SettingsAssumption DEF FileTypes, Ops, Default, Values, Ages
<1>2. op.stale <= op.stalled
  OBVIOUS
<1>3. thread' = [thread EXCEPT ![t] = op]
  BY DEF Open
<1> HIDE DEF op
<1> QED
  BY <1>1, <1>2, <1>3 DEF ThreadTypes

-----------------------------------------------------------------------------
(* Every step keeps the types *)

\* Threads open sessions, make keys, and give up.
LEMMA ThreadStepTypes ==
  ASSUME TypeInv, NEW t \in Threads,
         \/ \E p \in Procs, k \in Keys :
              StartGet(t, p, k) \/ StartChange(t, p, k, "set") \/ StartChange(t, p, k, "delete")
         \/ MakeKey(t) \/ FailChange(t)
  PROVE  TypeInv'
<1> USE SettingsAssumption
<1>0. TableTypes /\ FileTypes /\ CacheTypes /\ ThreadTypes /\ CommandTypes
  BY DEF TypeInv
<1>1. ASSUME NEW p \in Procs, NEW k \in Keys,
             \/ StartGet(t, p, k)
             \/ StartChange(t, p, k, "set") \/ StartChange(t, p, k, "delete")
      PROVE  TypeInv'
  <2>1. \E kind \in {"get", "set", "delete"} : Open(t, p, k, kind)
    BY <1>1 DEF StartGet, StartChange
  <2>2. ThreadTypes'
    BY <1>0, <2>1, OpenTypes
  <2>3. /\ UNCHANGED tableVars /\ UNCHANGED fileVars
        /\ UNCHANGED cache /\ UNCHANGED <<command, overtaken>>
    BY <1>1 DEF StartGet, StartChange
  <2> QED
    BY <1>0, <2>2, <2>3, Untouched DEF TypeInv
<1>2. ASSUME MakeKey(t) PROVE TypeInv'
  <2>1. FileTypes' /\ keys + 1 \in MasterKeys
    BY <1>0, <1>2, WriteKeyTypes DEF MakeKey
  <2>2. thread[t] \in Ops /\ thread[t] # None /\ [thread[t] EXCEPT !.crypt = keys + 1] \in Ops
    <3>1. thread[t] \in Ops
      BY <1>0, <1>2 DEF ThreadTypes, MakeKey
    <3> QED
      BY <1>2, <3>1, <2>1 DEF Ops, MakeKey
  <2>3. thread' = [thread EXCEPT ![t] = [thread[t] EXCEPT !.crypt = keys + 1]]
    BY <1>2 DEF MakeKey
  <2>4. ThreadTypes'
    BY <1>0, <2>2, <2>3 DEF ThreadTypes, Ops
  <2>5. UNCHANGED tableVars /\ UNCHANGED cache /\ UNCHANGED <<command, overtaken>>
    BY <1>2 DEF MakeKey
  <2> QED
    BY <1>0, <2>1, <2>4, <2>5, Untouched DEF TypeInv
<1>3. ASSUME FailChange(t) PROVE TypeInv'
  <2>1. thread' = [thread EXCEPT ![t] = None]
    BY <1>3 DEF FailChange
  <2>2. ThreadTypes'
    BY <1>0, <2>1 DEF ThreadTypes
  <2>3. /\ UNCHANGED tableVars /\ UNCHANGED fileVars
        /\ UNCHANGED cache /\ UNCHANGED <<command, overtaken>>
    BY <1>3 DEF FailChange
  <2> QED
    BY <1>0, <2>2, <2>3, Untouched DEF TypeInv
<1> QED
  BY <1>1, <1>2, <1>3

\* A row that is read is a value.
LEMMA FetchTypes ==
  ASSUME TypeInv, NEW t \in Threads, Fetch(t)
  PROVE  TypeInv'
<1> USE SettingsAssumption
<1>0. TableTypes /\ FileTypes /\ CacheTypes /\ ThreadTypes /\ CommandTypes
  BY DEF TypeInv
<1>1. thread[t] \in Ops /\ thread[t] # None
  BY <1>0 DEF ThreadTypes, Fetch, Doing
<1>2. PICK v \in Values, failed \in BOOLEAN :
        thread' = [thread EXCEPT ![t] = [thread[t] EXCEPT !.step = "fetched", !.val = v,
                                                          !.failed = failed]]
  <2>1. ValueOf(config[thread[t].key]) \in Values /\ Default \in Values
    BY <1>0, <1>1, ValueType DEF TableTypes, Ops, Default, Values
  <2> QED
    BY <2>1 DEF Fetch
<1>3. [thread[t] EXCEPT !.step = "fetched", !.val = v, !.failed = failed] \in Ops
  BY <1>1 DEF Ops
<1>4. ThreadTypes'
  BY <1>0, <1>1, <1>2, <1>3 DEF ThreadTypes, Ops
<1>5. /\ UNCHANGED tableVars /\ UNCHANGED fileVars
      /\ UNCHANGED cache /\ UNCHANGED <<command, overtaken>>
  BY DEF Fetch
<1> QED
  BY <1>0, <1>4, <1>5, Untouched DEF TypeInv

\* What is cached has all its time to live, and was stale no longer than it waited.
LEMMA StoreTypes ==
  ASSUME TypeInv, NEW t \in Threads, Store(t)
  PROVE  TypeInv'
<1> USE SettingsAssumption
<1>0. TableTypes /\ FileTypes /\ CacheTypes /\ ThreadTypes /\ CommandTypes
  BY DEF TypeInv
<1>1. thread[t] \in Ops /\ thread[t].stale <= thread[t].stalled
  BY <1>0 DEF ThreadTypes, Store, Doing
<1> DEFINE op == thread[t]
           entry == [val |-> op.val, failed |-> op.failed, left |-> Ttl, stale |-> op.stale]
<1>2. entry \in Entries /\ entry.left + entry.stale <= Ttl + MaxStall
  <2>1. op.stalled \in 0..MaxStall /\ op.stale \in Ages
    BY <1>1 DEF Ops
  <2>2. entry.left + entry.stale <= Ttl + MaxStall
    BY <1>1, <2>1 DEF Ages
  <2>3. entry \in Entries
    BY <1>1 DEF Entries, Ops
  <2> QED
    BY <2>2, <2>3
<1>3. /\ cache' = [cache EXCEPT ![op.proc][op.key] = entry]
      /\ thread' = [thread EXCEPT ![t] = None]
      /\ UNCHANGED tableVars /\ UNCHANGED fileVars /\ UNCHANGED <<command, overtaken>>
  BY DEF Store, TtlAfter
<1>4. op.proc \in Procs /\ op.key \in Keys
  BY <1>1 DEF Ops
<1> HIDE DEF op, entry
<1>5. CacheTypes'
  BY <1>0, <1>2, <1>3, <1>4 DEF CacheTypes
<1>6. ThreadTypes'
  BY <1>0, <1>3 DEF ThreadTypes
<1> QED
  BY <1>0, <1>3, <1>5, <1>6, Untouched DEF TypeInv

\* A change writes a row encrypted with the key of the thread, or removes the row.
LEMMA CommitTypes ==
  ASSUME TypeInv, NEW t \in Threads, CommitChange(t)
  PROVE  TypeInv'
<1> USE SettingsAssumption
<1>0. TableTypes /\ FileTypes /\ CacheTypes /\ ThreadTypes /\ CommandTypes
  BY DEF TypeInv
<1>1. thread[t] \in Ops /\ thread[t] # None
  BY <1>0 DEF ThreadTypes, CommitChange, Doing
<1> DEFINE op == thread[t]
           row == Row(changes + 1, StoredWith(op.key, op.crypt))
<1>2. changes + 1 \in Values /\ changes' = changes + 1
  BY <1>0 DEF TableTypes, Values, CommitChange
<1>3. op.key \in Keys /\ op.crypt \in MasterKeys
  BY <1>1 DEF Ops, CommitChange
<1>4. row \in Rows
  BY <1>2, <1>3 DEF Row, Rows, StoredWith, Plain
<1>5. config' \in {[config EXCEPT ![op.key] = row], [config EXCEPT ![op.key] = None]}
  BY DEF CommitChange
<1>6. thread' = [thread EXCEPT ![t] = [op EXCEPT !.step = "committed"]]
  BY DEF CommitChange
<1>7. [op EXCEPT !.step = "committed"] \in Ops
  BY <1>1 DEF Ops
<1>8. /\ overtaken' = overtaken \cup {op.key}
      /\ UNCHANGED fileVars /\ UNCHANGED cache /\ UNCHANGED command
  BY DEF CommitChange
<1>9. ThreadTypes'
  BY <1>0, <1>1, <1>6, <1>7 DEF ThreadTypes, Ops
<1> HIDE DEF op, row
<1>10. TableTypes'
  BY <1>0, <1>2, <1>3, <1>4, <1>5 DEF TableTypes, Rows
<1>11. CommandTypes'
  BY <1>0, <1>3, <1>8 DEF CommandTypes, WritesRows, AtStep
<1> QED
  BY <1>0, <1>8, <1>9, <1>10, <1>11, Untouched DEF TypeInv

\* The cached value goes, and the thread with it.
LEMMA InvalidateTypes ==
  ASSUME TypeInv, NEW t \in Threads, Invalidate(t)
  PROVE  TypeInv'
<1>0. TableTypes /\ FileTypes /\ CacheTypes /\ ThreadTypes /\ CommandTypes
  BY DEF TypeInv
<1>1. thread[t] \in Ops
  BY <1>0 DEF ThreadTypes, Invalidate
<1>2. thread[t].proc \in Procs /\ thread[t].key \in Keys
  BY <1>1 DEF Ops
<1>3. /\ cache' = [cache EXCEPT ![thread[t].proc][thread[t].key] = None]
      /\ thread' = [thread EXCEPT ![t] = None]
      /\ UNCHANGED tableVars /\ UNCHANGED fileVars /\ UNCHANGED <<command, overtaken>>
  BY DEF Invalidate
<1>4. CacheTypes'
  BY <1>0, <1>2, <1>3 DEF CacheTypes, Entries
<1>5. ThreadTypes'
  BY <1>0, <1>3 DEF ThreadTypes
<1> QED
  BY <1>0, <1>3, <1>4, <1>5, Untouched DEF TypeInv

\* A command reads rows, and writes only rows that it has read, with a key.
LEMMA CommandStepTypes ==
  ASSUME TypeInv,
         \/ StartCommand \/ CommandMakesKey \/ Ask \/ OpenNewKey \/ Decrypt \/ Encrypt
         \/ EndCommand
  PROVE  TypeInv'
<1> USE SettingsAssumption
<1>0. TableTypes /\ FileTypes /\ CacheTypes /\ ThreadTypes /\ CommandTypes
  BY DEF TypeInv
<1>1. ASSUME StartCommand PROVE TypeInv'
  <2>1. Commanded("opened", config, {}, keyFile) \in Commands
    BY <1>0 DEF Commanded, Commands, TableTypes, FileTypes
  <2>2. command'.step = "opened" /\ command' \in Commands /\ UNCHANGED overtaken
    BY <1>1, <2>1 DEF StartCommand, Commanded
  <2>3. CommandTypes'
    BY <1>0, <2>2 DEF CommandTypes, WritesRows, AtStep
  <2> QED
    BY <1>0, <1>1, <2>3, Untouched DEF TypeInv, StartCommand
<1>2. ASSUME CommandMakesKey PROVE TypeInv'
  <2>1. FileTypes' /\ keys + 1 \in MasterKeys
    BY <1>0, <1>2, WriteKeyTypes DEF CommandMakesKey
  <2>2. command \in Commands
    BY <1>0, <1>2 DEF CommandTypes, CommandMakesKey
  <2>3. ~ AtStep("writing")
    BY <1>0, <1>2 DEF CommandTypes, WritesRows, CommandMakesKey
  <2>4. command' = [command EXCEPT !.key = keys + 1] /\ UNCHANGED overtaken
    BY <1>2 DEF CommandMakesKey
  <2>5. command' \in Commands /\ command'.step = command.step
    BY <2>1, <2>2, <2>4 DEF Commands
  <2>6. CommandTypes'
    BY <1>0, <1>2, <2>3, <2>4, <2>5 DEF CommandTypes, WritesRows, AtStep, CommandMakesKey
  <2> QED
    BY <1>0, <1>2, <2>1, <2>6, Untouched DEF TypeInv, CommandMakesKey
<1>3. ASSUME Ask PROVE TypeInv'
  <2>1. command \in Commands
    BY <1>0, <1>3 DEF CommandTypes, Ask, AtStep
  <2>2. Commanded("asked", config, {}, command.key) \in Commands
    BY <1>0, <2>1 DEF Commanded, Commands, TableTypes
  <2>3. command'.step = "asked" /\ command' \in Commands /\ overtaken' = {}
    BY <1>3, <2>2 DEF Ask, Commanded
  <2>4. CommandTypes'
    BY <2>3 DEF CommandTypes, WritesRows, AtStep
  <2> QED
    BY <1>0, <1>3, <2>4, Untouched DEF TypeInv, Ask
<1>4. ASSUME OpenNewKey PROVE TypeInv'
  <2>1. command \in Commands
    BY <1>0, <1>4 DEF CommandTypes, OpenNewKey, AtStep
  <2>2. command' = [command EXCEPT !.step = "opened anew", !.key = keyFile] /\ UNCHANGED overtaken
    BY <1>4 DEF OpenNewKey
  <2>3. command' \in Commands /\ command'.step = "opened anew"
    BY <1>0, <2>1, <2>2 DEF Commands, FileTypes
  <2>4. CommandTypes'
    BY <1>0, <2>2, <2>3 DEF CommandTypes, WritesRows, AtStep
  <2> QED
    BY <1>0, <1>4, <2>4, Untouched DEF TypeInv, OpenNewKey
<1>5. ASSUME Decrypt PROVE TypeInv'
  <2>1. command \in Commands /\ command.key \in MasterKeys
    BY <1>0, <1>5 DEF CommandTypes, Decrypt, AtStep, Commands
  <2>2. Requeried \in [Keys -> Rows]
    BY <1>0, <2>1 DEF Requeried, TableTypes, Commands
  <2>3. Secrets(Requeried) \subseteq Keys /\ \A k \in Secrets(Requeried) : Requeried[k] # None
    BY DEF Secrets, Encrypted
  <2>4. command' = Commanded("writing", Requeried, Secrets(Requeried), command.key)
        /\ UNCHANGED overtaken
    BY <1>5 DEF Decrypt
  <2>5. /\ command' \in Commands /\ command'.key \in MasterKeys
        /\ \A k \in command'.rewrite : command'.rows[k] # None
    BY <2>1, <2>2, <2>3, <2>4 DEF Commanded, Commands
  <2>6. CommandTypes'
    BY <1>0, <2>4, <2>5 DEF CommandTypes, WritesRows, MasterKeys
  <2> QED
    BY <1>0, <1>5, <2>6, Untouched DEF TypeInv, Decrypt
<1>6. ASSUME Encrypt PROVE TypeInv'
  <2> DEFINE rewrite == {k \in Sensitive : config[k] # None /\ ~Encrypted(config[k])}
  <2>1. command \in Commands /\ command.key \in MasterKeys
    BY <1>0, <1>6 DEF CommandTypes, Encrypt, AtStep, Commands
  <2>2. rewrite \in SUBSET Keys /\ \A k \in rewrite : config[k] # None
    OBVIOUS
  <2>3. command' = Commanded("writing", config, rewrite, command.key) /\ overtaken' = {}
    BY <1>6 DEF Encrypt
  <2> HIDE DEF rewrite
  <2>4. /\ command' \in Commands /\ command'.key \in MasterKeys
        /\ \A k \in command'.rewrite : command'.rows[k] # None
    BY <1>0, <2>1, <2>2, <2>3 DEF Commanded, Commands, TableTypes
  <2>5. CommandTypes'
    BY <2>3, <2>4 DEF CommandTypes, WritesRows, MasterKeys
  <2> QED
    BY <1>0, <1>6, <2>5, Untouched DEF TypeInv, Encrypt
<1>7. ASSUME EndCommand PROVE TypeInv'
  <2>1. CommandTypes'
    BY <1>0, <1>7 DEF CommandTypes, WritesRows, AtStep, EndCommand
  <2> QED
    BY <1>0, <1>7, <2>1, Untouched DEF TypeInv, EndCommand
<1> QED
  BY <1>1, <1>2, <1>3, <1>4, <1>5, <1>6, <1>7

\* The row a command writes is the one it read, encrypted with the command's key.
LEMMA RewriteTypes ==
  ASSUME TypeInv, Rewrite
  PROVE  TypeInv'
<1> USE SettingsAssumption
<1>0. TableTypes /\ FileTypes /\ CacheTypes /\ ThreadTypes /\ CommandTypes
  BY DEF TypeInv
<1>1. command \in Commands /\ command.key \in MasterKeys
  BY <1>0 DEF CommandTypes, WritesRows, Rewrite, AtStep, Commands
<1>2. ASSUME NEW k \in command.rewrite
      PROVE  Rewritten(command.rows[k], command.key) \in Rows
  <2>1. command.rows[k] \in Rows /\ command.rows[k] # None
    BY <1>0, <1>1, <1>2 DEF CommandTypes, WritesRows, Rewrite, Commands
  <2>2. command.rows[k].val \in Values
    BY <2>1, ValueType
  <2> QED
    BY <1>1, <2>2 DEF Rewritten, Row, Rows
<1>3. config' = [k \in Keys |-> IF k \in command.rewrite
                                 THEN Rewritten(command.rows[k], command.key)
                                 ELSE config[k]]
  BY DEF Rewrite
<1>4. TableTypes'
  BY <1>0, <1>2, <1>3 DEF TableTypes, Rewrite
<1>5. CommandTypes'
  BY <1>0 DEF CommandTypes, WritesRows, AtStep, Rewrite
<1> QED
  BY <1>0, <1>4, <1>5, Untouched DEF TypeInv, Rewrite

\* The files change under a command, or without one.
LEMMA FileStepTypes ==
  ASSUME TypeInv, Rename \/ DeleteBackup
  PROVE  TypeInv'
<1>0. TableTypes /\ FileTypes /\ CacheTypes /\ ThreadTypes /\ CommandTypes
  BY DEF TypeInv
<1>1. careless' \in BOOLEAN
  BY <1>0, Zenon DEF FileTypes, Rename, DeleteBackup
<1>2. FileTypes'
  BY <1>0, <1>1 DEF FileTypes, Rename, DeleteBackup, BackupOf
<1>3. CASE Rename
  <2>1. command \in Commands
    BY <1>0, <1>3 DEF CommandTypes, Rename, AtStep
  <2>2. command' = [command EXCEPT !.step = "renamed"] /\ UNCHANGED overtaken
    BY <1>3 DEF Rename
  <2>3. command' \in Commands /\ command'.step = "renamed"
    BY <2>1, <2>2 DEF Commands
  <2>4. CommandTypes'
    BY <1>0, <2>2, <2>3 DEF CommandTypes, WritesRows, AtStep
  <2> QED
    BY <1>0, <1>2, <1>3, <2>4, Untouched DEF TypeInv, Rename
<1>4. CASE DeleteBackup
  BY <1>0, <1>2, <1>4, Untouched DEF TypeInv, DeleteBackup
<1> QED
  BY <1>3, <1>4

\* A tick takes one from the time to live and adds at most one to the staleness.
LEMMA TickTypes ==
  ASSUME TypeInv, Tick
  PROVE  TypeInv'
<1> USE SettingsAssumption
<1>0. TableTypes /\ FileTypes /\ CacheTypes /\ ThreadTypes /\ CommandTypes
  BY DEF TypeInv
<1>1. ASSUME NEW val, NEW failed, NEW k, NEW stale \in Nat
      PROVE  Aged(val, failed, k, stale) \in Nat /\ Aged(val, failed, k, stale) <= stale + 1
  BY DEF Aged
<1>2. ASSUME NEW p \in Procs, NEW k \in Keys, AgedEntry(k, cache[p][k]) # None
      PROVE  /\ AgedEntry(k, cache[p][k]) \in Entries
             /\ AgedEntry(k, cache[p][k]).left + AgedEntry(k, cache[p][k]).stale <= Ttl + MaxStall
  <2> DEFINE entry == cache[p][k]
             aged == Aged(entry.val, entry.failed, k, entry.stale)
  <2>1. entry \in Entries /\ entry # None /\ entry.left # 1
    BY <1>0, <1>2 DEF CacheTypes, AgedEntry
  <2>2. entry.left + entry.stale <= Ttl + MaxStall
    BY <1>0, <2>1 DEF CacheTypes
  <2>3. AgedEntry(k, entry) = [entry EXCEPT !.left = entry.left - 1, !.stale = aged]
    BY <2>1 DEF AgedEntry
  <2>4. entry.left \in 1..Ttl /\ entry.stale \in Nat
    BY <2>1 DEF Entries, Ages
  <2>5. aged \in Nat /\ aged <= entry.stale + 1
    BY <1>1, <2>4
  <2> HIDE DEF aged
  <2>6. entry.left - 1 \in 1..Ttl /\ (entry.left - 1) + aged <= Ttl + MaxStall
    BY <2>1, <2>2, <2>4, <2>5
  <2>7. aged \in Ages
    BY <2>5, <2>6 DEF Ages
  <2>8. [entry EXCEPT !.left = entry.left - 1, !.stale = aged] \in Entries
    BY <2>1, <2>6, <2>7 DEF Entries
  <2>9. /\ [entry EXCEPT !.left = entry.left - 1, !.stale = aged].left = entry.left - 1
        /\ [entry EXCEPT !.left = entry.left - 1, !.stale = aged].stale = aged
    BY <2>1 DEF Entries
  <2> QED
    BY <2>3, <2>6, <2>8, <2>9
<1>3. CacheTypes'
  <2>1. cache' = [p \in Procs |-> [k \in Keys |-> AgedEntry(k, cache[p][k])]]
    BY DEF Tick
  <2>2. \A p \in Procs, k \in Keys : AgedEntry(k, cache[p][k]) \in Entries
    BY <1>2 DEF Entries
  <2> QED
    BY <1>2, <2>1, <2>2 DEF CacheTypes
<1>4. ASSUME NEW t \in Threads, thread'[t] # None
      PROVE  thread'[t] \in Ops /\ thread'[t].stale <= thread'[t].stalled
  <2> DEFINE op == thread[t]
             aged == Aged(op.val, op.failed, op.key, op.stale)
  <2>1. CASE Doing(t, "get", "fetched")
    <3>1. thread'[t] = [op EXCEPT !.stalled = op.stalled + 1, !.stale = aged]
      BY <2>1 DEF Tick
    <3>2. op \in Ops /\ op.stale <= op.stalled /\ op.stalled < MaxStall
      BY <1>0, <2>1 DEF ThreadTypes, Doing, Tick
    <3>3. op.stalled \in 0..MaxStall /\ op.stale \in Nat
      BY <3>2 DEF Ops, Ages
    <3>4. aged \in Nat /\ aged <= op.stale + 1
      BY <1>1, <3>3
    <3> HIDE DEF aged
    <3>5. op.stalled + 1 \in 0..MaxStall /\ aged \in Ages /\ aged <= op.stalled + 1
      BY <3>2, <3>3, <3>4 DEF Ages
    <3>6. [op EXCEPT !.stalled = op.stalled + 1, !.stale = aged] \in Ops
      BY <3>2, <3>5 DEF Ops
    <3>7. /\ [op EXCEPT !.stalled = op.stalled + 1, !.stale = aged].stalled = op.stalled + 1
          /\ [op EXCEPT !.stalled = op.stalled + 1, !.stale = aged].stale = aged
      BY <3>2 DEF Ops
    <3> QED
      BY <3>1, <3>5, <3>6, <3>7
  <2>2. CASE ~Doing(t, "get", "fetched")
    BY <1>0, <1>4, <2>2 DEF ThreadTypes, Tick
  <2> QED
    BY <2>1, <2>2
<1>5. ThreadTypes'
  <2>1. thread' = [t \in Threads |-> thread'[t]]
    BY DEF Tick
  <2> QED
    BY <1>4, <2>1 DEF ThreadTypes
<1> QED
  BY <1>0, <1>3, <1>5, Untouched DEF TypeInv, Tick

\* Each step keeps the typing invariant.
LEMMA TypeStep == TypeInv /\ [Next]_vars => TypeInv'
<1> SUFFICES ASSUME TypeInv, [Next]_vars PROVE TypeInv'
  OBVIOUS
<1>1. CASE UNCHANGED vars
  <2>1. UNCHANGED tableVars /\ UNCHANGED fileVars
    BY <1>1 DEF vars, tableVars, fileVars
  <2> QED
    BY <1>1, <2>1, Untouched DEF TypeInv, vars
<1>2. CASE Next
  BY <1>2, ThreadStepTypes, FetchTypes, StoreTypes, CommitTypes, InvalidateTypes,
     CommandStepTypes, RewriteTypes, FileStepTypes, TickTypes DEF Next
<1> QED
  BY <1>1, <1>2

\* Settings are always in their types.
LEMMA TypeInvariant == Spec => []TypeInv
BY TypeInit, TypeStep, PTL DEF Spec

\* Rows, files and caches hold what their writers can write, and no entry outlives its
\* time (runtime_config.py, crypto.py, cli/config.py).
THEOREM TypeCorrect == Spec => []TypeOK
<1>1. TypeInv => TypeOK
  BY DEF TypeInv, TypeOK, TableTypes, FileTypes, CacheTypes, ThreadTypes, CommandTypes
<1> QED
  BY <1>1, TypeInvariant, PTL

\* Whatever was changed and whatever reads were under way, what a process has cached was
\* the setting's value at most one time to live and one stall ago (RuntimeConfig.get).
THEOREM StalenessBounded == Spec => []BoundedStaleness
<1>1. TypeInv => BoundedStaleness
  <2> SUFFICES ASSUME TypeInv, NEW p \in Procs, NEW k \in Keys, Cached(p, k)
               PROVE  cache[p][k].stale < Ttl + MaxStall
    BY DEF BoundedStaleness
  <2>1. cache[p][k] \in Entries /\ cache[p][k] # None
    BY DEF TypeInv, CacheTypes, Cached
  <2>2. cache[p][k].left + cache[p][k].stale <= Ttl + MaxStall
    BY <2>1 DEF TypeInv, CacheTypes
  <2>3. cache[p][k].left \in 1..Ttl /\ cache[p][k].stale \in Ages
    BY <2>1 DEF Entries
  <2> QED
    BY <2>2, <2>3, SettingsAssumption DEF Ages
<1> QED
  BY <1>1, TypeInvariant, PTL

-----------------------------------------------------------------------------
(* The key of every secret is in one of the two files *)

\* A key is only made where there is none, or the one that was there is given up.
LEMMA MadeKey ==
  ASSUME TypeInv, SecretsKept, ThreadsKept, CommandKept, WriteKey, ~careless'
  PROVE  /\ keyFile = None /\ keyFile' = keys + 1 /\ backup' = backup
         /\ \A k \in Keys : Encrypted(config[k]) => config[k].enc = backup
         /\ \A t \in Threads : Doing(t, "set", "opened") /\ thread[t].crypt # None
                                => thread[t].crypt = backup
         /\ \/ AtStep("opened") \/ AtStep("opened anew") \/ AtStep("writing")
            => command.key = None
<1>1. keyFile = None /\ keyFile' = keys + 1 /\ backup' = backup
  BY DEF WriteKey
<1>2. ASSUME NEW k \in Keys, Encrypted(config[k]) PROVE config[k].enc = backup
  <2>1. config[k] \in Rows /\ config[k] # None
    BY <1>2 DEF TypeInv, TableTypes, Encrypted
  <2>2. config[k].enc # None
    BY <2>1, SettingsAssumption DEF Rows, Plain, MasterKeys
  <2> QED
    BY <1>1, <1>2, <2>2 DEF SecretsKept
<1> QED
  BY <1>1, <1>2 DEF ThreadsKept, CommandKept

\* Unless one is needed that they do not have, the files have every key that is needed.
LEMMA NothingNeeded ==
  ASSUME ~BackupNeeded
  PROVE  /\ \A k \in Keys : Encrypted(config[k]) => config[k].enc = keyFile
         /\ \A t \in Threads : Doing(t, "set", "opened") => thread[t].crypt = keyFile
BY DEF BackupNeeded

\* A thread that does not set what it may not have set keeps ThreadsKept.
LEMMA ThreadsUntouched ==
  ASSUME ThreadsKept, NEW t \in Threads, ~Doing(t, "set", "opened")',
         \A u \in Threads \ {t} : thread'[u] = thread[u], UNCHANGED <<keyFile, backup>>
  PROVE  ThreadsKept'
BY DEF ThreadsKept, Doing

\* A key is overwritten or renamed only when it is in the other file or needed no more.
LEMMA KeysStep ==
  ASSUME TypeInv, KeysKept, [Next]_vars
  PROVE  KeysKept'
<1> USE SettingsAssumption
<1>1. (careless => careless') /\ (careless \/ (SecretsKept /\ ThreadsKept /\ CommandKept))
  <2>1. careless => careless'
    BY Zenon DEF Next, vars, StartGet, StartChange, MakeKey, Fetch, Store, CommitChange,
       Invalidate, FailChange, StartCommand, CommandMakesKey, Ask, Rename, OpenNewKey, Decrypt,
       Encrypt, Rewrite, EndCommand, DeleteBackup, Tick, WriteKey, fileVars
  <2> QED
    BY <2>1 DEF KeysKept
<1> SUFFICES ASSUME ~careless', SecretsKept, ThreadsKept, CommandKept
             PROVE  SecretsKept' /\ ThreadsKept' /\ CommandKept'
  BY <1>1 DEF KeysKept
<1>0. TableTypes /\ FileTypes /\ ThreadTypes /\ CommandTypes
  BY DEF TypeInv
<1>2. ASSUME NEW t \in Threads, NEW p \in Procs, NEW k \in Keys,
             \/ StartGet(t, p, k)
             \/ StartChange(t, p, k, "set") \/ StartChange(t, p, k, "delete")
      PROVE  SecretsKept' /\ ThreadsKept' /\ CommandKept'
  <2>1. PICK kind \in {"get", "set", "delete"} : Open(t, p, k, kind)
    BY <1>2 DEF StartGet, StartChange
  <2>2. UNCHANGED <<config, keyFile, backup, command>>
    BY <1>2 DEF StartGet, StartChange, tableVars, fileVars
  <2>3. SecretsKept' /\ CommandKept'
    BY <2>2 DEF SecretsKept, CommandKept, AtStep
  <2>4. thread'[t].crypt = keyFile /\ \A u \in Threads \ {t} : thread'[u] = thread[u]
    BY <1>0, <2>1 DEF Open, ThreadTypes
  <2>5. ThreadsKept'
    BY <2>2, <2>4 DEF ThreadsKept, Doing
  <2> QED
    BY <2>3, <2>5
<1>3. ASSUME NEW t \in Threads, MakeKey(t)
      PROVE  SecretsKept' /\ ThreadsKept' /\ CommandKept'
  <2>1. WriteKey /\ UNCHANGED <<config, command>>
    BY <1>3 DEF MakeKey, tableVars
  <2>2. /\ keyFile' = keys + 1 /\ backup' = backup
        /\ \A k \in Keys : Encrypted(config[k]) => config[k].enc = backup
        /\ \A u \in Threads : Doing(u, "set", "opened") /\ thread[u].crypt # None
                               => thread[u].crypt = backup
        /\ \/ AtStep("opened") \/ AtStep("opened anew") \/ AtStep("writing")
           => command.key = None
    BY <2>1, MadeKey
  <2>3. SecretsKept' /\ CommandKept'
    BY <2>1, <2>2 DEF SecretsKept, CommandKept, AtStep
  <2>4. thread[t] \in Ops
    BY <1>0, <1>3 DEF ThreadTypes, MakeKey
  <2>5. thread'[t].crypt = keys + 1 /\ \A u \in Threads \ {t} : thread'[u] = thread[u]
    BY <1>0, <1>3, <2>4 DEF MakeKey, ThreadTypes, Ops
  <2>6. ThreadsKept'
    BY <2>2, <2>5 DEF ThreadsKept, Doing
  <2> QED
    BY <2>3, <2>6
<1>4. ASSUME NEW t \in Threads, Fetch(t) \/ Store(t) \/ Invalidate(t) \/ FailChange(t)
      PROVE  SecretsKept' /\ ThreadsKept' /\ CommandKept'
  <2>1. UNCHANGED <<config, keyFile, backup, command>>
    BY <1>4 DEF Fetch, Store, Invalidate, FailChange, tableVars, fileVars
  <2>2. SecretsKept' /\ CommandKept'
    BY <2>1 DEF SecretsKept, CommandKept, AtStep
  <2>3. thread'[t] = None \/ thread'[t].step = "fetched"
    <3>1. CASE Fetch(t)
      <4>1. thread[t] \in Ops
        BY <1>0, <3>1 DEF ThreadTypes, Fetch, Doing
      <4> QED
        BY <1>0, <3>1, <4>1, ZenonT(60) DEF Fetch, ThreadTypes, Ops
    <3>2. CASE Store(t) \/ Invalidate(t) \/ FailChange(t)
      BY <1>0, <3>2 DEF Store, Invalidate, FailChange, ThreadTypes
    <3> QED
      BY <1>4, <3>1, <3>2
  <2>4. \A u \in Threads \ {t} : thread'[u] = thread[u]
    BY <1>0, <1>4 DEF Fetch, Store, Invalidate, FailChange, ThreadTypes
  <2>5. ~Doing(t, "set", "opened")'
    BY <2>3 DEF Doing
  <2> QED
    BY <2>1, <2>2, <2>4, <2>5, ThreadsUntouched
<1>5. ASSUME NEW t \in Threads, CommitChange(t)
      PROVE  SecretsKept' /\ ThreadsKept' /\ CommandKept'
  <2> DEFINE op == thread[t]
             row == Row(changes + 1, StoredWith(op.key, op.crypt))
  <2>1. op \in Ops /\ op.crypt # None
    BY <1>0, <1>5 DEF ThreadTypes, CommitChange, Doing
  <2>2. UNCHANGED <<keyFile, backup, command>>
    BY <1>5 DEF CommitChange, fileVars
  <2>3. op.kind = "set" => op.crypt \in {keyFile, backup}
    BY <1>5, <2>1 DEF CommitChange, ThreadsKept, Doing
  <2>4. config' = [config EXCEPT ![op.key] = IF op.kind = "set" THEN row ELSE None]
    BY <1>5 DEF CommitChange
  <2>5. Encrypted(row) => row.enc = op.crypt
    BY DEF Row, StoredWith, Encrypted
  <2>6. SecretsKept'
    <3> SUFFICES ASSUME NEW k \in Keys, Encrypted(config'[k])
                 PROVE  config'[k].enc \in {keyFile, backup}
      BY <2>2 DEF SecretsKept, Encrypted
    <3> HIDE DEF row
    <3>1. CASE k # op.key
      BY <1>0, <2>4, <3>1 DEF TableTypes, SecretsKept
    <3>2. CASE k = op.key /\ op.kind = "set"
      <4>1. config'[k] = row
        BY <1>0, <2>4, <3>2 DEF TableTypes
      <4> QED
        BY <2>3, <2>5, <3>2, <4>1
    <3>3. CASE k = op.key /\ op.kind # "set"
      <4>1. config'[k] = None
        BY <1>0, <2>4, <3>3 DEF TableTypes
      <4> QED
        BY <4>1 DEF Encrypted
    <3> QED
      BY <3>1, <3>2, <3>3
  <2>7. thread'[t].step = "committed" /\ \A u \in Threads \ {t} : thread'[u] = thread[u]
    BY <1>0, <1>5, <2>1 DEF CommitChange, ThreadTypes, Ops
  <2>8. ThreadsKept'
    <3>1. ~Doing(t, "set", "opened")'
      BY <2>7 DEF Doing
    <3> QED
      BY <2>2, <2>7, <3>1, ThreadsUntouched
  <2>9. CommandKept'
    BY <2>2 DEF CommandKept, AtStep
  <2> QED
    BY <2>6, <2>8, <2>9
<1>6. ASSUME StartCommand \/ Ask \/ OpenNewKey \/ Decrypt \/ Encrypt \/ EndCommand
      PROVE  SecretsKept' /\ ThreadsKept' /\ CommandKept'
  <2>1. UNCHANGED <<config, keyFile, backup, thread>>
    BY <1>6 DEF StartCommand, Ask, OpenNewKey, Decrypt, Encrypt, EndCommand, tableVars, fileVars
  <2>2. SecretsKept' /\ ThreadsKept'
    BY <2>1 DEF SecretsKept, ThreadsKept, Doing
  <2>3. CommandKept'
    <3>1. CASE StartCommand
      BY <3>1, <2>1 DEF StartCommand, CommandKept, Commanded
    <3>2. CASE Ask
      BY <3>2 DEF Ask, CommandKept, Commanded, AtStep
    <3>3. CASE OpenNewKey
      <4>1. command \in Commands
        BY <1>0, <3>3 DEF OpenNewKey, CommandTypes, AtStep
      <4>2. command'.key = keyFile
        BY <3>3, <4>1 DEF OpenNewKey, Commands
      <4> QED
        BY <2>1, <4>2 DEF CommandKept
    <3>4. CASE Decrypt
      <4>1. command'.key = command.key /\ (command.key # None => command.key = keyFile)
        BY <3>4 DEF Decrypt, CommandKept, Commanded
      <4> QED
        BY <2>1, <4>1 DEF CommandKept
    <3>5. CASE Encrypt
      <4>1. command'.key = command.key /\ (command.key # None => command.key = keyFile)
        BY <3>5 DEF Encrypt, CommandKept, Commanded
      <4> QED
        BY <2>1, <4>1 DEF CommandKept
    <3>6. CASE EndCommand
      BY <3>6 DEF EndCommand, CommandKept, AtStep
    <3> QED
      BY <1>6, <3>1, <3>2, <3>3, <3>4, <3>5, <3>6
  <2> QED
    BY <2>2, <2>3
<1>7. ASSUME CommandMakesKey
      PROVE  SecretsKept' /\ ThreadsKept' /\ CommandKept'
  <2>1. WriteKey /\ UNCHANGED <<config, thread>>
    BY <1>7 DEF CommandMakesKey, tableVars
  <2>2. /\ keyFile' = keys + 1 /\ backup' = backup
        /\ \A k \in Keys : Encrypted(config[k]) => config[k].enc = backup
        /\ \A u \in Threads : Doing(u, "set", "opened") /\ thread[u].crypt # None
                               => thread[u].crypt = backup
    BY <2>1, MadeKey
  <2>3. SecretsKept' /\ ThreadsKept'
    BY <2>1, <2>2 DEF SecretsKept, ThreadsKept, Doing
  <2>4. command \in Commands
    BY <1>0, <1>7 DEF CommandTypes, CommandMakesKey
  <2>5. command'.key = keys + 1
    BY <1>7, <2>4 DEF CommandMakesKey, Commands
  <2> QED
    BY <2>2, <2>3, <2>5 DEF CommandKept
<1>8. ASSUME Rename PROVE SecretsKept' /\ ThreadsKept' /\ CommandKept'
  <2>1. ~BackupNeeded /\ backup' = keyFile /\ UNCHANGED <<config, thread>>
    BY <1>8 DEF Rename, BackupOf, tableVars
  <2>2. SecretsKept' /\ ThreadsKept'
    BY <2>1, NothingNeeded DEF SecretsKept, ThreadsKept, Doing
  <2>3. command \in Commands
    BY <1>0, <1>8 DEF CommandTypes, Rename, AtStep
  <2>4. command'.step = "renamed"
    BY <1>8, <2>3 DEF Rename, Commands
  <2> QED
    BY <2>2, <2>4 DEF CommandKept, AtStep
<1>9. ASSUME DeleteBackup PROVE SecretsKept' /\ ThreadsKept' /\ CommandKept'
  <2>1. ~BackupNeeded /\ UNCHANGED <<config, thread, keyFile, command>>
    BY <1>9 DEF DeleteBackup, tableVars
  <2> QED
    BY <2>1, NothingNeeded DEF SecretsKept, ThreadsKept, CommandKept, Doing, AtStep
<1>10. ASSUME Rewrite PROVE SecretsKept' /\ ThreadsKept' /\ CommandKept'
  <2>1. command.key = keyFile /\ command' = None /\ UNCHANGED <<keyFile, backup, thread>>
    BY <1>0, <1>10 DEF Rewrite, CommandKept, CommandTypes, WritesRows, fileVars
  <2>2. ThreadsKept' /\ CommandKept'
    BY <2>1 DEF ThreadsKept, CommandKept, Doing, AtStep
  <2>3. config' = [k \in Keys |-> IF k \in command.rewrite
                                    THEN Rewritten(command.rows[k], command.key)
                                    ELSE config[k]]
    BY <1>10 DEF Rewrite
  <2>4. \A row : Rewritten(row, keyFile).enc = keyFile
    BY DEF Rewritten, Row
  <2>5. SecretsKept'
    BY <2>1, <2>3, <2>4 DEF SecretsKept, Encrypted
  <2> QED
    BY <2>2, <2>5
<1>11. ASSUME Tick PROVE SecretsKept' /\ ThreadsKept' /\ CommandKept'
  <2>1. UNCHANGED <<config, keyFile, backup, command>>
    BY <1>11 DEF Tick, tableVars, fileVars
  <2>2. \A t \in Threads : Doing(t, "set", "opened")'
                            => Doing(t, "set", "opened") /\ thread'[t] = thread[t]
    <3> SUFFICES ASSUME NEW t \in Threads, Doing(t, "set", "opened")'
                 PROVE  Doing(t, "set", "opened") /\ thread'[t] = thread[t]
      OBVIOUS
    <3>1. CASE Doing(t, "get", "fetched")
      <4>1. thread[t] \in Ops /\ thread[t].kind = "get"
        BY <1>0, <3>1 DEF ThreadTypes, Doing
      <4>2. thread'[t].kind = "get"
        BY <1>11, <3>1, <4>1 DEF Tick, Ops
      <4> QED
        BY <4>2 DEF Doing
    <3>2. CASE ~Doing(t, "get", "fetched")
      BY <1>11, <3>2 DEF Tick, Doing
    <3> QED
      BY <3>1, <3>2
  <2>3. ThreadsKept'
    BY <2>1, <2>2 DEF ThreadsKept
  <2> QED
    BY <2>1, <2>3 DEF SecretsKept, CommandKept, AtStep
<1>12. ASSUME UNCHANGED vars PROVE SecretsKept' /\ ThreadsKept' /\ CommandKept'
  BY <1>12 DEF vars, SecretsKept, ThreadsKept, CommandKept, Doing, AtStep
<1> QED
  BY <1>2, <1>3, <1>4, <1>5, <1>6, <1>7, <1>8, <1>9, <1>10, <1>11, <1>12 DEF Next

\* Whatever is set during a rotation and however it ends, one of the two files has the key
\* of every secret, unless a key that was needed was given up (cli/config.py rotate-key).
THEOREM SecretsStayRecoverable == Spec => []SecretsRecoverable
<1>1. Init => KeysKept
  <2> SUFFICES ASSUME Init PROVE SecretsKept /\ ThreadsKept /\ CommandKept
    BY DEF KeysKept
  <2>1. ASSUME NEW k \in Keys, Encrypted(config[k]) PROVE config[k].enc = 1
    <3>1. config[k] \in {None} \cup {Row(0, e) : e \in {Plain, 1}}
      BY DEF Init
    <3> QED
      BY <2>1, <3>1 DEF Encrypted, Row
  <2> QED
    BY <2>1 DEF Init, SecretsKept, ThreadsKept, CommandKept, Doing, AtStep
<1>2. TypeInv /\ KeysKept /\ [Next]_vars => KeysKept'
  BY KeysStep
<1>3. KeysKept => SecretsRecoverable
  BY DEF KeysKept, SecretsKept, SecretsRecoverable
<1> QED
  BY <1>1, <1>2, <1>3, TypeInvariant, PTL DEF Spec

-----------------------------------------------------------------------------
(* A command keeps the values it rewrites *)

\* What a command reads anew is a row it had, or one that is there.
LEMMA RequeriedValue ==
  ASSUME TypeInv, NEW k \in Keys, Requeried[k] # None,
         command.rows[k] # None => ValueOf(command.rows[k]) = ValueOf(config[k])
  PROVE  Requeried[k].val = ValueOf(config[k])
BY DEF Requeried, ValueOf

\* Only a change, which is remembered, or the command itself writes what it has read.
LEMMA ReadsStep ==
  ASSUME TypeInv, ReadsKept, [Next]_vars
  PROVE  ReadsKept'
<1> USE SettingsAssumption
<1>0. TableTypes /\ FileTypes /\ ThreadTypes /\ CommandTypes
  BY DEF TypeInv
<1>1. CASE UNCHANGED <<config, command, overtaken>>
  BY <1>1 DEF ReadsKept, AtStep
<1>2. CASE \E t \in Threads : CommitChange(t)
  <2>1. PICK t \in Threads : CommitChange(t)
    BY <1>2
  <2>2. command' = command /\ overtaken' = overtaken \cup {thread[t].key}
    BY <2>1 DEF CommitChange
  <2>3. \A k \in Keys \ overtaken' : config'[k] = config[k]
    BY <1>0, <2>1, <2>2 DEF CommitChange, TableTypes
  <2>4. command = None \/ command.rewrite \subseteq Keys
    BY <1>0 DEF CommandTypes, Commands
  <2> QED
    BY <2>2, <2>3, <2>4 DEF ReadsKept, AtStep
<1>3. CASE StartCommand
  BY <1>3 DEF StartCommand, Commanded, ReadsKept, AtStep
<1>4. CASE CommandMakesKey
  <2>1. command \in Commands
    BY <1>0, <1>4 DEF CommandTypes, CommandMakesKey
  <2>2. /\ command'.step = command.step /\ command'.rows = command.rows
        /\ command'.rewrite = command.rewrite
    BY <1>4, <2>1 DEF CommandMakesKey, Commands
  <2>3. UNCHANGED <<config, overtaken>> /\ command # None
    BY <1>4 DEF CommandMakesKey, tableVars
  <2> QED
    BY <2>2, <2>3 DEF ReadsKept, AtStep
<1>5. CASE Ask
  BY <1>5 DEF Ask, Commanded, ReadsKept, AtStep, tableVars
<1>6. CASE Rename \/ OpenNewKey
  <2>1. command \in Commands /\ (AtStep("asked") \/ AtStep("renamed"))
    BY <1>0, <1>6 DEF CommandTypes, Rename, OpenNewKey, AtStep
  <2>2. command'.step # "writing" /\ command'.rows = command.rows
    BY <1>6, <2>1 DEF Rename, OpenNewKey, Commands
  <2>3. UNCHANGED <<config, overtaken>>
    BY <1>6 DEF Rename, OpenNewKey, tableVars
  <2> QED
    BY <2>1, <2>2, <2>3 DEF ReadsKept, AtStep
<1>7. CASE Decrypt
  <2>1. /\ command'.step = "writing" /\ command'.rows = Requeried
        /\ command'.rewrite = Secrets(Requeried)
        /\ UNCHANGED <<config, overtaken>> /\ AtStep("opened anew")
    BY <1>7 DEF Decrypt, Commanded, tableVars
  <2>2. ASSUME NEW k \in Secrets(Requeried) \ overtaken
        PROVE  Requeried[k].val = ValueOf(config[k])
    <3>1. k \in Keys \ overtaken /\ Requeried[k] # None
      BY <2>2 DEF Secrets, Encrypted
    <3>2. ValueOf(command.rows[k]) = ValueOf(config[k])
      BY <2>1, <3>1 DEF ReadsKept
    <3> QED
      BY <3>1, <3>2, RequeriedValue
  <2> QED
    BY <2>1, <2>2 DEF ReadsKept, AtStep
<1>8. CASE Encrypt
  <2>1. /\ command'.step = "writing" /\ command'.rows = config
        /\ command'.rewrite = {k \in Sensitive : config[k] # None /\ ~Encrypted(config[k])}
        /\ UNCHANGED config
    BY <1>8 DEF Encrypt, Commanded, tableVars
  <2> QED
    BY <2>1 DEF ReadsKept, AtStep, ValueOf
<1>9. CASE Rewrite \/ EndCommand
  BY <1>9 DEF Rewrite, EndCommand, ReadsKept, AtStep
<1>10. ASSUME \/ \E t \in Threads, p \in Procs, k \in Keys :
                   \/ StartGet(t, p, k)
                   \/ StartChange(t, p, k, "set") \/ StartChange(t, p, k, "delete")
              \/ \E t \in Threads :
                   MakeKey(t) \/ Fetch(t) \/ Store(t) \/ Invalidate(t) \/ FailChange(t)
              \/ DeleteBackup \/ Tick \/ UNCHANGED vars
       PROVE  UNCHANGED <<config, command, overtaken>>
  BY <1>10 DEF StartGet, StartChange, MakeKey, Fetch, Store, Invalidate, FailChange,
     DeleteBackup, Tick, vars, tableVars
<1> QED
  BY <1>1, <1>2, <1>3, <1>4, <1>5, <1>6, <1>7, <1>8, <1>9, <1>10 DEF Next

\* A rotation or an encryption leaves the value of every setting that nobody changed since
\* the command read it (config_service.py rotate_key and encrypt_existing).
THEOREM CommandsKeepValues == Spec => RewriteKeepsValues
<1> USE SettingsAssumption
<1>1. Init => ReadsKept
  BY DEF Init, ReadsKept, AtStep
<1>2. TypeInv /\ ReadsKept /\ [Next]_vars => ReadsKept'
  BY ReadsStep
<1>3. ASSUME TypeInv, ReadsKept, [Next]_vars, command # None, command' = None,
             NEW k \in Keys \ overtaken
      PROVE  ValueOf(config'[k]) = ValueOf(config[k])
  <2>1. CASE Rewrite
    <3>1. command \in Commands /\ command.key \in MasterKeys
      BY <1>3, <2>1 DEF TypeInv, CommandTypes, WritesRows, Rewrite, AtStep, Commands
    <3>2. CASE k \in command.rewrite
      <4>1. command.rows[k] \in Rows /\ command.rows[k] # None
        BY <1>3, <2>1, <3>1, <3>2 DEF TypeInv, CommandTypes, WritesRows, Rewrite, Commands
      <4>2. command.rows[k].val \in Values /\ command.rows[k].val = ValueOf(config[k])
        BY <1>3, <2>1, <3>2, <4>1, ValueType DEF ReadsKept, Rewrite
      <4>3. config'[k] = Row(command.rows[k].val, command.key)
        BY <2>1, <3>2 DEF Rewrite, Rewritten
      <4>4. ValueOf(config'[k]) = command.rows[k].val
        BY <3>1, <4>2, <4>3, RowExists DEF Values, MasterKeys
      <4> QED
        BY <4>2, <4>4
    <3>3. CASE k \notin command.rewrite
      BY <2>1, <3>3 DEF Rewrite
    <3> QED
      BY <3>2, <3>3
  <2>2. CASE \E t \in Threads : CommitChange(t)
    BY <1>3, <2>2 DEF CommitChange
  <2>3. CASE ~Rewrite /\ ~\E t \in Threads : CommitChange(t)
    <3>1. UNCHANGED config
      BY <1>3, <2>3 DEF Next, vars, StartGet, StartChange, MakeKey, Fetch, Store, Invalidate,
         FailChange, StartCommand, CommandMakesKey, Ask, Rename, OpenNewKey, Decrypt, Encrypt,
         EndCommand, DeleteBackup, Tick, tableVars
    <3> QED
      BY <3>1
  <2> QED
    BY <2>1, <2>2, <2>3
<1>4. TypeInv /\ ReadsKept /\ [Next]_vars
        => [(command # None /\ command' = None)
             => \A k \in Keys \ overtaken : ValueOf(config'[k]) = ValueOf(config[k])]_vars
  BY <1>3
<1> QED
  BY <1>1, <1>2, <1>4, TypeInvariant, PTL DEF Spec, RewriteKeepsValues

(***************************************************************************)
(* Metering: what an instance has left to print and to cost falls as it    *)
(* reads, and an agent in flight adds at most so many events to a window   *)
(* that is full: each of them is a token, and the tokens of the agents a   *)
(* slot was given to are as many as the bound says.  What the windows of   *)
(* an hour record, lose and still wait for adds up to what was charged.    *)
(***************************************************************************)
-----------------------------------------------------------------------------
(* Instances: types, and what one has left to print and to cost *)

EventRecord == [type : {"usage", "result"}, cost : Nat]
PersistRecord == [event : EventRecord, at : Nat]
Phases == {"none", "running", "exited", "ended"}

MeterShape ==
  /\ hour \in 0 .. MaxHour /\ gate \in BOOLEAN
  /\ calls \in 0 .. MaxCalls /\ faults \in 0 .. MaxFaults
  /\ windows \in [Kinds -> [0 .. MaxHour -> Nat]]
  /\ late \in SUBSET Instances
  /\ phase \in [Instances -> Phases] /\ reading \in [Instances -> BOOLEAN]
  /\ pipe \in [Instances -> Seq(EventRecord)]
  /\ persisting \in [Instances -> PersistRecord \cup {NoEvent}]
  /\ turns \in [Instances -> 0 .. MaxTurns] /\ settled \in [Instances -> BOOLEAN]
  /\ cost \in [Instances -> Nat] /\ spent \in [Instances -> Nat]
  /\ recorded \in [Instances -> Nat]

\* What so many turns may cost.
Bill(n) == MaxCost * n

\* A result is the last event of a pipe.
Results(p) == {j \in DOMAIN p : p[j].type = "result"}
Usages(p) == IF Results(p) = {} THEN Len(p) ELSE Len(p) - 1

\* Turns that are printed and not counted.
Unread(p, e) == IF e # NoEvent /\ e.event.type = "usage" THEN Usages(p) + 1 ELSE Usages(p)

Over(ph) == ph \in {"exited", "ended"}

\* An event carries what a turn may cost, or what the agent did cost until it ended.
EventFits(event, real, ph) ==
  /\ event.type = "usage" => event.cost <= MaxCost
  /\ event.type = "result" => event.cost = real /\ Over(ph)

PipeFits(p, real, ph) ==
  /\ Len(p) <= PipeMax
  /\ \A j \in DOMAIN p : EventFits(p[j], real, ph) /\ (p[j].type = "result" => j = Len(p))

PersistFits(e, p, real, ph, time) ==
  e # NoEvent =>
    /\ EventFits(e.event, real, ph) /\ e.at <= time
    /\ e.event.type = "result" => p = <<>>

StageFits(i) ==
  /\ settled[i] => pipe[i] = <<>> /\ persisting[i] = NoEvent /\ Over(phase[i])
  /\ phase[i] = "none" =>
       pipe[i] = <<>> /\ persisting[i] = NoEvent /\ recorded[i] = 0 /\ ~reading[i]
  /\ phase[i] = "ended" => pipe[i] = <<>> /\ ~reading[i]
  /\ i \in late => phase[i] = "ended" /\ persisting[i] = NoEvent

\* What it shows, has recorded and really cost.
CostFits(i) ==
  /\ settled[i] => cost[i] = spent[i]
  /\ ~settled[i] => recorded[i] = cost[i]
  /\ cost[i] <= recorded[i]
  /\ spent[i] <= Bill(turns[i]) /\ recorded[i] <= Bill(turns[i])
  /\ Unread(pipe[i], persisting[i]) <= turns[i]
  /\ ~settled[i] => cost[i] <= Bill(turns[i] - Unread(pipe[i], persisting[i]))

Sound(i) ==
  /\ PipeFits(pipe[i], spent[i], phase[i])
  /\ PersistFits(persisting[i], pipe[i], spent[i], phase[i], hour)
  /\ StageFits(i) /\ CostFits(i)

MeterInv == MeterShape /\ \A i \in Instances : Sound(i)

-----------------------------------------------------------------------------
(* Pipes and bills *)

\* Bills add up turn by turn.
LEMMA BillFacts ==
  ASSUME MeteringAssumption
  PROVE  /\ \A n \in Nat : Bill(n) \in Nat /\ Bill(n + 1) = Bill(n) + MaxCost
         /\ \A m, n \in Nat : m <= n => Bill(m) <= Bill(n)
         /\ MaxSpent = Bill(MaxTurns) /\ MaxSpent \in Nat /\ MaxCost \in Nat /\ MaxTurns \in Nat
<1>1. MaxCost \in Nat /\ MaxTurns \in Nat
  BY DEF MeteringAssumption
<1>2. \A n \in Nat : Bill(n) \in Nat /\ Bill(n + 1) = Bill(n) + MaxCost
  BY <1>1 DEF Bill
<1>3. ASSUME NEW m \in Nat, NEW n \in Nat, m <= n PROVE Bill(m) <= Bill(n)
  <2>1. PICK d \in Nat : n = m + d
    BY <1>3
  <2>2. MaxCost * (m + d) = MaxCost * m + MaxCost * d /\ MaxCost * d \in Nat /\ MaxCost * m \in Nat
    BY <1>1
  <2> QED
    BY <2>1, <2>2 DEF Bill
<1>4. MaxSpent = Bill(MaxTurns)
  BY <1>1 DEF MaxSpent, Bill
<1> QED
  BY <1>1, <1>2, <1>3, <1>4

\* An agent prints one more turn.
LEMMA UsagePrinted ==
  ASSUME NEW p \in Seq(EventRecord), Results(p) = {}, NEW event \in EventRecord
  PROVE  /\ Append(p, event) \in Seq(EventRecord)
         /\ Len(Append(p, event)) = Len(p) + 1
         /\ \A j \in DOMAIN Append(p, event) :
              Append(p, event)[j] = event \/ (j \in DOMAIN p /\ Append(p, event)[j] = p[j])
         /\ \A j \in DOMAIN Append(p, event) :
              Append(p, event)[j].type = "result" => j = Len(p) + 1
         /\ event.type = "usage" =>
              Results(Append(p, event)) = {} /\ Usages(Append(p, event)) = Usages(p) + 1
         /\ event.type = "result" => Usages(Append(p, event)) = Usages(p)
<1>1. PICK n \in Nat : n = Len(p)
  BY LenProperties
<1>2. DOMAIN p = 1 .. n
  BY <1>1, LenProperties
<1>3. PICK q : q = Append(p, event)
  OBVIOUS
<1>4. /\ q \in Seq(EventRecord) /\ Len(q) = n + 1
      /\ \A i \in 1 .. n : q[i] = p[i]
      /\ q[n + 1] = event
  BY <1>1, <1>3, AppendProperties
<1>5. DOMAIN q = 1 .. n + 1
  BY <1>4, LenProperties
<1>6. \A j \in DOMAIN q : j = n + 1 \/ j \in 1 .. n
  BY <1>5
<1>7. \A j \in DOMAIN p : p[j].type # "result"
  BY DEF Results
<1>8. \A j \in DOMAIN q : q[j].type = "result" => j = n + 1 /\ event.type = "result"
  BY <1>2, <1>4, <1>6, <1>7
<1>9. event.type = "usage" => Results(q) = {}
  BY <1>8 DEF Results
<1>10. event.type = "result" => n + 1 \in Results(q)
  BY <1>4, <1>5 DEF Results
<1>11. /\ event.type = "usage" => Usages(q) = Usages(p) + 1
       /\ event.type = "result" => Usages(q) = Usages(p)
  BY <1>1, <1>4, <1>9, <1>10 DEF Usages
<1> QED
  BY <1>1, <1>2, <1>3, <1>4, <1>6, <1>8, <1>9, <1>11

\* The consumer reads an event, of which the result is the last.
LEMMA EventRead ==
  ASSUME NEW p \in Seq(EventRecord), p # <<>>,
         \A j \in DOMAIN p : p[j].type = "result" => j = Len(p)
  PROVE  /\ Head(p) \in EventRecord /\ Head(p) = p[1] /\ 1 \in DOMAIN p
         /\ Tail(p) \in Seq(EventRecord) /\ Len(p) \in Nat /\ Len(Tail(p)) = Len(p) - 1
         /\ \A j \in DOMAIN Tail(p) : j + 1 \in DOMAIN p /\ Tail(p)[j] = p[j + 1]
         /\ Head(p).type = "result" => Tail(p) = <<>> /\ Usages(p) = 0
         /\ Head(p).type = "usage" => Usages(Tail(p)) + 1 = Usages(p)
<1>1. PICK n \in Nat : n = Len(p)
  BY LenProperties
<1>2. DOMAIN p = 1 .. n
  BY <1>1, LenProperties
<1>3. n >= 1
  BY <1>1, EmptySeq
<1>4. PICK q : q = Tail(p)
  OBVIOUS
<1>5. /\ Head(p) \in EventRecord /\ Head(p) = p[1]
      /\ q \in Seq(EventRecord) /\ Len(q) = n - 1
      /\ \A j \in 1 .. n - 1 : q[j] = p[j + 1]
  BY <1>1, <1>4, HeadTailProperties
<1>6. DOMAIN q = 1 .. n - 1
  BY <1>5, LenProperties
<1>7. \A j \in DOMAIN q : j + 1 \in DOMAIN p /\ q[j] = p[j + 1]
  BY <1>2, <1>5, <1>6
<1>8. ASSUME p[1].type = "result" PROVE q = <<>> /\ Usages(p) = 0
  <2>1. n = 1
    BY <1>1, <1>2, <1>3, <1>8
  <2>2. q = <<>>
    BY <1>5, <2>1, EmptySeq
  <2>3. Results(p) # {}
    BY <1>2, <1>3, <1>8 DEF Results
  <2> QED
    BY <1>1, <2>1, <2>2, <2>3 DEF Usages
<1>9. ASSUME p[1].type = "usage" PROVE Usages(q) + 1 = Usages(p)
  <2>1. \A j \in 1 .. n : p[j].type = "result" => j - 1 \in DOMAIN q /\ q[j - 1] = p[j]
    <3> SUFFICES ASSUME NEW j \in 1 .. n, p[j].type = "result"
                 PROVE  j - 1 \in DOMAIN q /\ q[j - 1] = p[j]
      OBVIOUS
    <3>1. j # 1
      BY <1>9
    <3>2. j - 1 \in 1 .. n - 1 /\ (j - 1) + 1 = j
      BY <1>1, <3>1
    <3> QED
      BY <1>5, <1>6, <3>2
  <2>2. Results(p) = {} <=> Results(q) = {}
    BY <1>2, <1>7, <2>1 DEF Results
  <2> QED
    BY <1>1, <1>5, <2>2 DEF Usages
<1> QED
  BY <1>1, <1>2, <1>3, <1>4, <1>5, <1>7, <1>8, <1>9

\* An empty pipe.
LEMMA EmptyPipe ==
  /\ <<>> \in Seq(EventRecord) /\ Len(<<>>) = 0 /\ DOMAIN <<>> = {}
  /\ Usages(<<>>) = 0
<1>1. <<>> \in Seq(EventRecord) /\ Len(<<>>) = 0 /\ DOMAIN <<>> = {}
  BY EmptySeq
<1>2. Results(<<>>) = {}
  BY <1>1 DEF Results
<1> QED
  BY <1>1, <1>2 DEF Usages

\* What is unread is a number.
LEMMA UnreadNat ==
  ASSUME NEW p \in Seq(EventRecord), NEW e
  PROVE  Usages(p) \in Nat /\ Unread(p, e) \in Nat
<1>1. PICK n \in Nat : n = Len(p)
  BY LenProperties
<1>2. DOMAIN p = 1 .. n
  BY <1>1, LenProperties
<1>3. Usages(p) \in Nat
  <2>1. CASE Results(p) = {}
    BY <1>1, <2>1 DEF Usages
  <2>2. CASE Results(p) # {}
    <3>1. n # 0
      BY <1>2, <2>2 DEF Results
    <3> QED
      BY <1>1, <2>2, <3>1 DEF Usages
  <2> QED
    BY <2>1, <2>2
<1> QED
  BY <1>3 DEF Unread

-----------------------------------------------------------------------------
(* Instances: the steps *)

\* Nothing happens to the instance.
Same(i) ==
  /\ phase'[i] = phase[i] /\ pipe'[i] = pipe[i] /\ reading'[i] = reading[i]
  /\ persisting'[i] = persisting[i] /\ cost'[i] = cost[i] /\ turns'[i] = turns[i]
  /\ spent'[i] = spent[i] /\ recorded'[i] = recorded[i] /\ settled'[i] = settled[i]
  /\ i \in late' <=> i \in late

\* Then it stays sound, whatever the time.
LEMMA SameSound ==
  ASSUME MeterShape, NEW i \in Instances, Sound(i), Same(i), hour' \in Int, hour <= hour',
         MaxHour \in Nat
  PROVE  Sound(i)'
<1>1. PersistFits(persisting[i], pipe[i], spent[i], phase[i], hour')
  <2> SUFFICES ASSUME persisting[i] # NoEvent PROVE persisting[i].at <= hour'
    BY DEF Sound, PersistFits
  <2>1. persisting[i].at \in Nat /\ persisting[i].at <= hour /\ hour \in Nat
    BY DEF MeterShape, PersistRecord, Sound, PersistFits
  <2> QED
    BY <2>1
<1>2. StageFits(i)' /\ CostFits(i)'
  BY DEF Sound, Same, StageFits, CostFits
<1> QED
  BY <1>1, <1>2 DEF Sound, Same

\* What the instance of a step is like before it.
LEMMA Facts ==
  ASSUME MeteringAssumption, MeterInv, NEW i \in Instances
  PROVE  /\ hour \in Nat /\ hour <= MaxHour /\ MaxHour \in Nat /\ MaxCost \in Nat
         /\ MaxTurns \in Nat
         /\ phase[i] \in Phases /\ reading[i] \in BOOLEAN /\ settled[i] \in BOOLEAN
         /\ pipe[i] \in Seq(EventRecord) /\ Len(pipe[i]) \in Nat
         /\ persisting[i] \in PersistRecord \cup {NoEvent}
         /\ turns[i] \in Nat /\ turns[i] <= MaxTurns
         /\ cost[i] \in Nat /\ spent[i] \in Nat /\ recorded[i] \in Nat
         /\ PipeFits(pipe[i], spent[i], phase[i])
         /\ PersistFits(persisting[i], pipe[i], spent[i], phase[i], hour)
         /\ StageFits(i) /\ CostFits(i)
         /\ Unread(pipe[i], persisting[i]) \in Nat /\ Usages(pipe[i]) \in Nat
<1>1. /\ pipe[i] \in Seq(EventRecord)
      /\ hour \in Nat /\ hour <= MaxHour /\ MaxHour \in Nat /\ MaxCost \in Nat
      /\ MaxTurns \in Nat
      /\ phase[i] \in Phases /\ reading[i] \in BOOLEAN /\ settled[i] \in BOOLEAN
      /\ persisting[i] \in PersistRecord \cup {NoEvent}
      /\ turns[i] \in Nat /\ turns[i] <= MaxTurns
      /\ cost[i] \in Nat /\ spent[i] \in Nat /\ recorded[i] \in Nat
  BY DEF MeterInv, MeterShape, MeteringAssumption
<1>2. Len(pipe[i]) \in Nat
  BY <1>1, LenProperties
<1>3. Sound(i)
  BY DEF MeterInv
<1> QED
  BY <1>1, <1>2, <1>3, UnreadNat DEF Sound

\* A step of an instance leaves the others as they are.
LEMMA OneSteps ==
  ASSUME MeteringAssumption, MeterInv, NEW i \in Instances,
         MeterShape', hour' = hour, Sound(i)',
         \A j \in Instances : j # i => Same(j)
  PROVE  MeterInv'
<1>1. hour \in Int /\ hour <= hour' /\ MaxHour \in Nat
  BY DEF MeterInv, MeterShape, MeteringAssumption
<1>2. \A j \in Instances : Sound(j)'
  BY <1>1, SameSound DEF MeterInv
<1> QED
  BY <1>2 DEF MeterInv

\* An instance is claimed.
LEMMA ClaimSound ==
  ASSUME MeteringAssumption, MeterInv, NEW i \in Instances, Claim(i)
  PROVE  MeterInv'
<1>1. /\ phase[i] = "none" /\ gate' = FALSE
      /\ phase' = [phase EXCEPT ![i] = "running"] /\ reading' = [reading EXCEPT ![i] = TRUE]
      /\ UNCHANGED <<hour, windows, persisting, cost, calls, faults, pipe, turns, spent,
                     recorded, settled, late>>
  BY DEF Claim, historyVars
<1>2. MeterShape'
  BY <1>1 DEF MeterInv, MeterShape, Phases, EventRecord, PersistRecord
<1>3. \A j \in Instances : j # i => Same(j)
  BY <1>1 DEF MeterInv, MeterShape, Same
<1>4. /\ phase'[i] = "running" /\ reading'[i] = TRUE
      /\ pipe[i] = <<>> /\ persisting[i] = NoEvent /\ ~settled[i] /\ i \notin late
  BY <1>1, Facts DEF MeterInv, MeterShape, StageFits, Over
<1>5. Sound(i)'
  <2>1. PipeFits(pipe[i], spent[i], "running")
    BY <1>4, EmptyPipe, Facts DEF PipeFits
  <2>2. PersistFits(persisting[i], pipe[i], spent[i], "running", hour)
    BY <1>4 DEF PersistFits
  <2>3. StageFits(i)'
    BY <1>1, <1>4 DEF StageFits
  <2>4. CostFits(i)'
    BY <1>1, Facts DEF CostFits
  <2> QED
    BY <1>1, <1>4, <2>1, <2>2, <2>3, <2>4 DEF Sound
<1> QED
  BY <1>1, <1>2, <1>3, <1>5, OneSteps

\* A turn is printed.
LEMMA TurnSound ==
  ASSUME MeteringAssumption, MeterInv, NEW i \in Instances, NEW real \in 0 .. MaxCost,
         NEW estimate \in 0 .. MaxCost, Turn(i, real, estimate)
  PROVE  MeterInv'
<1>1. /\ phase[i] = "running" /\ turns[i] < MaxTurns /\ Len(pipe[i]) < PipeMax
      /\ pipe' = [pipe EXCEPT ![i] = Append(@, Usage(estimate))]
      /\ turns' = [turns EXCEPT ![i] = @ + 1] /\ spent' = [spent EXCEPT ![i] = @ + real]
      /\ UNCHANGED <<hour, windows, gate, phase, reading, persisting, cost, calls, faults,
                     recorded, settled, late>>
  BY DEF Turn, Prints, historyVars
<1>2. PICK e : e = Usage(estimate)
  OBVIOUS
<1>3. PICK p : p = pipe[i]
  OBVIOUS
<1>4. PICK q : q = Append(p, e)
  OBVIOUS
<1>5. /\ MaxCost \in Nat /\ real \in Nat /\ real <= MaxCost
      /\ e \in EventRecord /\ e.type = "usage" /\ e.cost = estimate /\ e.cost <= MaxCost
  BY <1>2, Facts DEF Usage, EventRecord
<1>6. /\ p \in Seq(EventRecord) /\ Len(p) \in Nat /\ ~Over(phase[i]) /\ phase[i] = "running"
      /\ PipeFits(p, spent[i], phase[i])
      /\ PersistFits(persisting[i], p, spent[i], phase[i], hour)
      /\ ~settled[i] /\ i \notin late
  BY <1>1, <1>3, Facts DEF Over, StageFits
<1>7. Results(p) = {}
  BY <1>6 DEF Results, PipeFits, EventFits
<1>8. /\ q \in Seq(EventRecord) /\ Len(q) = Len(p) + 1
      /\ \A j \in DOMAIN q : q[j] = e \/ (j \in DOMAIN p /\ q[j] = p[j])
      /\ Results(q) = {} /\ Usages(q) = Usages(p) + 1
  BY <1>4, <1>5, <1>6, <1>7, UsagePrinted
<1>9. /\ pipe'[i] = q /\ turns'[i] = turns[i] + 1 /\ spent'[i] = spent[i] + real
  BY <1>1, <1>2, <1>3, <1>4 DEF MeterInv, MeterShape
<1>10. MeterShape'
  <2>1. pipe' \in [Instances -> Seq(EventRecord)]
    BY <1>1, <1>2, <1>3, <1>4, <1>8 DEF MeterInv, MeterShape
  <2>2. turns' \in [Instances -> 0 .. MaxTurns]
    <3>1. turns \in [Instances -> 0 .. MaxTurns]
      BY DEF MeterInv, MeterShape
    <3>2. turns[i] \in Nat /\ turns[i] + 1 <= MaxTurns /\ MaxTurns \in Nat
      BY <1>1, Facts
    <3> QED
      BY <1>1, <3>1, <3>2
  <2>3. spent' \in [Instances -> Nat]
    BY <1>1, <1>5 DEF MeterInv, MeterShape
  <2> QED
    BY <1>1, <2>1, <2>2, <2>3 DEF MeterInv, MeterShape, EventRecord, PersistRecord
<1>11. \A j \in Instances : j # i => Same(j)
  BY <1>1 DEF MeterInv, MeterShape, Same
<1>12. PipeFits(q, spent'[i], phase[i])
  <2>1. Len(q) <= PipeMax
    BY <1>1, <1>3, <1>6, <1>8 DEF MeteringAssumption
  <2>2. ASSUME NEW j \in DOMAIN q
        PROVE  EventFits(q[j], spent'[i], phase[i]) /\ (q[j].type = "result" => j = Len(q))
    <3>1. q[j].type # "result"
      BY <1>8 DEF Results
    <3>2. q[j].type = "usage" => q[j].cost <= MaxCost
      BY <1>5, <1>6, <1>8 DEF PipeFits, EventFits
    <3> QED
      BY <3>1, <3>2 DEF EventFits
  <2> QED
    BY <2>1, <2>2 DEF PipeFits
<1>13. PersistFits(persisting[i], q, spent'[i], phase[i], hour)
  BY <1>6 DEF PersistFits, EventFits
<1>14. StageFits(i)'
  BY <1>1, <1>6 DEF StageFits
<1>15. CostFits(i)'
  <2>1. Unread(q, persisting[i]) = Unread(p, persisting[i]) + 1
    BY <1>6, <1>8, UnreadNat DEF Unread
  <2>2. /\ turns[i] \in Nat /\ Unread(p, persisting[i]) \in Nat /\ spent[i] \in Nat
        /\ recorded[i] \in Nat /\ CostFits(i)
    BY <1>3, Facts
  <2>3. turns[i] + 1 - Unread(q, persisting[i]) = turns[i] - Unread(p, persisting[i])
    BY <2>1, <2>2
  <2>4. /\ Bill(turns[i]) \in Nat /\ Bill(turns[i] + 1) = Bill(turns[i]) + MaxCost
        /\ spent[i] <= Bill(turns[i]) /\ recorded[i] <= Bill(turns[i])
    BY <2>2, BillFacts DEF CostFits
  <2>5. spent[i] + real <= Bill(turns[i] + 1) /\ recorded[i] <= Bill(turns[i] + 1)
    BY <1>5, <2>2, <2>4
  <2>6. /\ cost[i] <= recorded[i] /\ recorded[i] = cost[i]
        /\ Unread(p, persisting[i]) <= turns[i]
        /\ cost[i] <= Bill(turns[i] - Unread(p, persisting[i]))
    BY <1>3, <1>6, <2>2 DEF CostFits
  <2>7. Unread(q, persisting[i]) <= turns[i] + 1
    BY <2>1, <2>2, <2>6
  <2>8. cost[i] <= Bill(turns'[i] - Unread(q, persisting[i]))
    <3>1. PICK m : m = turns'[i] - Unread(q, persisting[i])
      OBVIOUS
    <3>2. m = turns[i] - Unread(p, persisting[i])
      BY <1>9, <2>1, <2>2, <3>1
    <3>3. cost[i] <= Bill(m)
      BY <3>2, <2>2, <2>6
    <3> QED
      BY <3>1, <3>3
  <2> QED
    BY <1>1, <1>6, <1>9, <2>5, <2>6, <2>7, <2>8 DEF CostFits
<1>16. Sound(i)'
  BY <1>1, <1>9, <1>12, <1>13, <1>14, <1>15 DEF Sound
<1> QED
  BY <1>1, <1>10, <1>11, <1>16, OneSteps

\* What is unread may shrink.
LEMMA CostKept ==
  ASSUME MeteringAssumption, MeterInv, NEW i \in Instances,
         Unread(pipe'[i], persisting'[i]) \in Nat,
         Unread(pipe'[i], persisting'[i]) <= Unread(pipe[i], persisting[i]),
         UNCHANGED <<cost, turns, spent, recorded, settled>>
  PROVE  CostFits(i)'
<1>1. PICK u : u = Unread(pipe'[i], persisting'[i])
  OBVIOUS
<1>2. PICK v : v = Unread(pipe[i], persisting[i])
  OBVIOUS
<1>3. /\ u \in Nat /\ v \in Nat /\ u <= v /\ turns[i] \in Nat /\ cost[i] \in Nat
      /\ CostFits(i)
  BY <1>1, <1>2, Facts
<1>4. v <= turns[i] /\ (~settled[i] => cost[i] <= Bill(turns[i] - v))
  BY <1>2, <1>3 DEF CostFits
<1>5. /\ turns[i] - v \in Nat /\ turns[i] - u \in Nat /\ turns[i] - v <= turns[i] - u
      /\ u <= turns[i]
  BY <1>3, <1>4
<1>6. /\ Bill(turns[i] - v) <= Bill(turns[i] - u)
      /\ Bill(turns[i] - v) \in Nat /\ Bill(turns[i] - u) \in Nat
  BY <1>5, BillFacts
<1>7. ~settled[i] => cost[i] <= Bill(turns[i] - u)
  BY <1>3, <1>4, <1>6
<1> QED
  BY <1>1, <1>3, <1>5, <1>7 DEF CostFits

\* The agent ends with a result.
LEMMA FinishSound ==
  ASSUME MeteringAssumption, MeterInv, NEW i \in Instances, Finish(i)
  PROVE  MeterInv'
<1>1. /\ phase[i] = "running" /\ Len(pipe[i]) < PipeMax
      /\ pipe' = [pipe EXCEPT ![i] = Append(@, Result(spent[i]))]
      /\ phase' = [phase EXCEPT ![i] = "exited"]
      /\ UNCHANGED <<hour, windows, gate, reading, persisting, cost, calls, faults, turns,
                     spent, recorded, settled, late>>
  BY DEF Finish, Prints, historyVars
<1>2. PICK e : e = Result(spent[i])
  OBVIOUS
<1>3. PICK p : p = pipe[i]
  OBVIOUS
<1>4. PICK q : q = Append(p, e)
  OBVIOUS
<1>5. e \in EventRecord /\ e.type = "result" /\ e.cost = spent[i]
  BY <1>2, Facts DEF Result, EventRecord
<1>6. /\ p \in Seq(EventRecord) /\ Len(p) \in Nat /\ ~Over(phase[i]) /\ Over("exited")
      /\ PipeFits(p, spent[i], phase[i])
      /\ PersistFits(persisting[i], p, spent[i], phase[i], hour)
      /\ ~settled[i] /\ i \notin late
  BY <1>1, <1>3, Facts DEF Over, StageFits
<1>7. Results(p) = {}
  BY <1>6 DEF Results, PipeFits, EventFits
<1>8. /\ q \in Seq(EventRecord) /\ Len(q) = Len(p) + 1
      /\ \A j \in DOMAIN q : q[j] = e \/ (j \in DOMAIN p /\ q[j] = p[j])
      /\ \A j \in DOMAIN q : q[j].type = "result" => j = Len(p) + 1
      /\ Usages(q) = Usages(p)
  BY <1>4, <1>5, <1>6, <1>7, UsagePrinted
<1>9. pipe'[i] = q /\ phase'[i] = "exited"
  BY <1>1, <1>2, <1>3, <1>4 DEF MeterInv, MeterShape
<1>10. MeterShape'
  <2>1. pipe' \in [Instances -> Seq(EventRecord)]
    BY <1>1, <1>2, <1>3, <1>4, <1>8 DEF MeterInv, MeterShape
  <2>2. phase' \in [Instances -> Phases]
    BY <1>1 DEF MeterInv, MeterShape, Phases
  <2> QED
    BY <1>1, <2>1, <2>2 DEF MeterInv, MeterShape, EventRecord, PersistRecord
<1>11. \A j \in Instances : j # i => Same(j)
  BY <1>1 DEF MeterInv, MeterShape, Same
<1>12. PipeFits(q, spent[i], "exited")
  <2>1. Len(q) <= PipeMax
    BY <1>1, <1>3, <1>6, <1>8 DEF MeteringAssumption
  <2>2. ASSUME NEW j \in DOMAIN q
        PROVE  EventFits(q[j], spent[i], "exited") /\ (q[j].type = "result" => j = Len(q))
    <3>1. CASE q[j] = e
      BY <1>5, <1>6, <1>8, <3>1 DEF EventFits
    <3>2. CASE j \in DOMAIN p /\ q[j] = p[j]
      <4>1. EventFits(p[j], spent[i], phase[i])
        BY <1>6, <3>2 DEF PipeFits
      <4> QED
        BY <1>6, <3>2, <4>1, <1>8 DEF EventFits
    <3> QED
      BY <1>8, <3>1, <3>2
  <2> QED
    BY <2>1, <2>2 DEF PipeFits
<1>13. PersistFits(persisting[i], q, spent[i], "exited", hour)
  BY <1>6 DEF PersistFits, EventFits
<1>14. StageFits(i)'
  BY <1>1, <1>6, <1>9 DEF StageFits
<1>15. CostFits(i)'
  <2>1. Unread(q, persisting[i]) = Unread(p, persisting[i])
    BY <1>8 DEF Unread
  <2>2. Unread(p, persisting[i]) \in Nat
    BY <1>6, UnreadNat
  <2>3. pipe'[i] = q /\ persisting'[i] = persisting[i] /\ pipe[i] = p
    BY <1>1, <1>3, <1>9
  <2>4. /\ Unread(pipe'[i], persisting'[i]) = Unread(pipe[i], persisting[i])
        /\ Unread(pipe[i], persisting[i]) \in Nat
    BY <2>1, <2>2, <2>3
  <2>5. /\ Unread(pipe'[i], persisting'[i]) \in Nat
        /\ Unread(pipe'[i], persisting'[i]) <= Unread(pipe[i], persisting[i])
    BY <2>4
  <2> QED
    BY <1>1, <2>5, CostKept
<1>16. Sound(i)'
  BY <1>1, <1>9, <1>12, <1>13, <1>14, <1>15 DEF Sound
<1> QED
  BY <1>1, <1>10, <1>11, <1>16, OneSteps

\* It exits with none.
LEMMA DieSound ==
  ASSUME MeteringAssumption, MeterInv, NEW i \in Instances, Die(i)
  PROVE  MeterInv'
<1>1. /\ phase[i] = "running" /\ phase' = [phase EXCEPT ![i] = "exited"]
      /\ UNCHANGED <<hour, windows, gate, pipe, reading, persisting, cost, calls, faults,
                     turns, spent, recorded, settled, late>>
  BY DEF Die, historyVars
<1>2. MeterShape'
  BY <1>1 DEF MeterInv, MeterShape, Phases, EventRecord, PersistRecord
<1>3. \A j \in Instances : j # i => Same(j)
  BY <1>1 DEF MeterInv, MeterShape, Same
<1>4. /\ phase'[i] = "exited" /\ ~Over(phase[i])
      /\ PipeFits(pipe[i], spent[i], phase[i])
      /\ PersistFits(persisting[i], pipe[i], spent[i], phase[i], hour)
      /\ ~settled[i] /\ i \notin late
  BY <1>1, Facts DEF MeterInv, MeterShape, StageFits, Over
<1>5. PipeFits(pipe[i], spent[i], "exited")
  BY <1>4 DEF PipeFits, EventFits
<1>6. PersistFits(persisting[i], pipe[i], spent[i], "exited", hour)
  BY <1>4 DEF PersistFits, EventFits
<1>7. StageFits(i)'
  BY <1>1, <1>4 DEF StageFits
<1>8. CostFits(i)'
  BY <1>1, Facts DEF CostFits
<1>9. Sound(i)'
  BY <1>1, <1>4, <1>5, <1>6, <1>7, <1>8 DEF Sound
<1> QED
  BY <1>1, <1>2, <1>3, <1>9, OneSteps

\* What it has printed and nobody has read is lost.
LEMMA CleanupSound ==
  ASSUME MeteringAssumption, MeterInv, NEW i \in Instances, Cleanup(i)
  PROVE  MeterInv'
<1>1. /\ phase[i] = "exited" /\ phase' = [phase EXCEPT ![i] = "ended"]
      /\ pipe' = [pipe EXCEPT ![i] = <<>>] /\ reading' = [reading EXCEPT ![i] = FALSE]
      /\ UNCHANGED <<hour, windows, gate, persisting, cost, calls, faults, turns, spent,
                     recorded, settled, late>>
  BY DEF Cleanup, historyVars
<1>2. MeterShape'
  <2>1. pipe' \in [Instances -> Seq(EventRecord)]
    BY <1>1, EmptyPipe DEF MeterInv, MeterShape
  <2> QED
    BY <1>1, <2>1 DEF MeterInv, MeterShape, Phases, EventRecord, PersistRecord
<1>3. \A j \in Instances : j # i => Same(j)
  BY <1>1 DEF MeterInv, MeterShape, Same
<1>4. /\ phase'[i] = "ended" /\ pipe'[i] = <<>> /\ ~reading'[i]
      /\ Over(phase[i]) /\ Over("ended")
  BY <1>1 DEF MeterInv, MeterShape, Over
<1>5. /\ PersistFits(persisting[i], pipe[i], spent[i], phase[i], hour)
      /\ StageFits(i) /\ Usages(pipe[i]) \in Nat
  BY Facts
<1>6. PipeFits(<<>>, spent[i], "ended")
  BY EmptyPipe DEF PipeFits, MeteringAssumption
<1>7. PersistFits(persisting[i], <<>>, spent[i], "ended", hour)
  BY <1>4, <1>5 DEF PersistFits, EventFits
<1>8. StageFits(i)'
  BY <1>1, <1>4, <1>5 DEF StageFits
<1>9. CostFits(i)'
  <2>1. /\ Unread(<<>>, persisting[i]) \in Nat
        /\ Unread(<<>>, persisting[i]) <= Unread(pipe[i], persisting[i])
    BY <1>5, EmptyPipe DEF Unread
  <2>2. pipe'[i] = <<>> /\ persisting'[i] = persisting[i]
    BY <1>1, <1>4
  <2> QED
    BY <1>1, <2>1, <2>2, CostKept
<1>10. Sound(i)'
  BY <1>1, <1>4, <1>6, <1>7, <1>8, <1>9 DEF Sound
<1> QED
  BY <1>1, <1>2, <1>3, <1>10, OneSteps

\* The consumer takes an event.
LEMMA ReadSound ==
  ASSUME MeteringAssumption, MeterInv, NEW i \in Instances, Read(i)
  PROVE  MeterInv'
<1>1. /\ reading[i] /\ persisting[i] = NoEvent /\ pipe[i] # <<>>
      /\ persisting' = [persisting EXCEPT ![i] = [event |-> Head(pipe[i]), at |-> hour]]
      /\ pipe' = [pipe EXCEPT ![i] = Tail(@)]
      /\ UNCHANGED <<hour, windows, gate, cost, calls, faults, phase, reading, turns, spent,
                     recorded, settled, late>>
  BY DEF Read, historyVars
<1>2. PICK p : p = pipe[i]
  OBVIOUS
<1>3. PICK q : q = Tail(p)
  OBVIOUS
<1>4. PICK e : e = [event |-> Head(p), at |-> hour]
  OBVIOUS
<1>5. /\ p \in Seq(EventRecord) /\ p # <<>> /\ hour \in Nat /\ Len(p) \in Nat
      /\ PipeFits(p, spent[i], phase[i]) /\ StageFits(i)
  BY <1>1, <1>2, Facts
<1>6. \A j \in DOMAIN p : p[j].type = "result" => j = Len(p)
  BY <1>5 DEF PipeFits
<1>7. /\ Head(p) \in EventRecord /\ Head(p) = p[1] /\ 1 \in DOMAIN p
      /\ q \in Seq(EventRecord) /\ Len(q) = Len(p) - 1
      /\ \A j \in DOMAIN q : j + 1 \in DOMAIN p /\ q[j] = p[j + 1]
      /\ Head(p).type = "result" => q = <<>> /\ Usages(p) = 0
      /\ Head(p).type = "usage" => Usages(q) + 1 = Usages(p)
  BY <1>3, <1>5, <1>6, EventRead
<1>8. e \in PersistRecord /\ e.event = p[1] /\ e.at = hour
  BY <1>4, <1>5, <1>7 DEF PersistRecord
<1>10. persisting'[i] = e /\ pipe'[i] = q
  BY <1>1, <1>2, <1>3, <1>4 DEF MeterInv, MeterShape
<1>11. MeterShape'
  <2>1. pipe' \in [Instances -> Seq(EventRecord)]
    BY <1>1, <1>2, <1>3, <1>7 DEF MeterInv, MeterShape
  <2>2. persisting' \in [Instances -> PersistRecord \cup {NoEvent}]
    BY <1>1, <1>2, <1>4, <1>8 DEF MeterInv, MeterShape
  <2> QED
    BY <1>1, <2>1, <2>2 DEF MeterInv, MeterShape
<1>12. \A j \in Instances : j # i => Same(j)
  BY <1>1 DEF MeterInv, MeterShape, Same
<1>13. PipeFits(q, spent[i], phase[i])
  <2>1. Len(q) <= PipeMax
    BY <1>5, <1>7 DEF PipeFits, MeteringAssumption
  <2>2. ASSUME NEW j \in DOMAIN q
        PROVE  EventFits(q[j], spent[i], phase[i]) /\ (q[j].type = "result" => j = Len(q))
    <3>1. j + 1 \in DOMAIN p /\ q[j] = p[j + 1]
      BY <1>7
    <3>2. EventFits(q[j], spent[i], phase[i]) /\ (q[j].type = "result" => j + 1 = Len(p))
      BY <1>5, <3>1 DEF PipeFits
    <3>3. j \in Int
      BY <1>7, LenProperties
    <3> QED
      BY <1>5, <1>7, <3>2, <3>3
  <2> QED
    BY <2>1, <2>2 DEF PipeFits
<1>14. PersistFits(e, q, spent[i], phase[i], hour)
  <2>1. EventFits(p[1], spent[i], phase[i])
    BY <1>5, <1>7 DEF PipeFits
  <2> QED
    BY <1>5, <1>7, <1>8, <2>1 DEF PersistFits
<1>15. StageFits(i)'
  BY <1>1, <1>2, <1>5, <1>10 DEF StageFits
<1>16. CostFits(i)'
  <2>1. Unread(q, e) \in Nat /\ Unread(p, NoEvent) = Usages(p) /\ Usages(p) \in Nat
        /\ Usages(q) \in Nat
    BY <1>5, <1>7, UnreadNat DEF Unread
  <2>2. Unread(q, e) <= Usages(p)
    <3>1. p[1].type = "result" \/ p[1].type = "usage"
      BY <1>7 DEF EventRecord
    <3>2. CASE p[1].type = "result"
      BY <1>7, <1>8, <3>2, <2>1, EmptyPipe DEF Unread
    <3>3. CASE p[1].type = "usage"
      BY <1>7, <1>8, <3>3, <2>1 DEF Unread
    <3> QED
      BY <3>1, <3>2, <3>3
  <2>3. pipe'[i] = q /\ persisting'[i] = e /\ pipe[i] = p /\ persisting[i] = NoEvent
    BY <1>1, <1>2, <1>10
  <2>4. /\ Unread(pipe'[i], persisting'[i]) \in Nat
        /\ Unread(pipe'[i], persisting'[i]) <= Unread(pipe[i], persisting[i])
    BY <2>1, <2>2, <2>3
  <2> QED
    BY <1>1, <2>4, CostKept
<1>17. Sound(i)'
  BY <1>1, <1>10, <1>13, <1>14, <1>15, <1>16 DEF Sound
<1> QED
  BY <1>1, <1>11, <1>12, <1>17, OneSteps

\* The consumer ends.
LEMMA ReadErrorSound ==
  ASSUME MeteringAssumption, MeterInv, NEW i \in Instances, ReadError(i)
  PROVE  MeterInv'
<1>1. /\ reading' = [reading EXCEPT ![i] = FALSE] /\ faults < MaxFaults
      /\ faults' = faults + 1
      /\ UNCHANGED <<hour, windows, gate, persisting, cost, calls, phase, pipe, turns, spent,
                     recorded, settled, late>>
  BY DEF ReadError, Fault, historyVars
<1>2. MeterShape'
  BY <1>1 DEF MeterInv, MeterShape, MeteringAssumption
<1>3. \A j \in Instances : j # i => Same(j)
  BY <1>1 DEF MeterInv, MeterShape, Same
<1>4. ~reading'[i]
  BY <1>1 DEF MeterInv, MeterShape
<1>5. StageFits(i)'
  BY <1>1, <1>4, Facts DEF StageFits
<1>6. CostFits(i)'
  BY <1>1, Facts DEF CostFits
<1>7. Sound(i)'
  BY <1>1, <1>5, <1>6, Facts DEF Sound
<1> QED
  BY <1>1, <1>2, <1>3, <1>7, OneSteps

\* An event is lost.
LEMMA PersistFailsSound ==
  ASSUME MeteringAssumption, MeterInv, NEW i \in Instances, PersistFails(i)
  PROVE  MeterInv'
<1>1. /\ persisting[i] # NoEvent /\ persisting' = [persisting EXCEPT ![i] = NoEvent]
      /\ faults < MaxFaults /\ faults' = faults + 1
      /\ UNCHANGED <<hour, windows, gate, cost, calls, phase, pipe, reading, turns, spent,
                     recorded, settled, late>>
  BY DEF PersistFails, Fault, historyVars, agentVars
<1>2. MeterShape'
  BY <1>1 DEF MeterInv, MeterShape, MeteringAssumption
<1>3. \A j \in Instances : j # i => Same(j)
  BY <1>1 DEF MeterInv, MeterShape, Same
<1>4. persisting'[i] = NoEvent
  BY <1>1 DEF MeterInv, MeterShape
<1>5. PersistFits(NoEvent, pipe[i], spent[i], phase[i], hour)
  BY DEF PersistFits
<1>6. StageFits(i)'
  BY <1>1, <1>4, Facts DEF StageFits
<1>7. CostFits(i)'
  <2>1. Usages(pipe[i]) \in Nat
    BY Facts
  <2>2. /\ Unread(pipe[i], NoEvent) \in Nat
        /\ Unread(pipe[i], NoEvent) <= Unread(pipe[i], persisting[i])
    BY <2>1 DEF Unread
  <2>3. pipe'[i] = pipe[i] /\ persisting'[i] = NoEvent
    BY <1>1, <1>4
  <2>4. /\ Unread(pipe'[i], persisting'[i]) \in Nat
        /\ Unread(pipe'[i], persisting'[i]) <= Unread(pipe[i], persisting[i])
    BY <2>2, <2>3
  <2> QED
    BY <1>1, <2>4, CostKept
<1>8. Sound(i)'
  BY <1>1, <1>4, <1>5, <1>6, <1>7, Facts DEF Sound
<1> QED
  BY <1>1, <1>2, <1>3, <1>8, OneSteps

\* The windows keep their type.
LEMMA RecordedType ==
  ASSUME windows \in [Kinds -> [0 .. MaxHour -> Nat]], NEW amount \in Nat, NEW began
  PROVE  Recorded(amount, began) \in [Kinds -> [0 .. MaxHour -> Nat]]
<1>1. PICK at : at = [hour |-> Window("hour", began), day |-> Window("day", hour)]
  OBVIOUS
<1>2. ASSUME NEW k \in Kinds
      PROVE  [windows[k] EXCEPT ![at[k]] = @ + amount] \in [0 .. MaxHour -> Nat]
  <2>1. PICK w : w = windows[k]
    OBVIOUS
  <2>2. w \in [0 .. MaxHour -> Nat]
    BY <2>1
  <2>3. PICK n : n = at[k]
    OBVIOUS
  <2>4. [w EXCEPT ![n] = @ + amount] \in [0 .. MaxHour -> Nat]
    <3>1. \A x \in 0 .. MaxHour : w[x] \in Nat /\ w[x] + amount \in Nat
      BY <2>2
    <3> QED
      BY <2>2, <3>1
  <2> QED
    BY <2>1, <2>3, <2>4
<1>3. Recorded(amount, began) = [k \in Kinds |-> [windows[k] EXCEPT ![at[k]] = @ + amount]]
  BY <1>1 DEF Recorded
<1> QED
  BY <1>2, <1>3

\* What an event adds.
LEMMA AddedFacts ==
  ASSUME MeteringAssumption, MeterInv, NEW i \in Instances, persisting[i] # NoEvent
  PROVE  LET event == persisting[i].event IN
         /\ event \in EventRecord /\ event.cost \in Nat
         /\ event.type \in {"usage", "result"}
         /\ Added(i, event) \in Nat /\ NewCost(i, event) \in Nat
         /\ ~settled[i] /\ recorded[i] = cost[i]
         /\ EventFits(event, spent[i], phase[i])
<1>1. PICK event : event = persisting[i].event
  OBVIOUS
<1>2. event \in EventRecord
  BY <1>1, Facts DEF PersistRecord
<1>3. event.cost \in Nat /\ event.type \in {"usage", "result"}
  BY <1>2 DEF EventRecord
<1>4. cost[i] \in Nat /\ StageFits(i) /\ CostFits(i)
      /\ PersistFits(persisting[i], pipe[i], spent[i], phase[i], hour)
  BY Facts
<1>5. Added(i, event) \in Nat /\ NewCost(i, event) \in Nat
  BY <1>3, <1>4 DEF Added, NewCost
<1>6. ~settled[i] /\ recorded[i] = cost[i]
  BY <1>4 DEF StageFits, CostFits
<1>7. EventFits(event, spent[i], phase[i])
  BY <1>1, <1>4 DEF PersistFits
<1> QED
  BY <1>1, <1>2, <1>3, <1>5, <1>6, <1>7

\* What persisting an event does to the costs.
LEMMA PersistCosts ==
  ASSUME MeteringAssumption, MeterInv, NEW i \in Instances, NEW event \in EventRecord,
         persisting[i] # NoEvent, event = persisting[i].event,
         cost'[i] = NewCost(i, event), recorded'[i] = recorded[i] + Added(i, event),
         settled'[i] = (event.type = "result"), persisting'[i] = NoEvent,
         UNCHANGED <<pipe, turns, spent, phase>>
  PROVE  CostFits(i)'
<1>1. /\ ~settled[i] /\ recorded[i] = cost[i] /\ EventFits(event, spent[i], phase[i])
      /\ event.cost \in Nat /\ event.type \in {"usage", "result"}
  BY AddedFacts
<1>2. PICK u : u = Usages(pipe[i])
  OBVIOUS
<1>3. PICK c : c = cost[i]
  OBVIOUS
<1>4. PICK t : t = turns[i]
  OBVIOUS
<1>5. /\ u \in Nat /\ c \in Nat /\ t \in Nat /\ spent[i] \in Nat /\ CostFits(i)
      /\ PersistFits(persisting[i], pipe[i], spent[i], phase[i], hour) /\ MaxCost \in Nat
  BY <1>2, <1>3, <1>4, Facts
<1>6. Unread(pipe'[i], persisting'[i]) = u
  BY <1>2 DEF Unread
<1>7. spent[i] <= Bill(t) /\ c <= Bill(t) /\ Bill(t) \in Nat
  BY <1>1, <1>3, <1>4, <1>5, BillFacts DEF CostFits
<1>8. CASE event.type = "usage"
  <2>1. Unread(pipe[i], persisting[i]) = u + 1
    BY <1>2, <1>8 DEF Unread
  <2>2. u + 1 <= t /\ c <= Bill(t - (u + 1))
    BY <1>1, <1>3, <1>4, <1>5, <2>1 DEF CostFits
  <2>3. PICK m \in Nat : m = t - (u + 1)
    BY <1>5, <2>2
  <2>4. /\ Bill(m) \in Nat /\ Bill(m + 1) = Bill(m) + MaxCost /\ m + 1 = t - u
        /\ Bill(m + 1) <= Bill(t)
    <3>1. m + 1 = t - u /\ m + 1 \in Nat /\ m + 1 <= t
      BY <1>5, <2>3
    <3>2. Bill(m + 1) <= Bill(t)
      BY <1>5, <3>1, BillFacts
    <3>3. Bill(m) \in Nat /\ Bill(m + 1) = Bill(m) + MaxCost
      BY BillFacts
    <3> QED
      BY <3>1, <3>2, <3>3
  <2>5. event.cost <= MaxCost
    BY <1>1, <1>8 DEF EventFits
  <2>6. cost'[i] = c + event.cost /\ recorded'[i] = c + event.cost /\ ~settled'[i]
    BY <1>1, <1>3, <1>8 DEF NewCost, Added
  <2>7. c <= Bill(m)
    BY <2>2, <2>3
  <2>8. cost'[i] <= Bill(m + 1) /\ recorded'[i] <= Bill(t) /\ cost'[i] <= recorded'[i]
    BY <1>1, <1>5, <1>7, <2>4, <2>5, <2>6, <2>7
  <2>9. cost'[i] <= Bill(turns'[i] - Unread(pipe'[i], persisting'[i]))
    <3>1. turns'[i] - Unread(pipe'[i], persisting'[i]) = m + 1
      BY <1>4, <1>6, <2>4
    <3> QED
      BY <2>8, <3>1
  <2>10. u <= t
    BY <1>5, <2>2
  <2> QED
    BY <1>4, <1>6, <1>7, <2>6, <2>8, <2>9, <2>10 DEF CostFits
<1>9. CASE event.type = "result"
  <2>1. u = 0
    BY <1>2, <1>5, <1>9, EmptyPipe DEF PersistFits
  <2>2. event.cost = spent[i]
    BY <1>1, <1>9 DEF EventFits
  <2>3. /\ cost'[i] = spent[i] /\ settled'[i]
        /\ recorded'[i] = c + (IF spent[i] > c THEN spent[i] - c ELSE 0)
    BY <1>1, <1>3, <1>9, <2>2 DEF NewCost, Added
  <2>4. recorded'[i] <= Bill(t) /\ cost'[i] <= recorded'[i]
    BY <1>5, <1>7, <2>3
  <2> QED
    BY <1>4, <1>5, <1>6, <1>7, <2>1, <2>3, <2>4 DEF CostFits
<1> QED
  BY <1>1, <1>8, <1>9

\* An event is persisted.
LEMMA PersistSound ==
  ASSUME MeteringAssumption, MeterInv, NEW i \in Instances, Persist(i)
  PROVE  MeterInv'
<1>1. PICK event : event = persisting[i].event
  OBVIOUS
<1>2. /\ persisting[i] # NoEvent
      /\ windows' = Recorded(Added(i, event), persisting[i].at)
      /\ recorded' = [recorded EXCEPT ![i] = @ + Added(i, event)]
      /\ cost' = [cost EXCEPT ![i] = NewCost(i, event)]
      /\ settled' = [settled EXCEPT ![i] = event.type = "result"]
      /\ late' = IF phase[i] = "ended" THEN late \cup {i} ELSE late
      /\ persisting' = [persisting EXCEPT ![i] = NoEvent]
      /\ UNCHANGED <<hour, gate, calls, faults, phase, pipe, reading, turns, spent>>
  BY <1>1 DEF Persist, agentVars
<1>3. /\ event \in EventRecord /\ event.cost \in Nat /\ event.type \in {"usage", "result"}
      /\ Added(i, event) \in Nat /\ NewCost(i, event) \in Nat
      /\ EventFits(event, spent[i], phase[i])
  BY <1>1, <1>2, AddedFacts
<1>4. /\ cost'[i] = NewCost(i, event) /\ recorded'[i] = recorded[i] + Added(i, event)
      /\ settled'[i] = (event.type = "result") /\ persisting'[i] = NoEvent
  BY <1>2 DEF MeterInv, MeterShape
<1>5. MeterShape'
  <2>1. windows' \in [Kinds -> [0 .. MaxHour -> Nat]]
    BY <1>2, <1>3, RecordedType DEF MeterInv, MeterShape
  <2>2. recorded' \in [Instances -> Nat]
    BY <1>2, <1>3 DEF MeterInv, MeterShape
  <2>3. /\ cost' \in [Instances -> Nat] /\ settled' \in [Instances -> BOOLEAN]
        /\ persisting' \in [Instances -> PersistRecord \cup {NoEvent}]
        /\ late' \in SUBSET Instances
    BY <1>2, <1>3 DEF MeterInv, MeterShape
  <2> QED
    BY <1>2, <2>1, <2>2, <2>3 DEF MeterInv, MeterShape
<1>6. \A j \in Instances : j # i => Same(j)
  BY <1>2 DEF MeterInv, MeterShape, Same
<1>7. /\ StageFits(i) /\ PipeFits(pipe[i], spent[i], phase[i])
      /\ PersistFits(persisting[i], pipe[i], spent[i], phase[i], hour)
  BY Facts
<1>8. PersistFits(NoEvent, pipe[i], spent[i], phase[i], hour)
  BY DEF PersistFits
<1>9. StageFits(i)'
  <2>1. phase[i] # "none" /\ i \notin late
    BY <1>2, <1>7 DEF StageFits
  <2>2. settled'[i] => pipe[i] = <<>> /\ Over(phase[i])
    BY <1>1, <1>2, <1>3, <1>4, <1>7 DEF PersistFits, EventFits
  <2> QED
    BY <1>2, <1>4, <1>7, <2>1, <2>2 DEF StageFits
<1>10. CostFits(i)'
  BY <1>1, <1>2, <1>3, <1>4, PersistCosts
<1>11. Sound(i)'
  BY <1>2, <1>4, <1>7, <1>8, <1>9, <1>10 DEF Sound
<1> QED
  BY <1>2, <1>5, <1>6, <1>11, OneSteps

\* The clock, the gate and the PM agent do nothing to an instance.
LEMMA OthersSound ==
  ASSUME MeteringAssumption, MeterInv, PassGate \/ HourPasses \/ PmCall(MaxCost)
  PROVE  MeterInv'
<1>1. UNCHANGED <<phase, pipe, reading, persisting, cost, turns, spent, recorded, settled, late,
                  faults>>
  BY DEF PassGate, HourPasses, PmCall, agentVars, historyVars
<1>2. MaxCost \in Nat /\ MaxHour \in Nat /\ MaxCalls \in Nat
  BY DEF MeteringAssumption
<1>3. /\ hour \in 0 .. MaxHour /\ windows \in [Kinds -> [0 .. MaxHour -> Nat]]
      /\ calls \in 0 .. MaxCalls /\ gate \in BOOLEAN
  BY DEF MeterInv, MeterShape
<1>4. /\ hour' \in 0 .. MaxHour /\ hour <= hour' /\ calls' \in 0 .. MaxCalls
      /\ gate' \in BOOLEAN
  <2>1. CASE PassGate
    BY <1>2, <1>3, <2>1 DEF PassGate
  <2>2. CASE HourPasses
    BY <1>2, <1>3, <2>2 DEF HourPasses
  <2>3. CASE PmCall(MaxCost)
    BY <1>2, <1>3, <2>3 DEF PmCall
  <2> QED
    BY <2>1, <2>2, <2>3
<1>5. windows' \in [Kinds -> [0 .. MaxHour -> Nat]]
  <2>1. CASE PmCall(MaxCost)
    BY <1>2, <1>3, <2>1, RecordedType DEF PmCall
  <2>2. CASE PassGate \/ HourPasses
    BY <1>3, <2>2 DEF PassGate, HourPasses
  <2> QED
    BY <2>1, <2>2
<1>6. MeterShape'
  BY <1>1, <1>4, <1>5 DEF MeterInv, MeterShape
<1>7. \A j \in Instances : Same(j)
  BY <1>1 DEF Same
<1>8. hour' \in Int
  BY <1>2, <1>4
<1>9. \A j \in Instances : Sound(j)'
  BY <1>2, <1>4, <1>7, <1>8, SameSound DEF MeterInv
<1> QED
  BY <1>6, <1>9 DEF MeterInv

\* Nothing happens.
LEMMA StutterSound ==
  ASSUME MeteringAssumption, MeterInv, UNCHANGED meteringVars
  PROVE  MeterInv'
BY DEF MeterInv, MeterShape, Sound, StageFits, CostFits, meteringVars, agentVars, historyVars

\* The first state.
LEMMA MeterInvInit == ASSUME MeteringAssumption, MeteringInit PROVE MeterInv
<1>1. MeterShape
  <2>1. /\ MaxHour \in Nat /\ MaxTurns \in Nat /\ MaxCalls \in Nat /\ MaxFaults \in Nat
    BY DEF MeteringAssumption
  <2>2. windows \in [Kinds -> [0 .. MaxHour -> Nat]]
    BY DEF MeteringInit
  <2>3. pipe \in [Instances -> Seq(EventRecord)]
    BY EmptyPipe DEF MeteringInit
  <2>4. hour \in 0 .. MaxHour /\ calls \in 0 .. MaxCalls /\ faults \in 0 .. MaxFaults
    BY <2>1 DEF MeteringInit
  <2>5. turns \in [Instances -> 0 .. MaxTurns]
    BY <2>1 DEF MeteringInit
  <2> QED
    BY <2>2, <2>3, <2>4, <2>5 DEF MeteringInit, MeterShape, Phases
<1>2. ASSUME NEW i \in Instances PROVE Sound(i)
  <2>1. /\ phase[i] = "none" /\ pipe[i] = <<>> /\ persisting[i] = NoEvent /\ ~reading[i]
        /\ cost[i] = 0 /\ spent[i] = 0 /\ recorded[i] = 0 /\ turns[i] = 0 /\ ~settled[i]
        /\ late = {}
    BY DEF MeteringInit
  <2>2. PipeFits(pipe[i], spent[i], phase[i])
    BY <2>1, EmptyPipe DEF PipeFits, MeteringAssumption
  <2>3. PersistFits(persisting[i], pipe[i], spent[i], phase[i], hour)
    BY <2>1 DEF PersistFits
  <2>4. StageFits(i)
    BY <2>1 DEF StageFits
  <2>5. Unread(pipe[i], persisting[i]) = 0 /\ Bill(0) \in Nat
    BY <2>1, EmptyPipe, BillFacts DEF Unread
  <2>6. CostFits(i)
    BY <2>1, <2>5 DEF CostFits
  <2> QED
    BY <2>2, <2>3, <2>4, <2>6 DEF Sound
<1> QED
  BY <1>1, <1>2 DEF MeterInv

\* Every step keeps the invariant.
LEMMA MeterInvStep ==
  ASSUME MeteringAssumption, MeterInv, [MeteringNext]_meteringVars
  PROVE  MeterInv'
<1>1. CASE PassGate \/ HourPasses \/ PmCall(MaxCost)
  BY <1>1, OthersSound
<1>2. ASSUME NEW i \in Instances, Claim(i) PROVE MeterInv'
  BY <1>2, ClaimSound
<1>3. ASSUME NEW i \in Instances, Finish(i) PROVE MeterInv'
  BY <1>3, FinishSound
<1>4. ASSUME NEW i \in Instances, Die(i) PROVE MeterInv'
  BY <1>4, DieSound
<1>5. ASSUME NEW i \in Instances, Cleanup(i) PROVE MeterInv'
  BY <1>5, CleanupSound
<1>6. ASSUME NEW i \in Instances, NEW real \in 0 .. MaxCost, NEW estimate \in 0 .. MaxCost,
             Turn(i, real, estimate)
      PROVE  MeterInv'
  BY <1>6, TurnSound
<1>7. ASSUME NEW i \in Instances, Read(i) PROVE MeterInv'
  BY <1>7, ReadSound
<1>8. ASSUME NEW i \in Instances, ReadError(i) PROVE MeterInv'
  BY <1>8, ReadErrorSound
<1>9. ASSUME NEW i \in Instances, Persist(i) PROVE MeterInv'
  BY <1>9, PersistSound
<1>10. ASSUME NEW i \in Instances, PersistFails(i) PROVE MeterInv'
  BY <1>10, PersistFailsSound
<1>11. CASE UNCHANGED meteringVars
  BY <1>11, StutterSound
<1> QED
  BY <1>1, <1>2, <1>3, <1>4, <1>5, <1>6, <1>7, <1>8, <1>9, <1>10, <1>11 DEF MeteringNext

-----------------------------------------------------------------------------
(* Types *)

\* Turns that wait in a pipe are counted.
LEMMA UsagesCounted ==
  ASSUME NEW p \in Seq(EventRecord), NEW j \in DOMAIN p, p[j].type = "usage",
         \A k \in DOMAIN p : p[k].type = "result" => k = Len(p)
  PROVE  Usages(p) >= 1
<1>1. PICK n \in Nat : n = Len(p)
  BY LenProperties
<1>2. DOMAIN p = 1 .. n
  BY <1>1, LenProperties
<1>3. CASE Results(p) = {}
  BY <1>1, <1>2, <1>3 DEF Usages
<1>4. CASE Results(p) # {}
  <2>1. PICK k \in 1 .. n : p[k].type = "result"
    BY <1>2, <1>4 DEF Results
  <2>2. k = n /\ j # k
    BY <1>1, <1>2, <2>1
  <2> QED
    BY <1>1, <1>2, <1>4, <2>2 DEF Usages
<1> QED
  BY <1>3, <1>4

\* The invariant implies the types.
LEMMA MeterInvTypes == ASSUME MeteringAssumption, MeterInv PROVE MeteringTypeOK
<1>1. /\ hour \in 0 .. MaxHour /\ gate \in BOOLEAN
      /\ windows \in [Kinds -> [0 .. MaxHour -> Nat]]
      /\ calls \in 0 .. MaxCalls /\ faults \in 0 .. MaxFaults
      /\ late \subseteq Instances
  BY DEF MeterInv, MeterShape
<1>2. ASSUME NEW i \in Instances
      PROVE  /\ phase[i] \in {"none", "running", "exited", "ended"}
             /\ pipe[i] \in Seq([type : {"usage", "result"}, cost : 0 .. MaxSpent])
             /\ Len(pipe[i]) <= PipeMax
             /\ reading[i] \in BOOLEAN /\ (reading[i] => i \in InFlight)
             /\ (persisting[i] # NoEvent => persisting[i].at \in 0 .. hour)
             /\ turns[i] \in 0 .. MaxTurns /\ settled[i] \in BOOLEAN
             /\ {cost[i], spent[i]} \subseteq 0 .. MaxSpent
  <2>1. /\ phase[i] \in Phases /\ reading[i] \in BOOLEAN /\ settled[i] \in BOOLEAN
        /\ turns[i] \in Nat /\ turns[i] <= MaxTurns
        /\ PipeFits(pipe[i], spent[i], phase[i])
        /\ PersistFits(persisting[i], pipe[i], spent[i], phase[i], hour)
        /\ StageFits(i) /\ CostFits(i)
    BY Facts
  <2>2. /\ hour \in Nat /\ MaxTurns \in Nat /\ MaxCost \in Nat
        /\ cost[i] \in Nat /\ spent[i] \in Nat /\ recorded[i] \in Nat
        /\ pipe[i] \in Seq(EventRecord) /\ persisting[i] \in PersistRecord \cup {NoEvent}
        /\ Usages(pipe[i]) \in Nat
    BY Facts
  <2>3. /\ MaxSpent \in Nat /\ Bill(turns[i]) <= MaxSpent /\ Bill(turns[i]) \in Nat
    BY <2>1, <2>2, BillFacts
  <2>4. cost[i] <= MaxSpent /\ spent[i] <= MaxSpent
    BY <2>1, <2>2, <2>3 DEF CostFits
  <2>5. Usages(pipe[i]) <= turns[i]
    <3>1. Unread(pipe[i], persisting[i]) <= turns[i]
      BY <2>1 DEF CostFits
    <3> QED
      BY <2>1, <2>2, <3>1 DEF Unread
  <2>6. MaxTurns >= 1 => MaxCost <= MaxSpent
    <3> SUFFICES ASSUME MaxTurns >= 1 PROVE MaxCost <= MaxSpent
      OBVIOUS
    <3>1. Bill(1) = MaxCost
      BY <2>2 DEF Bill
    <3>2. Bill(1) <= Bill(MaxTurns) /\ MaxSpent = Bill(MaxTurns)
      BY <2>2, BillFacts
    <3> QED
      BY <3>1, <3>2
  <2>7. pipe[i] \in Seq([type : {"usage", "result"}, cost : 0 .. MaxSpent])
    <3>1. PICK p : p = pipe[i]
      OBVIOUS
    <3>2. p \in Seq(EventRecord) /\ \A k \in DOMAIN p : p[k].type = "result" => k = Len(p)
      BY <2>1, <2>2, <3>1 DEF PipeFits
    <3>3. PICK n \in Nat : n = Len(p)
      BY <3>2, LenProperties
    <3>4. DOMAIN p = 1 .. n /\ p \in [1 .. n -> EventRecord]
      BY <3>2, <3>3, LenProperties
    <3>5. ASSUME NEW j \in 1 .. n
          PROVE  p[j] \in [type : {"usage", "result"}, cost : 0 .. MaxSpent]
      <4>1. PICK e \in EventRecord : e = p[j]
        BY <3>4
      <4>2. EventFits(e, spent[i], phase[i])
        BY <2>1, <3>1, <3>4, <4>1 DEF PipeFits
      <4>3. CASE e.type = "result"
        <5>1. e.cost \in Nat /\ e.cost = spent[i]
          BY <4>2, <4>3 DEF EventFits, EventRecord
        <5>2. e.cost \in 0 .. MaxSpent
          BY <2>2, <2>3, <2>4, <5>1
        <5> QED
          BY <4>1, <5>2 DEF EventRecord
      <4>4. CASE e.type = "usage"
        <5>1. Usages(p) >= 1
          BY <3>2, <3>4, <4>1, <4>4, UsagesCounted
        <5>2. MaxTurns >= 1
          BY <2>1, <2>2, <2>5, <3>1, <5>1
        <5>3. e.cost \in Nat /\ e.cost <= MaxCost
          BY <4>2, <4>4 DEF EventFits, EventRecord
        <5>4. e.cost \in 0 .. MaxSpent
          BY <2>2, <2>3, <2>6, <5>2, <5>3
        <5> QED
          BY <4>1, <5>4 DEF EventRecord
      <4> QED
        BY <4>1, <4>3, <4>4 DEF EventRecord
    <3>6. p \in [1 .. n -> [type : {"usage", "result"}, cost : 0 .. MaxSpent]]
      BY <3>4, <3>5
    <3>7. PICK T : T = [type : {"usage", "result"}, cost : 0 .. MaxSpent]
      OBVIOUS
    <3>8. p \in [1 .. n -> T]
      BY <3>6, <3>7
    <3>9. p \in Seq(T)
      BY <3>3, <3>8, SeqDef
    <3> QED
      BY <3>1, <3>7, <3>9
  <2>8. persisting[i] # NoEvent => persisting[i].at \in 0 .. hour
    <3> SUFFICES ASSUME persisting[i] # NoEvent PROVE persisting[i].at \in 0 .. hour
      OBVIOUS
    <3>1. persisting[i].at \in Nat
      BY <2>2 DEF PersistRecord
    <3>2. persisting[i].at <= hour
      BY <2>1 DEF PersistFits
    <3> QED
      BY <2>2, <3>1, <3>2
  <2>9. reading[i] => i \in InFlight
    BY <2>1 DEF StageFits, InFlight, Phases
  <2>10. turns[i] \in 0 .. MaxTurns /\ {cost[i], spent[i]} \subseteq 0 .. MaxSpent
    BY <2>1, <2>2, <2>3, <2>4
  <2>11. Len(pipe[i]) <= PipeMax /\ phase[i] \in {"none", "running", "exited", "ended"}
    BY <2>1 DEF PipeFits, Phases
  <2> QED
    BY <2>1, <2>7, <2>8, <2>9, <2>10, <2>11
<1> QED
  BY <1>1, <1>2 DEF MeteringTypeOK

\* The invariant holds always.
THEOREM MeterInvAlways == MeteringSpec => []MeterInv
<1>1. MeteringInit => MeterInv
  BY MeteringAssumption, MeterInvInit
<1>2. MeterInv /\ [MeteringNext]_meteringVars => MeterInv'
  BY MeteringAssumption, MeterInvStep
<1> QED
  BY <1>1, <1>2, PTL DEF MeteringSpec

\* No instance shows more than its agent may cost, only one in flight is read, a pipe holds
\* no more than its bound (stream_parser.py, supervisor.py).
THEOREM MeteringTypeCorrect == MeteringSpec => []MeteringTypeOK
<1>1. MeterInv => MeteringTypeOK
  BY MeteringAssumption, MeterInvTypes
<1> QED
  BY <1>1, MeterInvAlways, PTL

-----------------------------------------------------------------------------
(* Windows: what agents in flight may still add *)

\* Each unit an instance of C may still record, up to what an agent may cost.
Tokens(C, r) == {x \in C \X (1 .. MaxSpent) : r[x[1]] < x[2]}

\* Those in flight that may still add to the window: it is the present one or a later one,
\* or the transaction of one began in it.
Charged(k, n) ==
  {i \in InFlight : \/ n >= Window(k, hour)
                    \/ persisting[i] # NoEvent /\ Window(k, persisting[i].at) = n}

\* What the agent of the next claim may cost.
Reserve(k, n) == IF gate /\ n >= Window(k, hour) THEN MaxSpent ELSE 0

\* What agents may cost.
Full(n) == MaxSpent * n
Bound(k) == Caps[k] + Full(Slots + Cardinality(late)) + Bill(calls)

Room(k, n) == windows[k][n] + Cardinality(Tokens(Charged(k, n), recorded)) + Reserve(k, n)
                < Bound(k)

SlotsKept == Cardinality(InFlight) + (IF gate THEN 1 ELSE 0) <= Slots
FutureEmpty == \A k \in Kinds : \A n \in 0 .. MaxHour : n > Window(k, hour) => windows[k][n] = 0
RoomKept == \A k \in Kinds : Caps[k] > 0 => \A n \in 0 .. MaxHour : Room(k, n)

CapInv == MeterInv /\ SlotsKept /\ FutureEmpty /\ RoomKept

\* Units of a finite set of agents are finite.
LEMMA TokensFinite ==
  ASSUME MaxSpent \in Nat, NEW C, IsFiniteSet(C), NEW r
  PROVE  /\ IsFiniteSet(Tokens(C, r)) /\ Cardinality(Tokens(C, r)) \in Nat
         /\ Cardinality(Tokens(C, r)) <= MaxSpent * Cardinality(C)
<1>1. IsFiniteSet(1 .. MaxSpent) /\ Cardinality(1 .. MaxSpent) = MaxSpent
  BY FS_Interval
<1>2. PICK U : U = C \X (1 .. MaxSpent)
  OBVIOUS
<1>3. IsFiniteSet(U) /\ Cardinality(U) = Cardinality(C) * Cardinality(1 .. MaxSpent)
  BY <1>1, <1>2, FS_Product
<1>4. Tokens(C, r) \in SUBSET U
  BY <1>2 DEF Tokens
<1>5. IsFiniteSet(Tokens(C, r)) /\ Cardinality(Tokens(C, r)) <= Cardinality(U)
  BY <1>3, <1>4, FS_Subset
<1>6. Cardinality(C) \in Nat /\ Cardinality(Tokens(C, r)) \in Nat
  BY <1>5, FS_CardinalityType
<1>7. Cardinality(U) = MaxSpent * Cardinality(C)
  BY <1>1, <1>3, <1>6
<1> QED
  BY <1>5, <1>6, <1>7

\* Fewer agents that have recorded more have fewer units left.
LEMMA TokensShrink ==
  ASSUME MaxSpent \in Nat, NEW D, IsFiniteSet(D), NEW C \in SUBSET D, NEW r, NEW s,
         \A i \in C : r[i] \in Int /\ s[i] \in Int /\ r[i] <= s[i]
  PROVE  /\ IsFiniteSet(Tokens(C, s))
         /\ Cardinality(Tokens(C, s)) <= Cardinality(Tokens(D, r))
<1>1. ASSUME NEW x \in Tokens(C, s) PROVE x \in Tokens(D, r)
  BY <1>1 DEF Tokens
<1>2. Tokens(C, s) \in SUBSET Tokens(D, r)
  BY <1>1
<1> QED
  BY <1>2, TokensFinite, FS_Subset

\* One more agent has no more units than an agent may cost.
LEMMA TokensGrow ==
  ASSUME MaxSpent \in Nat, NEW C, IsFiniteSet(C), NEW i, NEW r
  PROVE  Cardinality(Tokens(C \cup {i}, r)) <= Cardinality(Tokens(C, r)) + MaxSpent
<1>1. PICK A : A = Tokens(C, r)
  OBVIOUS
<1>2. PICK B : B = Tokens({i}, r)
  OBVIOUS
<1>3. IsFiniteSet({i}) /\ Cardinality({i}) = 1
  BY FS_Singleton
<1>4. IsFiniteSet(A) /\ Cardinality(A) \in Nat
  BY <1>1, TokensFinite
<1>5. IsFiniteSet(B) /\ Cardinality(B) \in Nat /\ Cardinality(B) <= MaxSpent * 1
  BY <1>2, <1>3, TokensFinite
<1>6. Tokens(C \cup {i}, r) = A \cup B
  BY <1>1, <1>2 DEF Tokens
<1>7. Cardinality(A \cup B) = Cardinality(A) + Cardinality(B) - Cardinality(A \cap B)
  BY <1>4, <1>5, FS_Union
<1>8. Cardinality(A \cap B) \in Nat
  BY <1>4, FS_Intersection, FS_CardinalityType
<1>9. Cardinality(B) <= MaxSpent
  BY <1>5
<1>10. Cardinality(A \cup B) <= Cardinality(A) + MaxSpent
  BY <1>4, <1>5, <1>7, <1>8, <1>9
<1> QED
  BY <1>1, <1>6, <1>10

\* What an agent records are units it has no more.
LEMMA TokensUsed ==
  ASSUME MaxSpent \in Nat, NEW C, IsFiniteSet(C), NEW D \in SUBSET C, NEW i \in C, NEW r, NEW s,
         NEW a \in Nat, r[i] \in Nat, s[i] = r[i] + a, s[i] <= MaxSpent,
         \A j \in C : r[j] \in Nat /\ (j # i => s[j] = r[j])
  PROVE  Cardinality(Tokens(D, s)) + a <= Cardinality(Tokens(C, r))
<1>1. PICK A : A = Tokens(D, s)
  OBVIOUS
<1>2. PICK lo : lo = r[i] + 1
  OBVIOUS
<1>3. PICK hi : hi = r[i] + a
  OBVIOUS
<1>4. PICK B : B = {i} \X (lo .. hi)
  OBVIOUS
<1>5. lo \in Int /\ hi \in Int /\ hi <= MaxSpent /\ lo >= 1
  BY <1>2, <1>3
<1>6. IsFiniteSet(lo .. hi) /\ Cardinality(lo .. hi) = a
  <2>1. IsFiniteSet(lo .. hi) /\ Cardinality(lo .. hi) = IF lo > hi THEN 0 ELSE hi - lo + 1
    BY <1>5, FS_Interval
  <2> QED
    BY <1>2, <1>3, <2>1
<1>7. IsFiniteSet({i}) /\ Cardinality({i}) = 1
  BY FS_Singleton
<1>8. IsFiniteSet(B) /\ Cardinality(B) = a
  <2>1. IsFiniteSet(B) /\ Cardinality(B) = Cardinality({i}) * Cardinality(lo .. hi)
    BY <1>4, <1>6, <1>7, FS_Product
  <2> QED
    BY <1>6, <1>7, <2>1
<1>9. IsFiniteSet(D)
  BY FS_Subset
<1>10. IsFiniteSet(A) /\ Cardinality(A) \in Nat
  BY <1>1, <1>9, TokensFinite
<1>11. ASSUME NEW x \in A PROVE x \in Tokens(C, r) /\ x \notin B
  <2>1. /\ x \in D \X (1 .. MaxSpent) /\ s[x[1]] < x[2]
        /\ x[1] \in C /\ x[2] \in Int /\ r[x[1]] \in Nat
    BY <1>1 DEF Tokens
  <2>2. r[x[1]] < x[2]
    BY <2>1
  <2>3. x \in Tokens(C, r)
    BY <2>1, <2>2 DEF Tokens
  <2>4. ASSUME x \in B PROVE FALSE
    <3>1. x[1] = i /\ x[2] \in lo .. hi
      BY <1>4, <2>4
    <3> QED
      BY <1>3, <1>5, <2>1, <3>1
  <2> QED
    BY <2>3, <2>4
<1>12. ASSUME NEW x \in B PROVE x \in Tokens(C, r)
  <2>1. x \in {i} \X (lo .. hi)
    BY <1>4
  <2>2. x[1] = i /\ x[2] \in lo .. hi /\ x = <<x[1], x[2]>>
    BY <2>1
  <2>3. x[2] \in 1 .. MaxSpent /\ r[i] < x[2]
    BY <1>2, <1>3, <1>5, <2>2
  <2> QED
    BY <2>2, <2>3 DEF Tokens
<1>13. A \cup B \in SUBSET Tokens(C, r) /\ A \cap B = {}
  BY <1>11, <1>12
<1>14. Cardinality(A \cup B) = Cardinality(A) + a
  <2>1. Cardinality(A \cup B) = Cardinality(A) + Cardinality(B) - Cardinality(A \cap B)
    BY <1>8, <1>10, FS_Union
  <2>2. Cardinality(A \cap B) = 0
    BY <1>13, FS_EmptySet
  <2> QED
    BY <1>8, <1>10, <2>1, <2>2
<1>15. Cardinality(A \cup B) <= Cardinality(Tokens(C, r))
  BY <1>13, TokensFinite, FS_Subset
<1> QED
  BY <1>1, <1>14, <1>15

\* The days of later hours are later.
LEMMA WindowFacts ==
  ASSUME MeteringAssumption, NEW k \in Kinds, NEW h \in Nat
  PROVE  /\ Window(k, h) \in Nat /\ Window(k, h) <= h
         /\ \A g \in Nat : g <= h => Window(k, g) <= Window(k, h)
<1>1. Hours \in Nat \ {0}
  BY DEF MeteringAssumption
<1>2. h \div Hours \in Nat /\ h \div Hours <= h
  BY <1>1
<1>3. ASSUME NEW g \in Nat, g <= h PROVE g \div Hours <= h \div Hours
  BY <1>1, <1>3
<1> QED
  BY <1>2, <1>3 DEF Window

\* What agents may cost adds up agent by agent.
LEMMA FullFacts ==
  ASSUME MeteringAssumption
  PROVE  /\ \A n \in Nat : Full(n) \in Nat /\ Full(n + 1) = Full(n) + MaxSpent
         /\ \A m, n \in Nat : m <= n => Full(m) <= Full(n)
         /\ MaxSpent \in Nat
<1>1. MaxSpent \in Nat
  BY BillFacts
<1>2. \A n \in Nat : Full(n) \in Nat /\ Full(n + 1) = Full(n) + MaxSpent
  BY <1>1 DEF Full
<1>3. ASSUME NEW m \in Nat, NEW n \in Nat, m <= n PROVE Full(m) <= Full(n)
  <2>1. PICK d \in Nat : n = m + d
    BY <1>3
  <2>2. /\ MaxSpent * (m + d) = MaxSpent * m + MaxSpent * d
        /\ MaxSpent * d \in Nat /\ MaxSpent * m \in Nat
    BY <1>1
  <2> QED
    BY <2>1, <2>2 DEF Full
<1> QED
  BY <1>1, <1>2, <1>3

\* The window of a kind that a transaction adds to.
Stamp(k, began) == IF k = "hour" THEN Window("hour", began) ELSE Window("day", hour)

\* It adds to that one only.
LEMMA RecordedAt ==
  ASSUME windows \in [Kinds -> [0 .. MaxHour -> Nat]], NEW amount \in Nat, NEW began,
         NEW k \in Kinds, NEW n \in 0 .. MaxHour
  PROVE  Recorded(amount, began)[k][n]
           = IF n = Stamp(k, began) THEN windows[k][n] + amount ELSE windows[k][n]
<1>1. PICK at : at = [hour |-> Window("hour", began), day |-> Window("day", hour)]
  OBVIOUS
<1>2. at[k] = Stamp(k, began)
  BY <1>1 DEF Stamp, Kinds
<1>3. PICK w : w = windows[k]
  OBVIOUS
<1>4. PICK m : m = at[k]
  OBVIOUS
<1>5. w \in [0 .. MaxHour -> Nat]
  BY <1>3
<1>6. [w EXCEPT ![m] = @ + amount][n] = IF n = m THEN w[n] + amount ELSE w[n]
  BY <1>5
<1>7. Recorded(amount, began)[k] = [w EXCEPT ![m] = @ + amount]
  BY <1>1, <1>3, <1>4 DEF Recorded
<1> QED
  BY <1>2, <1>3, <1>4, <1>6, <1>7

\* Sets of agents in flight are finite, and what a window may hold is a number.
LEMMA RoomFacts ==
  ASSUME MeteringAssumption, MeterInv, NEW k \in Kinds, NEW n \in 0 .. MaxHour
  PROVE  /\ IsFiniteSet(InFlight) /\ Cardinality(InFlight) \in Nat
         /\ Charged(k, n) \in SUBSET InFlight /\ IsFiniteSet(Charged(k, n))
         /\ Cardinality(Charged(k, n)) <= Cardinality(InFlight)
         /\ Cardinality(Charged(k, n)) \in Nat
         /\ Cardinality(Tokens(Charged(k, n), recorded)) \in Nat
         /\ IsFiniteSet(late) /\ Cardinality(late) \in Nat
         /\ windows[k][n] \in Nat /\ Reserve(k, n) \in Nat /\ Caps[k] \in Nat
         /\ Slots \in Nat /\ calls \in Nat /\ hour \in Nat /\ Window(k, hour) \in Nat
         /\ Full(Slots + Cardinality(late)) \in Nat /\ Bill(calls) \in Nat
         /\ MaxSpent \in Nat /\ Bound(k) \in Nat
<1>1. IsFiniteSet(Instances) /\ InFlight \in SUBSET Instances /\ late \in SUBSET Instances
  BY DEF MeteringAssumption, InFlight, MeterInv, MeterShape
<1>2. IsFiniteSet(InFlight) /\ Cardinality(InFlight) \in Nat
  BY <1>1, FS_Subset, FS_CardinalityType
<1>3. IsFiniteSet(late) /\ Cardinality(late) \in Nat
  BY <1>1, FS_Subset, FS_CardinalityType
<1>4. Charged(k, n) \in SUBSET InFlight
  BY DEF Charged
<1>5. /\ IsFiniteSet(Charged(k, n)) /\ Cardinality(Charged(k, n)) <= Cardinality(InFlight)
      /\ Cardinality(Charged(k, n)) \in Nat
  BY <1>2, <1>4, FS_Subset, FS_CardinalityType
<1>6. MaxSpent \in Nat
  BY BillFacts
<1>7. Cardinality(Tokens(Charged(k, n), recorded)) \in Nat
  BY <1>5, <1>6, TokensFinite
<1>8. /\ windows[k][n] \in Nat /\ Caps[k] \in Nat /\ Slots \in Nat /\ calls \in Nat
      /\ hour \in Nat
  BY DEF MeterInv, MeterShape, MeteringAssumption
<1>9. Reserve(k, n) \in Nat
  BY <1>6 DEF Reserve
<1>10. Window(k, hour) \in Nat
  BY <1>8, WindowFacts
<1>11. Full(Slots + Cardinality(late)) \in Nat /\ Bill(calls) \in Nat
  <2>1. Slots + Cardinality(late) \in Nat
    BY <1>3, <1>8
  <2> QED
    BY <1>8, <2>1, FullFacts, BillFacts
<1>12. Bound(k) \in Nat
  BY <1>8, <1>11 DEF Bound
<1> QED
  BY <1>2, <1>3, <1>4, <1>5, <1>6, <1>7, <1>8, <1>9, <1>10, <1>11, <1>12

\* Nothing is recorded, nobody starts, the gate does not open.
Flying(ph) == ph \in {"running", "exited"}
Quiet ==
  /\ windows' = windows /\ late' = late /\ calls' = calls /\ recorded' = recorded
  /\ hour' \in Nat /\ hour <= hour' /\ (gate' => gate)
  /\ \A i \in Instances :
       /\ Flying(phase'[i]) => Flying(phase[i])
       /\ \/ persisting'[i] = persisting[i] \/ persisting'[i] = NoEvent
          \/ hour' = hour /\ persisting'[i].at = hour

\* Then no window may get more than before.
LEMMA QuietKept ==
  ASSUME MeteringAssumption, CapInv, MeterInv', Quiet
  PROVE  CapInv'
<1>1. InFlight' \in SUBSET InFlight
  BY DEF Quiet, InFlight, Flying
<1>2. hour \in Nat /\ hour' \in Nat /\ hour <= hour'
  BY DEF CapInv, MeterInv, MeterShape, MeteringAssumption, Quiet
<1>3. \A k \in Kinds : /\ Window(k, hour) \in Nat /\ Window(k, hour') \in Nat
                       /\ Window(k, hour) <= Window(k, hour')
  BY <1>2, WindowFacts
<1>4. SlotsKept'
  <2>1. IsFiniteSet(InFlight) /\ Slots \in Nat /\ "hour" \in Kinds /\ 0 \in 0 .. MaxHour
    <3>1. IsFiniteSet(Instances) /\ InFlight \in SUBSET Instances
      BY DEF MeteringAssumption, InFlight
    <3>2. IsFiniteSet(InFlight)
      BY <3>1, FS_Subset
    <3> QED
      BY <3>2 DEF MeteringAssumption, Kinds
  <2>2. /\ Cardinality(InFlight') <= Cardinality(InFlight)
        /\ Cardinality(InFlight') \in Nat /\ Cardinality(InFlight) \in Nat
    BY <1>1, <2>1, FS_Subset, FS_CardinalityType
  <2>3. gate \in BOOLEAN /\ gate' \in BOOLEAN /\ (gate' => gate)
    BY DEF CapInv, MeterInv, MeterShape, Quiet
  <2> QED
    BY <2>1, <2>2, <2>3 DEF CapInv, SlotsKept
<1>5. FutureEmpty'
  <2> SUFFICES ASSUME NEW k \in Kinds, NEW n \in 0 .. MaxHour, n > Window(k, hour')
               PROVE  windows'[k][n] = 0
    BY DEF FutureEmpty
  <2>1. n > Window(k, hour)
    BY <1>3
  <2>2. windows[k][n] = 0
    BY <2>1 DEF CapInv, FutureEmpty
  <2> QED
    BY <2>2 DEF Quiet
<1>6. RoomKept'
  <2> SUFFICES ASSUME NEW k \in Kinds, Caps[k] > 0, NEW n \in 0 .. MaxHour
               PROVE  Room(k, n)'
    BY DEF RoomKept
  <2>1. Room(k, n)
    BY DEF CapInv, RoomKept
  <2>2. ASSUME NEW i \in Charged(k, n)' PROVE i \in Charged(k, n)
    <3>1. i \in InFlight' /\ i \in InFlight /\ i \in Instances
      BY <1>1 DEF Charged, InFlight
    <3>2. \/ n >= Window(k, hour')
          \/ persisting'[i] # NoEvent /\ Window(k, persisting'[i].at) = n
      BY DEF Charged
    <3>3. CASE n >= Window(k, hour')
      <4>1. n >= Window(k, hour)
        BY <1>3, <3>3
      <4> QED
        BY <3>1, <4>1 DEF Charged
    <3>4. CASE persisting'[i] # NoEvent /\ Window(k, persisting'[i].at) = n
      <4>1. CASE persisting'[i] = persisting[i]
        BY <3>1, <3>4, <4>1 DEF Charged
      <4>2. CASE persisting'[i].at = hour
        <5>1. n >= Window(k, hour)
          BY <1>3, <3>4, <4>2
        <5> QED
          BY <3>1, <5>1 DEF Charged
      <4> QED
        BY <3>1, <3>4, <4>1, <4>2 DEF Quiet
    <3> QED
      BY <3>2, <3>3, <3>4
  <2>3. PICK D : D = Charged(k, n)'
    OBVIOUS
  <2>4. D \in SUBSET Charged(k, n)
    BY <2>2, <2>3
  <2>5. /\ IsFiniteSet(Charged(k, n)) /\ MaxSpent \in Nat /\ Reserve(k, n) \in Nat
        /\ Charged(k, n) \in SUBSET Instances /\ windows[k][n] \in Nat /\ Bound(k) \in Nat
        /\ Cardinality(Tokens(Charged(k, n), recorded)) \in Nat
    BY RoomFacts DEF CapInv, InFlight
  <2>6. \A i \in D : recorded[i] \in Int /\ recorded[i] <= recorded[i]
    BY <2>4, <2>5 DEF CapInv, MeterInv, MeterShape
  <2>7. /\ Cardinality(Tokens(D, recorded)) <= Cardinality(Tokens(Charged(k, n), recorded))
        /\ Cardinality(Tokens(D, recorded)) \in Nat
    <3>1. /\ Cardinality(Tokens(D, recorded)) <= Cardinality(Tokens(Charged(k, n), recorded))
          /\ IsFiniteSet(Tokens(D, recorded))
      BY <2>4, <2>5, <2>6, TokensShrink
    <3> QED
      BY <3>1, FS_CardinalityType
  <2>8. Reserve(k, n)' \in Nat /\ Reserve(k, n)' <= Reserve(k, n)
    <3>1. n >= Window(k, hour') => n >= Window(k, hour)
      BY <1>3
    <3> QED
      BY <2>5, <3>1 DEF Reserve, Quiet
  <2>9. Bound(k)' = Bound(k)
    BY DEF Bound, Quiet
  <2>10. windows[k][n] + Cardinality(Tokens(D, recorded)) + Reserve(k, n)' < Bound(k)
    BY <2>1, <2>5, <2>7, <2>8 DEF Room
  <2> QED
    BY <2>3, <2>9, <2>10 DEF Room, Quiet
<1> QED
  BY <1>4, <1>5, <1>6 DEF CapInv

\* Most steps are such.
LEMMA QuietSteps ==
  ASSUME MeteringAssumption, MeterInv, NEW i \in Instances,
         \/ HourPasses \/ Finish(i) \/ Die(i) \/ Cleanup(i) \/ Read(i) \/ ReadError(i)
         \/ PersistFails(i) \/ (\E real, estimate \in 0 .. MaxCost : Turn(i, real, estimate))
         \/ UNCHANGED meteringVars
  PROVE  Quiet
<1>1. hour \in Nat /\ phase \in [Instances -> Phases]
  BY DEF MeterInv, MeterShape, MeteringAssumption
<1>2. persisting \in [Instances -> PersistRecord \cup {NoEvent}]
  BY DEF MeterInv, MeterShape
<1>3. CASE HourPasses
  BY <1>1, <1>3 DEF HourPasses, Quiet, agentVars, historyVars
<1>4. CASE Finish(i)
  BY <1>1, <1>4 DEF Finish, Quiet, historyVars, Flying
<1>5. CASE Die(i)
  BY <1>1, <1>5 DEF Die, Quiet, historyVars, Flying
<1>6. CASE Cleanup(i)
  BY <1>1, <1>6 DEF Cleanup, Quiet, historyVars, Flying
<1>7. CASE Read(i)
  BY <1>1, <1>2, <1>7 DEF Read, Quiet, historyVars
<1>8. CASE ReadError(i)
  BY <1>1, <1>8 DEF ReadError, Quiet, historyVars
<1>9. CASE PersistFails(i)
  BY <1>1, <1>2, <1>9 DEF PersistFails, Quiet, historyVars, agentVars
<1>10. CASE \E real, estimate \in 0 .. MaxCost : Turn(i, real, estimate)
  BY <1>1, <1>10 DEF Turn, Quiet, historyVars
<1>11. CASE UNCHANGED meteringVars
  BY <1>1, <1>11 DEF meteringVars, Quiet, historyVars, agentVars
<1> QED
  BY <1>3, <1>4, <1>5, <1>6, <1>7, <1>8, <1>9, <1>10, <1>11

\* The gate opens when the present window is not full, and the later ones are empty.
LEMMA PassGateKept ==
  ASSUME MeteringAssumption, CapInv, MeterInv', PassGate
  PROVE  CapInv'
<1>1. /\ ~gate /\ gate' = TRUE /\ ~IsBlocked /\ Cardinality(InFlight) < Slots
      /\ UNCHANGED <<hour, windows, persisting, calls, phase, recorded, late>>
  BY DEF PassGate, agentVars, historyVars
<1>2. InFlight' = InFlight
  BY <1>1 DEF InFlight
<1>3. /\ "hour" \in Kinds /\ 0 \in 0 .. MaxHour /\ MeterInv
  BY DEF Kinds, CapInv, MeteringAssumption
<1>4. SlotsKept'
  <2>1. Cardinality(InFlight) \in Nat /\ Slots \in Nat
    BY <1>3, RoomFacts
  <2> QED
    BY <1>1, <1>2, <2>1 DEF SlotsKept
<1>5. FutureEmpty'
  BY <1>1 DEF CapInv, FutureEmpty
<1>6. ASSUME NEW k \in Kinds, Caps[k] > 0, NEW n \in 0 .. MaxHour PROVE Room(k, n)'
  <2>1. Charged(k, n)' = Charged(k, n) /\ Bound(k)' = Bound(k)
    BY <1>1, <1>2 DEF Charged, Bound
  <2>2. PICK t : t = Cardinality(Tokens(Charged(k, n), recorded))
    OBVIOUS
  <2>3. Room(k, n)' <=> windows[k][n] + t + Reserve(k, n)' < Bound(k)
    BY <1>1, <2>1, <2>2 DEF Room
  <2>4. /\ t \in Nat /\ windows[k][n] \in Nat /\ Bound(k) \in Nat /\ MaxSpent \in Nat
        /\ Window(k, hour) \in Nat /\ Caps[k] \in Nat /\ Bill(calls) \in Nat
    BY <1>3, <2>2, RoomFacts
  <2>5. CASE n < Window(k, hour)
    <3>1. Reserve(k, n)' = Reserve(k, n)
      BY <1>1, <2>4, <2>5 DEF Reserve
    <3>2. Room(k, n)
      BY <1>6 DEF CapInv, RoomKept
    <3> QED
      BY <2>2, <2>3, <3>1, <3>2 DEF Room
  <2>6. CASE n >= Window(k, hour)
    <3>1. Reserve(k, n)' = MaxSpent
      BY <1>1, <2>6 DEF Reserve
    <3>2. windows[k][n] < Caps[k]
      <4>1. CASE n = Window(k, hour)
        BY <1>1, <1>6, <2>4, <4>1 DEF IsBlocked
      <4>2. CASE n # Window(k, hour)
        <5>1. n > Window(k, hour)
          BY <2>4, <2>6, <4>2
        <5>2. windows[k][n] = 0
          BY <5>1 DEF CapInv, FutureEmpty
        <5> QED
          BY <1>6, <5>2
      <4> QED
        BY <4>1, <4>2
    <3>3. PICK c : c = Cardinality(InFlight)
      OBVIOUS
    <3>4. PICK l : l = Cardinality(late)
      OBVIOUS
    <3>5. c \in Nat /\ l \in Nat /\ Slots \in Nat /\ c + 1 <= Slots /\ c + 1 <= Slots + l
      BY <1>1, <1>3, <3>3, <3>4, RoomFacts
    <3>6. t <= Full(c)
      <4>1. PICK C : C = Charged(k, n)
        OBVIOUS
      <4>2. IsFiniteSet(C) /\ Cardinality(C) <= c /\ Cardinality(C) \in Nat
        BY <1>3, <3>3, <4>1, RoomFacts
      <4>3. t <= MaxSpent * Cardinality(C)
        BY <2>2, <2>4, <4>1, <4>2, TokensFinite
      <4>4. Full(Cardinality(C)) <= Full(c) /\ Full(c) \in Nat /\ Full(Cardinality(C)) \in Nat
        BY <3>5, <4>2, FullFacts
      <4>5. t <= Full(Cardinality(C))
        BY <4>3 DEF Full
      <4> QED
        BY <2>4, <4>4, <4>5
    <3>7. Full(c + 1) = Full(c) + MaxSpent /\ Full(c) \in Nat
      BY <3>5, FullFacts
    <3>8. c + 1 \in Nat /\ Slots + l \in Nat
      BY <3>5
    <3>9. Full(c + 1) <= Full(Slots + l) /\ Full(Slots + l) \in Nat
      BY <3>5, <3>8, FullFacts
    <3>10. Bound(k) = Caps[k] + Full(Slots + l) + Bill(calls)
      BY <3>4 DEF Bound
    <3> QED
      BY <2>3, <2>4, <3>1, <3>2, <3>6, <3>7, <3>9, <3>10
  <2> QED
    BY <2>4, <2>5, <2>6
<1>7. RoomKept'
  BY <1>6 DEF RoomKept
<1> QED
  BY <1>4, <1>5, <1>7 DEF CapInv

\* The agent that starts has the reserve.
LEMMA ClaimKept ==
  ASSUME MeteringAssumption, CapInv, MeterInv', NEW i \in Instances, Claim(i)
  PROVE  CapInv'
<1>1. /\ gate /\ gate' = FALSE /\ phase[i] = "none"
      /\ phase' = [phase EXCEPT ![i] = "running"]
      /\ UNCHANGED <<hour, windows, persisting, calls, recorded, late>>
  BY DEF Claim, historyVars
<1>2. MeterInv
  BY DEF CapInv
<1>3. i \notin InFlight /\ InFlight' = InFlight \cup {i}
  BY <1>1, <1>2 DEF InFlight, MeterInv, MeterShape
<1>4. "hour" \in Kinds /\ 0 \in 0 .. MaxHour
  BY DEF Kinds, MeteringAssumption
<1>5. persisting[i] = NoEvent
  BY <1>1, <1>2, Facts DEF StageFits
<1>6. SlotsKept'
  <2>1. IsFiniteSet(InFlight) /\ Cardinality(InFlight) \in Nat /\ Slots \in Nat
    BY <1>2, <1>4, RoomFacts
  <2>2. Cardinality(InFlight') = Cardinality(InFlight) + 1
    BY <1>3, <2>1, FS_AddElement
  <2> QED
    BY <1>1, <2>1, <2>2 DEF CapInv, SlotsKept
<1>7. FutureEmpty'
  BY <1>1 DEF CapInv, FutureEmpty
<1>8. ASSUME NEW k \in Kinds, Caps[k] > 0, NEW n \in 0 .. MaxHour PROVE Room(k, n)'
  <2>1. Room(k, n) /\ Bound(k)' = Bound(k) /\ Reserve(k, n)' = 0
    BY <1>1, <1>8 DEF CapInv, RoomKept, Bound, Reserve
  <2>2. PICK C : C = Charged(k, n)
    OBVIOUS
  <2>3. PICK D : D = Charged(k, n)'
    OBVIOUS
  <2>4. PICK t : t = Cardinality(Tokens(C, recorded))
    OBVIOUS
  <2>5. PICK u : u = Cardinality(Tokens(D, recorded))
    OBVIOUS
  <2>6. /\ IsFiniteSet(C) /\ t \in Nat /\ windows[k][n] \in Nat /\ Bound(k) \in Nat
        /\ MaxSpent \in Nat /\ Window(k, hour) \in Nat
    BY <1>2, <2>2, <2>4, RoomFacts
  <2>7. Room(k, n)' <=> windows[k][n] + u + 0 < Bound(k)
    BY <1>1, <2>1, <2>3, <2>5 DEF Room
  <2>8. windows[k][n] + t + Reserve(k, n) < Bound(k)
    BY <2>1, <2>2, <2>4 DEF Room
  <2>9. IsFiniteSet(D) /\ u \in Nat
    <3>1. D \in SUBSET (C \cup {i})
      BY <1>1, <1>3, <2>2, <2>3 DEF Charged
    <3>2. IsFiniteSet(C \cup {i})
      BY <2>6, FS_AddElement
    <3>3. IsFiniteSet(D)
      BY <3>1, <3>2, FS_Subset
    <3> QED
      BY <2>5, <2>6, <3>3, TokensFinite
  <2>10. CASE n >= Window(k, hour)
    <3>1. D = C \cup {i}
      BY <1>1, <1>3, <2>2, <2>3, <2>10 DEF Charged
    <3>2. u <= t + MaxSpent
      BY <2>4, <2>5, <2>6, <3>1, TokensGrow
    <3>3. Reserve(k, n) = MaxSpent
      BY <1>1, <2>10 DEF Reserve
    <3> QED
      BY <2>6, <2>7, <2>8, <2>9, <3>2, <3>3
  <2>11. CASE ~(n >= Window(k, hour))
    <3>1. D = C
      BY <1>1, <1>3, <1>5, <2>2, <2>3, <2>11 DEF Charged
    <3>2. Reserve(k, n) = 0
      BY <2>11 DEF Reserve
    <3> QED
      BY <2>4, <2>5, <2>7, <2>8, <3>1, <3>2
  <2> QED
    BY <2>10, <2>11
<1>9. RoomKept'
  BY <1>8 DEF RoomKept
<1> QED
  BY <1>6, <1>7, <1>9 DEF CapInv

\* A call of the PM agent has a share of its own.
LEMMA PmCallKept ==
  ASSUME MeteringAssumption, CapInv, MeterInv', PmCall(MaxCost)
  PROVE  CapInv'
<1>1. /\ calls' = calls + 1 /\ windows' = Recorded(MaxCost, hour)
      /\ UNCHANGED <<hour, gate, persisting, phase, recorded, late>>
  BY DEF PmCall, agentVars, historyVars
<1>2. MeterInv /\ windows \in [Kinds -> [0 .. MaxHour -> Nat]] /\ MaxCost \in Nat
  BY DEF CapInv, MeterInv, MeterShape, MeteringAssumption
<1>3. InFlight' = InFlight
  BY <1>1 DEF InFlight
<1>4. SlotsKept'
  BY <1>1, <1>3 DEF CapInv, SlotsKept
<1>5. ASSUME NEW k \in Kinds, NEW n \in 0 .. MaxHour
      PROVE  /\ windows[k][n] \in Nat /\ windows'[k][n] \in Nat
             /\ windows'[k][n] <= windows[k][n] + MaxCost
             /\ n # Window(k, hour) => windows'[k][n] = windows[k][n]
  <2>1. windows'[k][n] = IF n = Stamp(k, hour) THEN windows[k][n] + MaxCost ELSE windows[k][n]
    BY <1>1, <1>2, RecordedAt
  <2>2. Stamp(k, hour) = Window(k, hour)
    BY DEF Stamp, Kinds
  <2>3. windows[k][n] \in Nat
    BY <1>2
  <2> QED
    BY <1>2, <2>1, <2>2, <2>3
<1>6. FutureEmpty'
  <2> SUFFICES ASSUME NEW k \in Kinds, NEW n \in 0 .. MaxHour, n > Window(k, hour)
               PROVE  windows'[k][n] = 0
    BY <1>1 DEF FutureEmpty
  <2>1. n # Window(k, hour)
    BY <1>2, RoomFacts
  <2>2. windows[k][n] = 0
    BY DEF CapInv, FutureEmpty
  <2> QED
    BY <1>5, <2>1, <2>2
<1>7. ASSUME NEW k \in Kinds, Caps[k] > 0, NEW n \in 0 .. MaxHour PROVE Room(k, n)'
  <2>1. Room(k, n)
    BY <1>7 DEF CapInv, RoomKept
  <2>2. Charged(k, n)' = Charged(k, n) /\ Reserve(k, n)' = Reserve(k, n)
    BY <1>1, <1>3 DEF Charged, Reserve
  <2>3. PICK t : t = Cardinality(Tokens(Charged(k, n), recorded)) + Reserve(k, n)
    OBVIOUS
  <2>4. /\ Cardinality(Tokens(Charged(k, n), recorded)) \in Nat /\ Reserve(k, n) \in Nat
        /\ Bound(k) \in Nat /\ calls \in Nat /\ windows[k][n] \in Nat
        /\ Caps[k] \in Nat /\ Full(Slots + Cardinality(late)) \in Nat /\ Bill(calls) \in Nat
    BY <1>2, RoomFacts
  <2>5. Bill(calls + 1) = Bill(calls) + MaxCost
    BY <2>4, BillFacts
  <2>6. Bound(k)' = Bound(k) + MaxCost
    <3>1. Bound(k)' = Caps[k] + Full(Slots + Cardinality(late)) + Bill(calls + 1)
      BY <1>1 DEF Bound
    <3>2. Bound(k) = Caps[k] + Full(Slots + Cardinality(late)) + Bill(calls)
      BY DEF Bound
    <3> QED
      BY <1>2, <2>4, <2>5, <3>1, <3>2
  <2>7. windows[k][n] + t < Bound(k)
    BY <2>1, <2>3, <2>4 DEF Room
  <2>8. windows'[k][n] + t < Bound(k) + MaxCost
    <3>1. windows'[k][n] <= windows[k][n] + MaxCost /\ windows'[k][n] \in Nat
      BY <1>5
    <3>2. t \in Nat
      BY <2>3, <2>4
    <3>3. MaxCost \in Nat /\ windows[k][n] \in Nat /\ Bound(k) \in Nat
      BY <1>2, <2>4
    <3>4. \A w, v, b \in Nat : w + t < b /\ v <= w + MaxCost => v + t < b + MaxCost
      BY <3>2, <3>3
    <3> QED
      BY <2>7, <3>1, <3>3, <3>4
  <2>9. /\ windows'[k][n] \in Nat
        /\ Room(k, n)' <=> windows'[k][n] + Cardinality(Tokens(Charged(k, n), recorded))
                             + Reserve(k, n) < Bound(k) + MaxCost
    BY <1>1, <1>5, <2>2, <2>6 DEF Room
  <2> QED
    BY <1>2, <2>3, <2>4, <2>8, <2>9
<1>8. RoomKept'
  BY <1>7 DEF RoomKept
<1> QED
  BY <1>4, <1>6, <1>8 DEF CapInv

\* What an agent in flight records it had left, and one that is not has a share of its own.
LEMMA PersistKept ==
  ASSUME MeteringAssumption, CapInv, MeterInv', NEW i \in Instances, Persist(i)
  PROVE  CapInv'
<1>1. PICK e : e = persisting[i]
  OBVIOUS
<1>2. PICK a : a = Added(i, e.event)
  OBVIOUS
<1>3. /\ e # NoEvent /\ windows' = Recorded(a, e.at)
      /\ recorded' = [recorded EXCEPT ![i] = @ + a]
      /\ late' = (IF phase[i] = "ended" THEN late \cup {i} ELSE late)
      /\ persisting' = [persisting EXCEPT ![i] = NoEvent]
      /\ UNCHANGED <<hour, gate, calls, phase, turns>>
  <2>1. /\ persisting[i] # NoEvent
        /\ windows' = Recorded(Added(i, persisting[i].event), persisting[i].at)
        /\ recorded' = [recorded EXCEPT ![i] = @ + Added(i, persisting[i].event)]
        /\ late' = (IF phase[i] = "ended" THEN late \cup {i} ELSE late)
        /\ persisting' = [persisting EXCEPT ![i] = NoEvent]
        /\ UNCHANGED <<hour, gate, calls, phase, turns>>
    BY DEF Persist, agentVars
  <2>2. windows' = Recorded(a, e.at)
    BY <1>1, <1>2, <2>1
  <2> QED
    BY <1>1, <1>2, <2>1, <2>2
<1>4. /\ MeterInv /\ windows \in [Kinds -> [0 .. MaxHour -> Nat]]
      /\ recorded \in [Instances -> Nat] /\ hour \in Nat
      /\ persisting \in [Instances -> PersistRecord \cup {NoEvent}]
  <2>1. MeterInv
    BY DEF CapInv
  <2>2. hour \in Nat
    BY <2>1, Facts
  <2> QED
    BY <2>1, <2>2 DEF MeterInv, MeterShape
<1>5. a \in Nat
  <2>1. persisting[i] # NoEvent
    BY <1>1, <1>3
  <2>2. Added(i, persisting[i].event) \in Nat
    BY <1>4, <2>1, AddedFacts
  <2> QED
    BY <1>1, <1>2, <2>2
<1>6. e.at \in Nat /\ e.at <= hour
  <2>1. e \in PersistRecord \cup {NoEvent}
        /\ PersistFits(e, pipe[i], spent[i], phase[i], hour)
    BY <1>1, <1>4, Facts
  <2> QED
    BY <1>3, <2>1 DEF PersistFits, PersistRecord
<1>7. phase[i] \in Phases /\ phase[i] # "none" /\ i \notin late
  <2>1. phase[i] \in Phases /\ StageFits(i)
    BY <1>4, Facts
  <2> QED
    BY <1>1, <1>3, <2>1 DEF StageFits
<1>8. /\ recorded'[i] = recorded[i] + a /\ recorded[i] \in Nat
      /\ \A j \in Instances : recorded[j] \in Nat /\ (j # i => recorded'[j] = recorded[j])
  BY <1>3, <1>4
<1>9. recorded'[i] <= MaxSpent /\ a <= MaxSpent /\ MaxSpent \in Nat
  <2>1. recorded'[i] <= Bill(turns[i])
    BY <1>3 DEF MeterInv, Sound, CostFits
  <2>2. turns[i] \in Nat /\ turns[i] <= MaxTurns
    BY <1>4, Facts
  <2>3. MaxTurns \in Nat /\ MaxSpent = Bill(MaxTurns) /\ MaxSpent \in Nat
    BY BillFacts
  <2>4. Bill(turns[i]) <= MaxSpent /\ Bill(turns[i]) \in Nat
    BY <2>2, <2>3, BillFacts
  <2> QED
    BY <1>5, <1>8, <2>1, <2>3, <2>4
<1>10. InFlight' = InFlight
  BY <1>3 DEF InFlight
<1>11. SlotsKept'
  BY <1>3, <1>10 DEF CapInv, SlotsKept
<1>12. ASSUME NEW k \in Kinds
       PROVE  Stamp(k, e.at) \in Nat /\ Stamp(k, e.at) <= Window(k, hour)
  <2>1. Window(k, e.at) \in Nat /\ Window(k, hour) \in Nat /\ Window(k, e.at) <= Window(k, hour)
    BY <1>4, <1>6, WindowFacts
  <2> QED
    BY <2>1 DEF Stamp, Kinds
<1>13. ASSUME NEW k \in Kinds, NEW n \in 0 .. MaxHour
       PROVE  windows'[k][n] = IF n = Stamp(k, e.at) THEN windows[k][n] + a ELSE windows[k][n]
  BY <1>3, <1>4, <1>5, RecordedAt
<1>14. FutureEmpty'
  <2> SUFFICES ASSUME NEW k \in Kinds, NEW n \in 0 .. MaxHour, n > Window(k, hour)
               PROVE  windows'[k][n] = 0
    BY <1>3 DEF FutureEmpty
  <2>1. n # Stamp(k, e.at)
    <3>1. Window(k, hour) \in Nat
      BY <1>4, RoomFacts
    <3>2. Stamp(k, e.at) \in Nat /\ Stamp(k, e.at) <= Window(k, hour)
      BY <1>12
    <3> QED
      BY <3>1, <3>2
  <2>2. windows[k][n] = 0
    BY DEF CapInv, FutureEmpty
  <2> QED
    BY <1>13, <2>1, <2>2
<1>15. ASSUME NEW k \in Kinds, Caps[k] > 0, NEW n \in 0 .. MaxHour PROVE Room(k, n)'
  <2>1. PICK C : C = Charged(k, n)
    OBVIOUS
  <2>2. PICK D : D = Charged(k, n)'
    OBVIOUS
  <2>3. PICK t : t = Cardinality(Tokens(C, recorded))
    OBVIOUS
  <2>4. PICK u : u = Cardinality(Tokens(D, recorded'))
    OBVIOUS
  <2>5. PICK r : r = Reserve(k, n)
    OBVIOUS
  <2>6. D \in SUBSET C
    BY <1>3, <1>4, <1>10, <2>1, <2>2 DEF Charged
  <2>7. /\ IsFiniteSet(C) /\ C \in SUBSET InFlight /\ C \in SUBSET Instances /\ t \in Nat
        /\ r \in Nat /\ windows[k][n] \in Nat /\ Bound(k) \in Nat /\ Window(k, hour) \in Nat
    BY <1>4, <2>1, <2>3, <2>5, RoomFacts DEF InFlight
  <2>8. Room(k, n)' <=> windows'[k][n] + u + r < Bound(k)'
    <3>1. Reserve(k, n)' = r
      BY <1>3, <2>5 DEF Reserve
    <3> QED
      BY <2>2, <2>4, <3>1 DEF Room
  <2>9. windows[k][n] + t + r < Bound(k)
    BY <1>15, <2>1, <2>3, <2>5 DEF CapInv, RoomKept, Room
  <2>10. u <= t /\ u \in Nat
    <3>1. \A j \in D : recorded[j] \in Int /\ recorded'[j] \in Int /\ recorded[j] <= recorded'[j]
      BY <1>5, <1>8, <2>6, <2>7
    <3>2. IsFiniteSet(Tokens(D, recorded')) /\ u <= t
      BY <1>9, <2>3, <2>4, <2>6, <2>7, <3>1, TokensShrink
    <3> QED
      BY <2>4, <3>2, FS_CardinalityType
  <2>11. PICK w : w = windows[k][n]
    OBVIOUS
  <2>12. PICK b : b = Bound(k)
    OBVIOUS
  <2>13. CASE i \in InFlight
    <3>1. Bound(k)' = b
      BY <1>3, <2>12, <2>13 DEF InFlight, Bound
    <3>2. CASE n = Stamp(k, e.at)
      <4>1. i \in C
        <5>1. CASE k = "hour"
          BY <1>1, <1>3, <2>1, <2>13, <3>2, <5>1 DEF Charged, Stamp
        <5>2. CASE k # "hour"
          BY <2>1, <2>7, <2>13, <3>2, <5>2 DEF Charged, Stamp, Kinds
        <5> QED
          BY <5>1, <5>2
      <4>2. \A j \in C : recorded[j] \in Nat /\ (j # i => recorded'[j] = recorded[j])
        BY <1>8, <2>7
      <4>3. u + a <= t
        BY <1>5, <1>8, <1>9, <2>3, <2>4, <2>6, <2>7, <4>1, <4>2, TokensUsed
      <4>4. windows'[k][n] = w + a
        BY <1>13, <2>11, <3>2
      <4>5. w + a + u + r < b
        BY <1>5, <2>7, <2>9, <2>10, <2>11, <2>12, <4>3
      <4> QED
        BY <2>8, <3>1, <4>4, <4>5
    <3>3. CASE n # Stamp(k, e.at)
      <4>1. windows'[k][n] = w
        BY <1>13, <2>11, <3>3
      <4>2. w + u + r < b
        BY <2>7, <2>9, <2>10, <2>11, <2>12
      <4> QED
        BY <2>8, <3>1, <4>1, <4>2
    <3> QED
      BY <3>2, <3>3
  <2>14. CASE i \notin InFlight
    <3>1. phase[i] = "ended" /\ late' = late \cup {i}
      BY <1>3, <1>7, <2>14 DEF InFlight, Phases
    <3>2. PICK l : l = Cardinality(late)
      OBVIOUS
    <3>3. /\ IsFiniteSet(late) /\ l \in Nat /\ Slots \in Nat /\ Caps[k] \in Nat
          /\ Bill(calls) \in Nat
      BY <1>4, <3>2, RoomFacts
    <3>4. Cardinality(late') = l + 1
      BY <1>7, <3>1, <3>2, <3>3, FS_AddElement
    <3>5. PICK m : m = Slots + l
      OBVIOUS
    <3>6. m \in Nat /\ Slots + (l + 1) = m + 1
      BY <3>3, <3>5
    <3>7. Full(m + 1) = Full(m) + MaxSpent /\ Full(m) \in Nat
      BY <3>6, FullFacts
    <3>8. b = Caps[k] + Full(m) + Bill(calls)
      BY <2>12, <3>2, <3>5 DEF Bound
    <3>9. Bound(k)' = Caps[k] + Full(m + 1) + Bill(calls)
      BY <1>3, <3>4, <3>6 DEF Bound
    <3>10. Bound(k)' = b + MaxSpent
      BY <1>9, <3>3, <3>7, <3>8, <3>9
    <3>11. windows'[k][n] = w \/ windows'[k][n] = w + a
      BY <1>13, <2>11
    <3>12. w + u + r < b + MaxSpent /\ (w + a) + u + r < b + MaxSpent
      BY <1>5, <1>9, <2>7, <2>9, <2>10, <2>11, <2>12
    <3> QED
      BY <2>8, <3>10, <3>11, <3>12
  <2> QED
    BY <2>13, <2>14
<1>16. RoomKept'
  BY <1>15 DEF RoomKept
<1> QED
  BY <1>11, <1>14, <1>16 DEF CapInv

\* In the first state every window is empty.
LEMMA CapInvInit == ASSUME MeteringAssumption, MeteringInit PROVE CapInv
<1>1. MeterInv
  BY MeterInvInit
<1>2. /\ hour = 0 /\ ~gate /\ calls = 0 /\ late = {} /\ InFlight = {}
      /\ windows = [k \in Kinds |-> [n \in 0 .. MaxHour |-> 0]]
  BY DEF MeteringInit, InFlight
<1>3. "hour" \in Kinds /\ 0 \in 0 .. MaxHour
  BY DEF Kinds, MeteringAssumption
<1>4. SlotsKept
  BY <1>1, <1>2, <1>3, RoomFacts, FS_EmptySet DEF SlotsKept
<1>5. FutureEmpty
  BY <1>2 DEF FutureEmpty
<1>6. ASSUME NEW k \in Kinds, Caps[k] > 0, NEW n \in 0 .. MaxHour PROVE Room(k, n)
  <2>1. windows[k][n] = 0 /\ Reserve(k, n) = 0
    BY <1>2 DEF Reserve
  <2>2. Charged(k, n) = {}
    BY <1>2 DEF Charged
  <2>3. Tokens({}, recorded) = {}
    BY DEF Tokens
  <2>4. Cardinality(Tokens(Charged(k, n), recorded)) = 0
    BY <2>2, <2>3, FS_EmptySet
  <2>5. /\ Caps[k] \in Nat /\ Full(Slots + Cardinality(late)) \in Nat /\ Bill(calls) \in Nat
    BY <1>1, RoomFacts
  <2>6. Bound(k) > 0
    BY <1>6, <2>5 DEF Bound
  <2> QED
    BY <2>1, <2>4, <2>6 DEF Room
<1> QED
  BY <1>1, <1>4, <1>5, <1>6 DEF CapInv, RoomKept

\* Every step keeps it.
LEMMA CapInvStep ==
  ASSUME MeteringAssumption, CapInv, [MeteringNext]_meteringVars
  PROVE  CapInv'
<1>1. MeterInv /\ MeterInv'
  BY MeterInvStep DEF CapInv
<1>2. CASE PassGate
  BY <1>1, <1>2, PassGateKept
<1>3. CASE PmCall(MaxCost)
  BY <1>1, <1>3, PmCallKept
<1>4. CASE HourPasses
  <2>1. Quiet
    BY <1>1, <1>4 DEF HourPasses, Quiet, agentVars, historyVars, MeterInv, MeterShape,
       MeteringAssumption
  <2> QED
    BY <1>1, <2>1, QuietKept
<1>5. ASSUME NEW i \in Instances, Claim(i) PROVE CapInv'
  BY <1>1, <1>5, ClaimKept
<1>6. ASSUME NEW i \in Instances, Persist(i) PROVE CapInv'
  BY <1>1, <1>6, PersistKept
<1>7. ASSUME NEW i \in Instances,
             \/ Finish(i) \/ Die(i) \/ Cleanup(i) \/ Read(i) \/ ReadError(i)
             \/ PersistFails(i) \/ (\E real, estimate \in 0 .. MaxCost : Turn(i, real, estimate))
      PROVE  CapInv'
  BY <1>1, <1>7, QuietSteps, QuietKept
<1>8. CASE UNCHANGED meteringVars
  <2>1. Quiet
    BY <1>1, <1>8 DEF meteringVars, Quiet, agentVars, historyVars, MeterInv, MeterShape,
       MeteringAssumption
  <2> QED
    BY <1>1, <2>1, QuietKept
<1> QED
  BY <1>2, <1>3, <1>4, <1>5, <1>6, <1>7, <1>8 DEF MeteringNext

\* It implies the bound.
LEMMA CapInvBounds == ASSUME MeteringAssumption, CapInv PROVE OvershootBounded
<1> SUFFICES ASSUME NEW k \in Kinds, Caps[k] > 0, NEW n \in 0 .. MaxHour
             PROVE  windows[k][n] < Caps[k] + MaxSpent * (Slots + Cardinality(late))
                                      + MaxCost * calls
  BY DEF OvershootBounded
<1>1. Room(k, n) /\ MeterInv
  BY DEF CapInv, RoomKept
<1>2. /\ windows[k][n] \in Nat /\ Reserve(k, n) \in Nat /\ Bound(k) \in Nat
      /\ Cardinality(Tokens(Charged(k, n), recorded)) \in Nat
  BY <1>1, RoomFacts
<1>3. windows[k][n] < Bound(k)
  BY <1>1, <1>2 DEF Room
<1> QED
  BY <1>3 DEF Bound, Full, Bill

\* However far the agents in flight overshoot, a window holds less than its cap and what as
\* many agents as there are slots may cost, beside the PM agent's calls and the agents whose
\* last event came late (budget.py is_blocked and record_usage, loop.py).
THEOREM OvershootIsBounded == MeteringSpec => []OvershootBounded
<1>1. MeteringInit => CapInv
  BY MeteringAssumption, CapInvInit
<1>2. CapInv /\ [MeteringNext]_meteringVars => CapInv'
  BY MeteringAssumption, CapInvStep
<1>3. CapInv => OvershootBounded
  BY MeteringAssumption, CapInvBounds
<1> QED
  BY <1>1, <1>2, <1>3, PTL DEF MeteringSpec

-----------------------------------------------------------------------------
(* Windows add up *)

WindowSum(k) == Sums(windows[k], 0 .. MaxHour)[0 .. MaxHour]
RecordedSum == Sums(recorded, Instances)[Instances]
Balanced == \A k \in Kinds : WindowSum(k) = RecordedSum + Bill(calls)

BalanceInv == MeterInv /\ Balanced

\* One window of each kind gets what is recorded.
LEMMA WindowSumRecorded ==
  ASSUME MeteringAssumption, MeterInv, NEW k \in Kinds, NEW a \in Nat, NEW at \in Nat,
         at <= hour, windows' = Recorded(a, at)
  PROVE  WindowSum(k)' = WindowSum(k) + a
<1>1. /\ windows \in [Kinds -> [0 .. MaxHour -> Nat]]
      /\ hour \in Nat /\ hour <= MaxHour /\ MaxHour \in Nat
  BY DEF MeterInv, MeterShape, MeteringAssumption
<1>2. PICK y : y = Stamp(k, at)
  OBVIOUS
<1>3. y \in 0 .. MaxHour
  <2>1. Window("hour", at) = at /\ "day" \in Kinds
    BY DEF Window, Kinds
  <2>2. Window("day", hour) \in Nat /\ Window("day", hour) <= hour
    BY <1>1, <2>1, WindowFacts
  <2>3. y = at \/ y = Window("day", hour)
    BY <1>2, <2>1 DEF Stamp
  <2> QED
    BY <1>1, <2>2, <2>3
<1>4. PICK S : S = 0 .. MaxHour
  OBVIOUS
<1>5. PICK f : f = windows[k]
  OBVIOUS
<1>6. PICK g : g = windows'[k]
  OBVIOUS
<1>7. IsFiniteSet(S) /\ y \in S
  BY <1>1, <1>3, <1>4, FS_Interval
<1>8. ASSUME NEW n \in S PROVE f[n] \in Int /\ g[n] = IF n = y THEN f[n] + a ELSE f[n]
  <2>1. n \in 0 .. MaxHour
    BY <1>4
  <2>2. windows[k][n] \in Nat
    BY <1>1, <2>1
  <2>3. Recorded(a, at)[k][n] = IF n = y THEN windows[k][n] + a ELSE windows[k][n]
    BY <1>1, <1>2, <2>1, RecordedAt
  <2> QED
    BY <1>5, <1>6, <2>2, <2>3
<1>9. Sums(g, S)[S] = Sums(f, S)[S] + a
  BY <1>7, <1>8, SumsChange
<1> QED
  BY <1>4, <1>5, <1>6, <1>9 DEF WindowSum

\* The sums are integers.
LEMMA SumTypes ==
  ASSUME MeteringAssumption, MeterInv, NEW k \in Kinds
  PROVE  WindowSum(k) \in Int /\ RecordedSum \in Int
<1>1. windows[k] \in [0 .. MaxHour -> Nat] /\ recorded \in [Instances -> Nat]
      /\ IsFiniteSet(Instances) /\ MaxHour \in Nat
  BY DEF MeterInv, MeterShape, MeteringAssumption
<1>2. IsFiniteSet(0 .. MaxHour)
  <2>1. MaxHour \in Int
    BY DEF MeteringAssumption
  <2> QED
    BY <2>1, FS_Interval
<1>3. WindowSum(k) \in Int
  <2>1. PICK f : f = windows[k]
    OBVIOUS
  <2>2. \A n \in 0 .. MaxHour : f[n] \in Int
    BY <1>1, <2>1
  <2>3. \A s \in SUBSET (0 .. MaxHour) : Sums(f, 0 .. MaxHour)[s] \in Int
    BY <1>2, <2>2, SumsInt
  <2> QED
    BY <2>1, <2>3 DEF WindowSum
<1>4. RecordedSum \in Int
  <2>1. \A i \in Instances : recorded[i] \in Int
    BY <1>1
  <2>2. PICK f : f = recorded
    OBVIOUS
  <2>3. \A s \in SUBSET Instances : Sums(f, Instances)[s] \in Int
    BY <1>1, <2>1, <2>2, SumsInt
  <2> QED
    BY <2>2, <2>3 DEF RecordedSum
<1> QED
  BY <1>3, <1>4

\* What is recorded of an instance goes to a window of each kind.
LEMMA PersistBalances ==
  ASSUME MeteringAssumption, BalanceInv, MeterInv', NEW i \in Instances, Persist(i)
  PROVE  Balanced'
<1>1. PICK a : a = Added(i, persisting[i].event)
  OBVIOUS
<1>2. PICK at : at = persisting[i].at
  OBVIOUS
<1>3. /\ persisting[i] # NoEvent /\ calls' = calls
      /\ windows' = Recorded(a, at) /\ recorded' = [recorded EXCEPT ![i] = @ + a]
  <2>1. /\ persisting[i] # NoEvent /\ calls' = calls
        /\ windows' = Recorded(Added(i, persisting[i].event), persisting[i].at)
        /\ recorded' = [recorded EXCEPT ![i] = @ + Added(i, persisting[i].event)]
    BY DEF Persist
  <2>2. windows' = Recorded(a, at)
    BY <1>1, <1>2, <2>1
  <2> QED
    BY <1>1, <2>1, <2>2
<1>4. MeterInv
  BY DEF BalanceInv
<1>5. a \in Nat
  <2>1. Added(i, persisting[i].event) \in Nat
    BY <1>3, <1>4, AddedFacts
  <2> QED
    BY <1>1, <2>1
<1>6. at \in Nat /\ at <= hour
  <2>1. /\ persisting[i] \in PersistRecord \cup {NoEvent}
        /\ PersistFits(persisting[i], pipe[i], spent[i], phase[i], hour)
    BY <1>4, Facts
  <2> QED
    BY <1>2, <1>3, <2>1 DEF PersistFits, PersistRecord
<1>7. RecordedSum' = RecordedSum + a
  <2>1. recorded \in [Instances -> Nat] /\ IsFiniteSet(Instances)
    BY <1>4 DEF MeterInv, MeterShape, MeteringAssumption
  <2>2. PICK f : f = recorded
    OBVIOUS
  <2>3. PICK g : g = recorded'
    OBVIOUS
  <2>4. \A j \in Instances : f[j] \in Int /\ g[j] = IF j = i THEN f[j] + a ELSE f[j]
    BY <1>3, <2>1, <2>2, <2>3
  <2>5. IsFiniteSet(Instances) /\ a \in Int
    BY <1>5, <2>1
  <2>6. Sums(g, Instances)[Instances] = Sums(f, Instances)[Instances] + a
    BY <2>4, <2>5, SumsChange
  <2> QED
    BY <2>2, <2>3, <2>6 DEF RecordedSum
<1>8. ASSUME NEW k \in Kinds PROVE WindowSum(k)' = RecordedSum' + Bill(calls')
  <2>1. WindowSum(k)' = WindowSum(k) + a
    BY <1>3, <1>4, <1>5, <1>6, WindowSumRecorded
  <2>2. WindowSum(k) = RecordedSum + Bill(calls)
    BY DEF BalanceInv, Balanced
  <2>3. RecordedSum \in Int /\ Bill(calls) \in Int
    <3>1. calls \in Nat
      BY <1>4 DEF MeterInv, MeterShape, MeteringAssumption
    <3>2. Bill(calls) \in Nat
      BY <3>1, BillFacts
    <3>3. RecordedSum \in Int
      BY <1>4, SumTypes
    <3> QED
      BY <3>2, <3>3
  <2>4. (RecordedSum + Bill(calls)) + a = (RecordedSum + a) + Bill(calls)
    BY <1>5, <2>3
  <2> QED
    BY <1>3, <1>7, <2>1, <2>2, <2>4
<1> QED
  BY <1>8 DEF Balanced

\* And so does a call of the PM agent.
LEMMA PmCallBalances ==
  ASSUME MeteringAssumption, BalanceInv, MeterInv', PmCall(MaxCost)
  PROVE  Balanced'
<1>1. calls' = calls + 1 /\ windows' = Recorded(MaxCost, hour) /\ recorded' = recorded
  BY DEF PmCall, historyVars
<1>2. MeterInv
  BY DEF BalanceInv
<1>3. MaxCost \in Nat /\ hour \in Nat /\ hour <= hour /\ calls \in Nat
  BY <1>2 DEF MeterInv, MeterShape, MeteringAssumption
<1>4. Bill(calls + 1) = Bill(calls) + MaxCost /\ Bill(calls) \in Nat
  BY <1>3, BillFacts
<1>5. RecordedSum' = RecordedSum
  BY <1>1 DEF RecordedSum
<1>6. ASSUME NEW k \in Kinds PROVE WindowSum(k)' = RecordedSum' + Bill(calls')
  <2>1. WindowSum(k)' = WindowSum(k) + MaxCost
    BY <1>1, <1>2, <1>3, WindowSumRecorded
  <2>2. WindowSum(k) = RecordedSum + Bill(calls)
    BY DEF BalanceInv, Balanced
  <2>3. RecordedSum \in Int
    BY <1>2, SumTypes
  <2>4. (RecordedSum + Bill(calls)) + MaxCost = RecordedSum + Bill(calls + 1)
    BY <1>3, <1>4, <2>3
  <2> QED
    BY <1>1, <1>5, <2>1, <2>2, <2>4
<1> QED
  BY <1>6 DEF Balanced

\* In the first state all is zero.
LEMMA BalanceInit == ASSUME MeteringAssumption, MeteringInit PROVE BalanceInv
<1>1. MeterInv
  BY MeterInvInit
<1>2. /\ windows = [k \in Kinds |-> [n \in 0 .. MaxHour |-> 0]] /\ calls = 0
      /\ recorded = [i \in Instances |-> 0]
  BY DEF MeteringInit
<1>3. MaxHour \in Nat /\ IsFiniteSet(Instances) /\ MaxCost \in Nat
  BY DEF MeteringAssumption
<1>4. IsFiniteSet(0 .. MaxHour)
  BY <1>3, FS_Interval
<1>5. RecordedSum = 0
  <2>1. PICK f : f = recorded
    OBVIOUS
  <2>2. \A i \in Instances : f[i] = 0
    BY <1>2, <2>1
  <2>3. Sums(f, Instances)[Instances] = 0
    BY <1>3, <2>2, SumsZero
  <2> QED
    BY <2>1, <2>3 DEF RecordedSum
<1>6. ASSUME NEW k \in Kinds PROVE WindowSum(k) = 0
  <2>1. PICK f : f = windows[k]
    OBVIOUS
  <2>2. \A n \in 0 .. MaxHour : f[n] = 0
    BY <1>2, <2>1
  <2>3. Sums(f, 0 .. MaxHour)[0 .. MaxHour] = 0
    BY <1>4, <2>2, SumsZero
  <2> QED
    BY <2>1, <2>3 DEF WindowSum
<1>7. Bill(calls) = 0
  BY <1>2, <1>3 DEF Bill
<1> QED
  BY <1>1, <1>5, <1>6, <1>7 DEF BalanceInv, Balanced

\* Every step keeps the balance.
LEMMA BalanceStep ==
  ASSUME MeteringAssumption, BalanceInv, [MeteringNext]_meteringVars
  PROVE  BalanceInv'
<1>1. MeterInv'
  BY MeterInvStep DEF BalanceInv
<1>2. CASE PmCall(MaxCost)
  BY <1>1, <1>2, PmCallBalances DEF BalanceInv
<1>3. ASSUME NEW i \in Instances, Persist(i) PROVE BalanceInv'
  BY <1>1, <1>3, PersistBalances DEF BalanceInv
<1>4. CASE ~PmCall(MaxCost) /\ ~\E i \in Instances : Persist(i)
  <2>1. UNCHANGED <<windows, recorded, calls>>
    BY <1>4 DEF MeteringNext, meteringVars, PassGate, HourPasses, Claim, Finish, Die, Cleanup,
       Turn, Read, ReadError, PersistFails, historyVars
  <2> QED
    BY <1>1, <2>1 DEF BalanceInv, Balanced, WindowSum, RecordedSum
<1> QED
  BY <1>2, <1>3, <1>4

\* It says what Reconciled says.
LEMMA BalanceReconciles == ASSUME MeteringAssumption, BalanceInv PROVE Reconciled
<1>1. ASSUME NEW k \in Kinds
      PROVE  MapThenSumSet(LAMBDA n : windows[k][n], 0 .. MaxHour)
               = MapThenSumSet(LAMBDA i : recorded[i], Instances) + MaxCost * calls
  <2>1. MapThenSumSet(LAMBDA n : windows[k][n], 0 .. MaxHour) = WindowSum(k)
    BY DEF MapThenSumSet, MapThenFoldSet, WindowSum, Sums, FirstOf
  <2>2. MapThenSumSet(LAMBDA i : recorded[i], Instances) = RecordedSum
    BY DEF MapThenSumSet, MapThenFoldSet, RecordedSum, Sums, FirstOf
  <2>3. WindowSum(k) = RecordedSum + MaxCost * calls
    BY DEF BalanceInv, Balanced, Bill
  <2> QED
    BY <2>1, <2>2, <2>3
<1>2. ASSUME NEW i \in Instances
      PROVE  recorded[i] >= cost[i] /\ (settled[i] => cost[i] = spent[i])
  <2>1. CostFits(i) /\ recorded[i] \in Nat /\ cost[i] \in Nat
    BY Facts DEF BalanceInv
  <2> QED
    BY <2>1 DEF CostFits
<1> QED
  BY <1>1, <1>2 DEF Reconciled

\* The windows of each kind add up to what the instances and the PM agent have recorded, and
\* an instance whose result was persisted shows what it really cost (budget.py record_usage,
\* stream_parser.py _persist_event).
THEOREM WindowsReconcile == MeteringSpec => []Reconciled
<1>1. MeteringInit => BalanceInv
  BY MeteringAssumption, BalanceInit
<1>2. BalanceInv /\ [MeteringNext]_meteringVars => BalanceInv'
  BY MeteringAssumption, BalanceStep
<1>3. BalanceInv => Reconciled
  BY MeteringAssumption, BalanceReconciles
<1> QED
  BY <1>1, <1>2, <1>3, PTL DEF MeteringSpec
===============================================================================
