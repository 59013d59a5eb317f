------------------------------- MODULE Wallet -------------------------------
(***************************************************************************)
(* The wallet: the identity that alpha::CryptoEngine holds in memory, the  *)
(* vault it is kept in, its backups, and what AlphaService remembers about *)
(* them in the profile state file.  The service lets an operation make an  *)
(* event only if it takes the identity to be backed up.                    *)
(*                                                                         *)
(* An operation is one step.  The process may stop inside one of its       *)
(* writes, a file may refuse to be opened, and a write may be cut short    *)
(* unseen (the stream is checked before its buffer is flushed).            *)
(*                                                                         *)
(* Identities are numbered in the order they are generated.  A file whose  *)
(* text was cut inside its last field, the cid, reads as the same key with *)
(* a wrong cid: identity -i.  0 stands for an identity without a key, and  *)
(* for what a file holds that cannot be read as an identity.               *)
(***************************************************************************)
EXTENDS Integers, FiniteSets

CONSTANTS
  Paths,             \* where backups are written
  NoPath,
  Passphrases,
  ConfigPassphrase,  \* the one the shells start the service with
  Environments,      \* the builds and the kinds of fault to look at
  MaxIdentity,       \* bounds on the generated identities, the clock
  MaxTime,           \* and the number of faults
  MaxFaults

ASSUME WalletConstants ==
  /\ NoPath \notin Paths /\ ConfigPassphrase \in Passphrases
  /\ Environments \subseteq [sealed : BOOLEAN, kind : {"crash", "refused", "short"}]
  /\ MaxIdentity \in Nat /\ MaxTime \in Nat \ {0} /\ MaxFaults \in Nat

VARIABLES
  now,       \* util::unix_timestamp_now()
  sealed,    \* the build: libsodium's authenticated vault, or the xor stream
  phase,     \* "down", "up", or "failed": init failed and the shell goes on
  wallet,    \* CryptoEngine: identity_ and ready_
  service,   \* AlphaService: config_.passphrase and its backup state
  files,     \* the vault, the backups, the profile state file
  made,      \* the number of identities generated
  kind,      \* the kind of fault that this behaviour meets
  left,      \* how many of them are still to come
  history    \* what the properties need of the past; see Past

vars == <<now, sealed, phase, wallet, service, files, made, kind, left, history>>

Identity == -MaxIdentity..MaxIdentity
Key(id) == IF id < 0 THEN -id ELSE id

\* profile-state.dat, the fields that decide on the backup.
Saved(s) == [path |-> s.path, verified |-> s.verified,
             backupAt |-> s.backupAt, changedAt |-> s.changedAt]

NoService == [passphrase |-> ConfigPassphrase, path |-> NoPath, verified |-> FALSE,
              complete |-> FALSE, backupAt |-> 0, changedAt |-> 0]
NoWallet == [identity |-> 0, ready |-> FALSE]

Past == [author     : 0..MaxIdentity,         \* the key that last made an event, until replaced on purpose
         exportedTo : Paths \cup {NoPath},    \* the backup last written or imported
         unproven   : BOOLEAN]                \* the backup state may be of another key: see OpenIsBackedUp

-----------------------------------------------------------------------------
(* Files and faults.                                                       *)

Fault == [kind : {"crash", "refused", "short"}, at : {"vault", "backup", "profile"}]
NoFault == [kind |-> "none", at |-> "none"]

Meets(f) ==
  /\ f # NoFault => f.kind = kind /\ left > 0
  /\ left' = IF f = NoFault THEN left ELSE left - 1

\* Those that Meets lets through.
FaultsToCome == {f \in Fault : f.kind = kind /\ left > 0} \cup {NoFault}

\* The operation does not come to the end of this write.
Fails(f, at) == f.at = at /\ f.kind \in {"crash", "refused"}

\* write_file: what the file may hold afterwards.
Written(f, at, old, new, cuts) ==
  IF f.at # at THEN {new}
  ELSE CASE f.kind = "refused" -> {old}
         [] f.kind = "short"   -> cuts
         [] f.kind = "crash"   -> {old, new} \cup cuts

\* A stop leaves nothing of a text that is written in one piece.
Cut(id, f) == IF f.kind = "crash" THEN {0} ELSE {0, -id}

\* Mutant: the text is made before the new identity is in place.
OldIdentityPersisted(f, id, pass) ==
  {[exists |-> TRUE, holds |-> IF wallet.identity = 0 THEN id ELSE wallet.identity, pass |-> pass]}

\* persist_identity_vault
VaultPersisted(f, id, pass) ==
  Written(f, "vault", files.vault, [exists |-> TRUE, holds |-> id, pass |-> pass],
          [exists : {TRUE}, holds : IF sealed THEN {0} ELSE Cut(id, f), pass : {pass}])

\* save_profile_state: nothing is written before init has set the path.
ProfileSaved(f, s) ==
  IF phase # "up" THEN {files.profile}
  ELSE Written(f, "profile", files.profile, {Saved(s)}, {{}})

\* refresh_backup_state.  (wallet_backup_required_ is the opposite of
\* onboarding_complete_ once wallet_backup_verified_ implies that the file exists.)
Refreshed(s, backups) ==
  LET verified == s.verified /\ s.path # NoPath /\ backups[s.path].exists
  IN  [s EXCEPT !.verified = verified,
                !.complete = verified /\ s.backupAt > 0 /\ s.backupAt >= s.changedAt]

Stopped == phase' = "down" /\ wallet' = NoWallet /\ service' = NoService

\* The operation goes on to leave w and s in memory, unless the process stopped.
Leaves(f, w, s) ==
  IF f.kind = "crash" THEN Stopped
  ELSE wallet' = w /\ service' = s /\ UNCHANGED phase

-----------------------------------------------------------------------------
(* Start and stop.                                                         *)

Init ==
  /\ now = 1
  /\ \E e \in Environments : sealed = e.sealed /\ kind = e.kind
  /\ phase = "down" /\ wallet = NoWallet /\ service = NoService
  /\ files = [vault |-> [exists |-> FALSE, holds |-> 0, pass |-> ConfigPassphrase],
              backup |-> [p \in Paths |-> [exists |-> FALSE, holds |-> 0]],
              profile |-> {}]
  /\ made = 0
  /\ left = MaxFaults
  /\ history = [author |-> 0, exportedTo |-> NoPath, unproven |-> FALSE]

Tick ==
  /\ now < MaxTime /\ now' = now + 1
  /\ UNCHANGED <<sealed, phase, wallet, service, files, made, kind, left, history>>

Stop ==
  /\ phase # "down" /\ Stopped
  /\ UNCHANGED <<now, sealed, files, made, kind, left, history>>

\* load_profile_state, and what init makes of it: every start counts as a change
\* of the identity.
LoadedService ==
  LET saved == IF files.profile = {} THEN {Saved([NoService EXCEPT !.changedAt = now])}
               ELSE files.profile
      loaded(q) == [NoService EXCEPT !.path = q.path, !.verified = q.verified, !.backupAt = q.backupAt,
                                     !.changedAt = IF q.changedAt > now THEN q.changedAt ELSE now]
  IN  Refreshed(loaded(CHOOSE q \in saved : TRUE), files.backup)

\* Mutant: the sealed vault, too, replaces identity_ before it was opened.
MisreadAlways == {[wallet EXCEPT !.identity = id] : id \in {wallet.identity, 0}}

\* unlock_from_vault: the xor vault's text replaces identity_ before it is known
\* to be one, and ready_ is left as it was.
Opens(pass) == files.vault.holds # 0 /\ files.vault.pass = pass

Misread ==
  {[wallet EXCEPT !.identity = id] :
     id \in (IF sealed \/ files.vault.holds = 0 THEN {wallet.identity} ELSE {})
            \cup (IF sealed THEN {} ELSE {0})}

\* generate_identity
Generated == made < MaxIdentity /\ made' = made + 1

\* Mutant: a vault that does not open is replaced by a new one.
StartFromVaultOrAnew ==
  /\ phase = "down" /\ files.vault.exists
  /\ phase' = "up" /\ service' = LoadedService
  /\ IF Opens(ConfigPassphrase)
     THEN wallet' = [identity |-> files.vault.holds, ready |-> TRUE] /\ UNCHANGED <<files, made>>
     ELSE /\ Generated /\ wallet' = [identity |-> made', ready |-> TRUE]
          /\ files' = [files EXCEPT !.vault.holds = made', !.vault.pass = ConfigPassphrase]
  /\ history' = [history EXCEPT !.unproven = \E q \in files.profile : q.backupAt = now]
  /\ UNCHANGED <<now, sealed, kind, left>>

\* initialize, with a vault
StartFromVault ==
  /\ phase = "down" /\ files.vault.exists
  /\ IF Opens(ConfigPassphrase)
     THEN /\ phase' = "up" /\ service' = LoadedService
          /\ wallet' = [identity |-> files.vault.holds, ready |-> TRUE]
     ELSE phase' = "failed" /\ wallet' \in Misread /\ UNCHANGED service
  /\ history' = [history EXCEPT !.unproven = \E q \in files.profile : q.backupAt = now]
  /\ UNCHANGED <<now, sealed, files, made, kind, left>>

\* initialize, without one
StartWithNewVault(f) ==
  /\ phase = "down" /\ ~files.vault.exists
  /\ f.at \in {"none", "vault"} /\ Meets(f) /\ Generated
  /\ \E v \in VaultPersisted(f, made', ConfigPassphrase) : files' = [files EXCEPT !.vault = v]
  /\ IF f.kind = "crash" THEN Stopped
     ELSE /\ wallet' = [identity |-> made', ready |-> ~Fails(f, "vault")]
          /\ phase' = IF Fails(f, "vault") THEN "failed" ELSE "up"
          /\ service' = IF Fails(f, "vault") THEN service ELSE LoadedService
  /\ UNCHANGED <<now, sealed, kind, history>>

-----------------------------------------------------------------------------
(* Lock and unlock.                                                        *)

\* lock_wallet
Lock(f) ==
  LET s == Refreshed(service, files.backup)
  IN  /\ phase # "down" /\ f.at \in {"none", "profile"} /\ Meets(f)
      /\ \E q \in ProfileSaved(f, s) : files' = [files EXCEPT !.profile = q]
      /\ Leaves(f, [wallet EXCEPT !.ready = FALSE], s)
      /\ UNCHANGED <<now, sealed, made, kind, history>>

\* unlock_wallet
Unlock(pass, f) ==
  LET s == Refreshed(service, files.backup)
  IN  /\ phase # "down" /\ Opens(pass)
      /\ f.at \in {"none", "profile"} /\ Meets(f)
      /\ \E q \in ProfileSaved(f, s) : files' = [files EXCEPT !.profile = q]
      /\ Leaves(f, [identity |-> files.vault.holds, ready |-> TRUE], s)
      /\ UNCHANGED <<now, sealed, made, kind, history>>

UnlockFails(pass) ==
  /\ phase # "down" /\ files.vault.exists /\ ~Opens(pass)
  /\ wallet' \in Misread
  /\ UNCHANGED <<now, sealed, phase, service, files, made, kind, left, history>>

-----------------------------------------------------------------------------
(* Backups.                                                                *)

\* export_key_backup
Export(p, f) ==
  LET id == wallet.identity
      content == Written(f, "backup", files.backup[p], [exists |-> TRUE, holds |-> id],
                         [exists : {TRUE}, holds : Cut(id, f)])
      exported(b) == Refreshed([service EXCEPT !.path = p, !.backupAt = now, !.verified = FALSE], b)
  IN  /\ phase # "down" /\ wallet.ready
      /\ f.at \in {"none", "backup", "profile"} /\ Meets(f)
      /\ \E c \in content :
           LET b == [files.backup EXCEPT ![p] = c]
           IN  IF Fails(f, "backup")
               THEN files' = [files EXCEPT !.backup = b] /\ Leaves(f, wallet, service)
               ELSE /\ \E q \in ProfileSaved(f, exported(b)) :
                         files' = [files EXCEPT !.backup = b, !.profile = q]
                    /\ Leaves(f, wallet, exported(b))
      /\ history' = IF f = [kind |-> "refused", at |-> "backup"] THEN history
                    ELSE [history EXCEPT !.exportedTo = p, !.unproven = FALSE]
      /\ UNCHANGED <<now, sealed, made, kind>>

Readable(p) == files.backup[p].holds # 0

\* verify_key_backup: any readable backup will do, whoever's key it holds.
Verify(p, f) ==
  LET s == Refreshed([service EXCEPT !.path = p, !.verified = TRUE,
                                     !.backupAt = IF @ <= 0 THEN now ELSE @], files.backup)
  IN  /\ phase # "down" /\ Readable(p)
      /\ f.at \in {"none", "profile"} /\ Meets(f)
      /\ \E q \in ProfileSaved(f, s) : files' = [files EXCEPT !.profile = q]
      /\ Leaves(f, wallet, s)
      /\ history' = [history EXCEPT
                       !.unproven = @ \/ p # history.exportedTo \/ service.backupAt <= 0]
      /\ UNCHANGED <<now, sealed, made, kind>>

\* Mutant: nuking keeps the mark of the verified backup and the old time.
KeepsBackupState(s) == s

\* What nuke_key makes of the backup state.
AfterNuke(s) == [s EXCEPT !.changedAt = now, !.verified = FALSE]

\* import_identity_backup, nuke_identity: identity_ is replaced before it is written
\* to the vault, under config_.passphrase; a refused write leaves the two apart.
\* Then the service's state is saved.  (The KeyRotated event that import_key_backup and
\* nuke_key append at the end is left to the modules of the publish path.)
ReplaceIdentity(f, id, before, after) ==
  LET s == Refreshed(after, files.backup)
  IN  /\ f.at \in {"none", "vault", "profile"} /\ Meets(f)
      /\ \E v \in VaultPersisted(f, id, before.passphrase) :
           IF Fails(f, "vault")
           THEN /\ files' = [files EXCEPT !.vault = v]
                /\ Leaves(f, [wallet EXCEPT !.identity = id], before)
           ELSE /\ \E q \in ProfileSaved(f, s) : files' = [files EXCEPT !.vault = v, !.profile = q]
                /\ Leaves(f, [identity |-> id, ready |-> TRUE], s)
      /\ history' = [history EXCEPT
                       !.exportedTo = IF after.verified THEN after.path ELSE @,
                       !.unproven = ~after.verified /\ after.backupAt = now,
                       !.author = IF @ = Key(id) THEN @ ELSE 0]

\* What import_key_backup and recover_wallet make of the backup state.
AfterImport(s, p) ==
  [s EXCEPT !.path = p, !.verified = TRUE, !.backupAt = now, !.changedAt = now]

Imports(p, before, f) ==
  /\ phase # "down" /\ Readable(p)
  /\ ReplaceIdentity(f, files.backup[p].holds, before, AfterImport(before, p))
  /\ UNCHANGED <<now, sealed, made, kind>>

\* import_key_backup
Import(p, f) == Imports(p, service, f)

\* recover_wallet: the new passphrase is taken over first.
Recover(p, pass, f) == Imports(p, [service EXCEPT !.passphrase = pass], f)

\* recover_wallet with a backup that cannot be read or a wrong password.
RecoverFails(pass) ==
  /\ phase # "down" /\ service' = [service EXCEPT !.passphrase = pass]
  /\ UNCHANGED <<now, sealed, phase, wallet, files, made, kind, left, history>>

\* nuke_key
Nuke(f) ==
  /\ phase # "down" /\ Generated
  /\ ReplaceIdentity(f, made', service, AfterNuke(service))
  /\ UNCHANGED <<now, sealed, kind>>

\* An operation behind ensure_wallet_ready_for_mutation makes and signs an event.
Mutate ==
  /\ phase = "up" /\ wallet.ready /\ service.complete
  /\ history' = [history EXCEPT !.author = Key(wallet.identity)]
  /\ UNCHANGED <<now, sealed, phase, wallet, service, files, made, kind, left>>

Next ==
  \/ Tick \/ Stop \/ StartFromVault \/ Mutate
  \/ \E pass \in Passphrases : UnlockFails(pass) \/ RecoverFails(pass)
  \/ \E f \in FaultsToCome :
       \/ StartWithNewVault(f) \/ Lock(f) \/ Nuke(f)
       \/ \E pass \in Passphrases : Unlock(pass, f)
       \/ \E p \in Paths :
            \/ Export(p, f) \/ Verify(p, f) \/ Import(p, f)
            \/ \E pass \in Passphrases : Recover(p, pass, f)

Spec == Init /\ [][Next]_vars

-----------------------------------------------------------------------------
(* Properties.                                                             *)

\* The variables hold values of their types; a profile that counts as backed up
\* names a backup.
TypeOK ==
  /\ now \in 1..MaxTime /\ [sealed |-> sealed, kind |-> kind] \in Environments
  /\ phase \in {"down", "up", "failed"}
  /\ wallet \in [identity : Identity, ready : BOOLEAN]
  /\ service \in [passphrase : Passphrases, path : Paths \cup {NoPath}, verified : BOOLEAN,
                  complete : BOOLEAN, backupAt : 0..MaxTime, changedAt : 0..MaxTime]
  /\ files.vault \in [exists : BOOLEAN, holds : Identity, pass : Passphrases]
  /\ files.backup \in [Paths -> [exists : BOOLEAN, holds : Identity]]
  /\ Cardinality(files.profile) <= 1
  /\ service.complete => service.path # NoPath
  /\ made \in 0..MaxIdentity /\ left \in 0..MaxFaults /\ history \in Past

\* A wallet that is open for operations that make events has a backup of its key
\* (ensure_wallet_ready_for_mutation) -- except that another key's backup passes for
\* it if the file verified was not the last one written, if no export was on record,
\* or if the key was generated or loaded within the second of the last export.
OpenIsBackedUp ==
  phase = "up" /\ wallet.ready /\ service.complete /\ wallet.identity # 0 /\ kind # "refused" =>
    Key(files.backup[service.path].holds) = Key(wallet.identity) \/ history.unproven

\* While nothing worse than a stop happens, an unlocked wallet signs with the
\* identity that the next start will find in the vault.
SignerIsInVault ==
  phase # "down" /\ wallet.ready /\ wallet.identity # 0 /\ kind = "crash" =>
    wallet.identity = files.vault.holds

\* Whatever write a stop interrupts, the key of the author who made the last event
\* can be recovered from the vault or from a backup, until it is replaced on purpose.
AuthorRecoverable ==
  kind = "crash" /\ history.author # 0 =>
    history.author \in {Key(files.vault.holds)} \cup {Key(files.backup[p].holds) : p \in Paths}

\* With the sealed vault an unlocked wallet never holds an identity without a key, so
\* that nothing is made in no one's name.
SignersHaveKeys == sealed /\ wallet.ready => wallet.identity # 0
=============================================================================
