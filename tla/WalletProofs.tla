---------------------------- MODULE WalletProofs ----------------------------
(***************************************************************************)
(* Proofs about the wallet, for any number of identities, backups,         *)
(* passphrases and faults.                                                 *)
(***************************************************************************)
EXTENDS Wallet, FiniteSetTheorems, TLAPS

-----------------------------------------------------------------------------
(* The inductive invariant.                                                *)

\* The identities that n generated keys can be read as.
Known(n) == (-n)..n

Vaults(n) == [exists : BOOLEAN, holds : Known(n), pass : Passphrases]
Backups(n) == [Paths -> [exists : BOOLEAN, holds : Known(n)]]
Wallets(n) == [identity : Known(n), ready : BOOLEAN]
Services == [passphrase : Passphrases, path : Paths \cup {NoPath}, verified : BOOLEAN,
             complete : BOOLEAN, backupAt : 0..MaxTime, changedAt : 0..MaxTime]
SavedStates == [path : Paths \cup {NoPath}, verified : BOOLEAN,
                backupAt : 0..MaxTime, changedAt : 0..MaxTime]
Profiles == {{}} \cup {{q} : q \in SavedStates}

Faults == Fault \cup {NoFault}

NamesBackup(s) == s.complete => s.path # NoPath

\* The types, with every identity among those generated so far.
Typed ==
  /\ now \in 1..MaxTime /\ [sealed |-> sealed, kind |-> kind] \in Environments
  /\ phase \in {"down", "up", "failed"}
  /\ made \in 0..MaxIdentity /\ left \in 0..MaxFaults
  /\ wallet \in Wallets(made)
  /\ service \in Services /\ NamesBackup(service)
  /\ files \in [vault : Vaults(made), backup : Backups(made), profile : Profiles]
  /\ history \in [author : 0..made, exportedTo : Paths \cup {NoPath}, unproven : BOOLEAN]

\* A process that does not run holds no identity, and a vault that does not exist
\* holds none.
Idle ==
  /\ phase = "down" => wallet = NoWallet
  /\ ~files.vault.exists => files.vault.holds = 0

\* Where the last author's key is: in the vault, or in a backup while the vault
\* cannot be read and nobody can sign.
AuthorHeld ==
  kind = "crash" /\ history.author # 0 =>
    /\ files.vault.exists
    /\ \/ Key(files.vault.holds) = history.author
       \/ /\ files.vault.holds = 0 /\ ~wallet.ready
          /\ \E p \in Paths : Key(files.backup[p].holds) = history.author

WalletInv == Typed /\ Idle /\ SignerIsInVault /\ SignersHaveKeys /\ AuthorHeld

-----------------------------------------------------------------------------
(* Files and memory.                                                       *)

LEMMA MeetsFacts ==
  ASSUME NEW f \in Faults, Meets(f), left \in 0..MaxFaults
  PROVE  /\ left' \in 0..MaxFaults
         /\ (f = NoFault \/ (f \in Fault /\ f.kind = kind))
  BY WalletConstants DEF Meets, Faults

\* What the vault may hold after a write: nothing else if the fault is elsewhere,
\* after a stop the old identity, the new one, or none.
LEMMA VaultFacts ==
  ASSUME NEW f \in Faults, NEW n \in Nat, NEW id \in Known(n), NEW pass \in Passphrases,
         files.vault \in Vaults(n), NEW v \in VaultPersisted(f, id, pass)
  PROVE  /\ v \in Vaults(n)
         /\ v = files.vault \/ v.exists
         /\ f.at # "vault" => v = [exists |-> TRUE, holds |-> id, pass |-> pass]
         /\ f.kind = "crash" => v = files.vault \/ v.holds \in {id, 0}
<1> DEFINE new == [exists |-> TRUE, holds |-> id, pass |-> pass]
           cuts == [exists : {TRUE}, holds : IF sealed THEN {0} ELSE Cut(id, f), pass : {pass}]
<1>1. new \in Vaults(n)
  BY DEF Vaults
<1>2. 0 \in Known(n) /\ -id \in Known(n)
  BY DEF Known
<1>3. \A c \in cuts : c \in Vaults(n) /\ c.exists /\ (f.kind = "crash" => c.holds = 0)
  BY <1>2 DEF Vaults, Cut
<1>4. v \in Written(f, "vault", files.vault, new, cuts)
  BY DEF VaultPersisted
<1>5. CASE f.at # "vault"
  <2>1. v = new
    BY <1>4, <1>5 DEF Written
  <2> QED
    BY <1>1, <2>1
<1>6. CASE f.at = "vault"
  <2>1. f.kind \in {"crash", "refused", "short"}
    BY <1>6 DEF Faults, Fault, NoFault
  <2>2. v \in {files.vault, new} \cup cuts
    BY <1>4, <1>6, <2>1 DEF Written
  <2>2a. files.vault \in Vaults(n) /\ new.exists /\ new.holds = id
    OBVIOUS
  <2> HIDE DEF new, cuts
  <2>3. CASE v = files.vault
    BY <1>6, <2>2a, <2>3
  <2>4. CASE v = new
    BY <1>1, <1>6, <2>2a, <2>4
  <2>5. CASE v \in cuts
    BY <1>3, <1>6, <2>5
  <2> QED
    BY <2>2, <2>3, <2>4, <2>5
<1> QED
  BY <1>5, <1>6

LEMMA SavedType ==
  ASSUME NEW s \in Services
  PROVE  Saved(s) \in SavedStates
  BY DEF Saved, Services, SavedStates

LEMMA ProfileFacts ==
  ASSUME NEW f \in Faults, NEW s \in Services, files.profile \in Profiles,
         NEW q \in ProfileSaved(f, s)
  PROVE  q \in Profiles
<1>1. {Saved(s)} \in Profiles /\ {} \in Profiles
  BY SavedType DEF Profiles
<1>2. CASE phase # "up"
  BY <1>2 DEF ProfileSaved
<1>3. CASE phase = "up" /\ f.at # "profile"
  BY <1>1, <1>3 DEF ProfileSaved, Written
<1>4. CASE phase = "up" /\ f.at = "profile"
  <2>1. f.kind \in {"crash", "refused", "short"}
    BY <1>4 DEF Faults, Fault, NoFault
  <2> QED
    BY <1>1, <1>4, <2>1 DEF ProfileSaved, Written
<1> QED
  BY <1>2, <1>3, <1>4

LEMMA RefreshedFacts ==
  ASSUME NEW s \in Services, NEW n, NEW b \in Backups(n)
  PROVE  Refreshed(s, b) \in Services /\ NamesBackup(Refreshed(s, b))
<1> DEFINE verified == s.verified /\ s.path # NoPath /\ b[s.path].exists
           complete == verified /\ s.backupAt > 0 /\ s.backupAt >= s.changedAt
<1>1. verified \in BOOLEAN
  BY DEF Services, Backups
<1>2. complete \in BOOLEAN
  BY <1>1
<1>3. Refreshed(s, b) = [s EXCEPT !.verified = verified, !.complete = complete]
  BY DEF Refreshed
<1>4. complete => s.path # NoPath
  OBVIOUS
<1> HIDE DEF verified, complete
<1> QED
  BY <1>1, <1>2, <1>3, <1>4 DEF Services, NamesBackup

LEMMA NoServiceFacts == NoService \in Services /\ NamesBackup(NoService)
  BY WalletConstants DEF NoService, Services, NamesBackup

LEMMA NoWalletType == ASSUME NEW n \in Nat PROVE NoWallet \in Wallets(n)
  BY DEF NoWallet, Wallets, Known

\* Identities stay known when more keys are generated.
LEMMA KnownGrow ==
  ASSUME NEW n \in Nat, NEW k \in Nat, n <= k
  PROVE  /\ Known(n) \subseteq Known(k) /\ Wallets(n) \subseteq Wallets(k)
         /\ Vaults(n) \subseteq Vaults(k) /\ Backups(n) \subseteq Backups(k)
<1>1. Known(n) \subseteq Known(k)
  BY DEF Known
<1> QED
  BY <1>1 DEF Wallets, Vaults, Backups

LEMMA LoadedFacts ==
  ASSUME Typed
  PROVE  LoadedService \in Services /\ NamesBackup(LoadedService)
<1> DEFINE saved == IF files.profile = {} THEN {Saved([NoService EXCEPT !.changedAt = now])}
                    ELSE files.profile
           q == CHOOSE r \in saved : TRUE
           loaded == [NoService EXCEPT !.path = q.path, !.verified = q.verified,
                                       !.backupAt = q.backupAt,
                                       !.changedAt = IF q.changedAt > now THEN q.changedAt ELSE now]
<1>1. now \in 0..MaxTime /\ files.profile \in Profiles /\ files.backup \in Backups(made)
  BY WalletConstants DEF Typed
<1>2. [NoService EXCEPT !.changedAt = now] \in Services
  BY <1>1, NoServiceFacts DEF Services
<1>3. saved \subseteq SavedStates /\ saved # {}
  BY <1>1, <1>2, SavedType DEF Profiles
<1>4. q \in SavedStates
  BY <1>3
<1> HIDE DEF q
<1>5. loaded \in Services
  BY <1>1, <1>4, NoServiceFacts DEF Services, SavedStates
<1>6. LoadedService = Refreshed(loaded, files.backup)
  BY DEF LoadedService, q
<1> QED
  BY <1>1, <1>5, <1>6, RefreshedFacts

\* The next operation of a running wallet that ends with a stop, or with the
\* identity it had, keeps what concerns the vault.
LEMMA LeavesType ==
  ASSUME NEW f, NEW w \in Wallets(made), NEW s \in Services, NamesBackup(s),
         made \in Nat, phase \in {"down", "up", "failed"}, Leaves(f, w, s)
  PROVE  /\ wallet' \in Wallets(made) /\ service' \in Services /\ NamesBackup(service')
         /\ phase' \in {"down", "up", "failed"}
         /\ f.kind = "crash" => phase' = "down" /\ wallet' = NoWallet
         /\ f.kind # "crash" => phase' = phase /\ wallet' = w
<1>1. NoWallet \in Wallets(made) /\ NoService \in Services /\ NamesBackup(NoService)
  BY NoWalletType, NoServiceFacts
<1> QED
  BY <1>1 DEF Leaves, Stopped

\* While nothing worse than a stop happens, a fault is a stop.
LEMMA FaultIsStop ==
  ASSUME NEW f \in Faults, Meets(f), kind = "crash"
  PROVE  f.kind = "crash" \/ f = NoFault
  BY DEF Meets

-----------------------------------------------------------------------------
(* Each step preserves the invariant.                                      *)

LEMMA InitInv == Init => WalletInv
<1> SUFFICES ASSUME Init PROVE WalletInv
  OBVIOUS
<1> USE WalletConstants
<1>1. [sealed |-> sealed, kind |-> kind] \in Environments
  <2>1. PICK e \in Environments : sealed = e.sealed /\ kind = e.kind
    BY DEF Init
  <2>2. e = [sealed |-> e.sealed, kind |-> e.kind]
    OBVIOUS
  <2> QED
    BY <2>1, <2>2
<1>2. NoWallet \in Wallets(0) /\ NoService \in Services /\ NamesBackup(NoService)
  BY NoWalletType, NoServiceFacts
<1>3. files.vault \in Vaults(0) /\ files.backup \in Backups(0) /\ files.profile \in Profiles
  BY DEF Init, Vaults, Backups, Profiles, Known
<1>4. files \in [vault : Vaults(0), backup : Backups(0), profile : Profiles]
  BY <1>3 DEF Init
<1>5. Typed
  BY <1>1, <1>2, <1>4 DEF Typed, Init
<1>6. Idle /\ SignerIsInVault /\ SignersHaveKeys /\ AuthorHeld
  BY DEF Init, Idle, SignerIsInVault, SignersHaveKeys, AuthorHeld, NoWallet
<1> QED
  BY <1>5, <1>6 DEF WalletInv

LEMMA TickStep == ASSUME WalletInv, Tick PROVE WalletInv'
<1>1. Typed'
  BY WalletConstants DEF WalletInv, Typed, Tick
<1>2. (Idle /\ SignerIsInVault /\ SignersHaveKeys /\ AuthorHeld)'
  BY DEF WalletInv, Tick, Idle, SignerIsInVault, SignersHaveKeys, AuthorHeld
<1> QED
  BY <1>1, <1>2 DEF WalletInv

LEMMA StopStep == ASSUME WalletInv, Stop PROVE WalletInv'
<1>1. made \in Nat
  BY WalletConstants DEF WalletInv, Typed
<1>2. NoWallet \in Wallets(made) /\ NoService \in Services /\ NamesBackup(NoService)
  BY <1>1, NoWalletType, NoServiceFacts
<1>3. Typed'
  BY <1>2 DEF WalletInv, Typed, Stop, Stopped
<1>4. (Idle /\ SignerIsInVault /\ SignersHaveKeys /\ AuthorHeld)'
  BY DEF WalletInv, Stop, Stopped, NoWallet, Idle, SignerIsInVault, SignersHaveKeys, AuthorHeld
<1> QED
  BY <1>3, <1>4 DEF WalletInv

\* A failed unlock changes at most the identity, and with the sealed vault not that.
LEMMA MisreadFacts ==
  ASSUME Typed, NEW w \in Misread
  PROVE  /\ w \in Wallets(made) /\ w.ready = wallet.ready
         /\ w.identity \in {wallet.identity, 0}
         /\ sealed => w.identity = wallet.identity
<1>1. made \in Nat /\ wallet \in Wallets(made)
  BY WalletConstants DEF Typed
<1>2. PICK id \in {wallet.identity, 0} : /\ w = [wallet EXCEPT !.identity = id]
                                         /\ sealed => id = wallet.identity
  BY DEF Misread
<1>3. id \in Known(made)
  BY <1>1, <1>2 DEF Wallets, Known
<1> QED
  BY <1>1, <1>2, <1>3 DEF Wallets

LEMMA UnlockFailsStep ==
  ASSUME WalletInv, NEW pass \in Passphrases, UnlockFails(pass) PROVE WalletInv'
<1>1. Typed /\ wallet' \in Misread
  BY DEF WalletInv, UnlockFails
<1>2. /\ wallet' \in Wallets(made) /\ wallet'.ready = wallet.ready
      /\ wallet'.identity \in {wallet.identity, 0}
      /\ sealed => wallet'.identity = wallet.identity
  BY <1>1, MisreadFacts
<1>3. Typed'
  BY <1>1, <1>2 DEF Typed, UnlockFails
<1>4. (Idle /\ SignerIsInVault /\ SignersHaveKeys /\ AuthorHeld)'
  BY <1>2 DEF WalletInv, UnlockFails, Idle, SignerIsInVault, SignersHaveKeys, AuthorHeld
<1> QED
  BY <1>3, <1>4 DEF WalletInv

LEMMA RecoverFailsStep ==
  ASSUME WalletInv, NEW pass \in Passphrases, RecoverFails(pass) PROVE WalletInv'
<1>1. service' \in Services /\ NamesBackup(service')
  BY DEF WalletInv, Typed, RecoverFails, Services, NamesBackup
<1>2. Typed'
  BY <1>1 DEF WalletInv, Typed, RecoverFails
<1>3. (Idle /\ SignerIsInVault /\ SignersHaveKeys /\ AuthorHeld)'
  BY DEF WalletInv, RecoverFails, Idle, SignerIsInVault, SignersHaveKeys, AuthorHeld
<1> QED
  BY <1>2, <1>3 DEF WalletInv

\* An author's key is in the vault: nothing else could have signed.
LEMMA MutateStep == ASSUME WalletInv, Mutate PROVE WalletInv'
<1>1. made \in Nat /\ wallet.identity \in Known(made)
  BY WalletConstants DEF WalletInv, Typed, Wallets
<1>2. Key(wallet.identity) \in 0..made
  BY <1>1 DEF Known, Key
<1>3. Typed'
  BY <1>2 DEF WalletInv, Typed, Mutate
<1>4. AuthorHeld'
  <2> SUFFICES ASSUME kind = "crash", Key(wallet.identity) # 0
               PROVE  files.vault.exists /\ Key(files.vault.holds) = Key(wallet.identity)
    BY DEF Mutate, AuthorHeld, WalletInv, Typed
  <2>1. wallet.identity # 0
    BY DEF Key
  <2>2. wallet.identity = files.vault.holds
    BY <2>1 DEF WalletInv, SignerIsInVault, Mutate
  <2> QED
    BY <2>1, <2>2 DEF WalletInv, Idle
<1>5. (Idle /\ SignerIsInVault /\ SignersHaveKeys)'
  BY DEF WalletInv, Mutate, Idle, SignerIsInVault, SignersHaveKeys
<1> QED
  BY <1>3, <1>4, <1>5 DEF WalletInv

LEMMA StartFromVaultStep == ASSUME WalletInv, StartFromVault PROVE WalletInv'
<1>1. /\ Typed /\ Idle /\ made \in Nat /\ phase = "down" /\ files.vault \in Vaults(made)
      /\ wallet = NoWallet
  BY WalletConstants DEF WalletInv, Typed, Idle, StartFromVault
<1>2. history' \in [author : 0..made, exportedTo : Paths \cup {NoPath}, unproven : BOOLEAN]
      /\ history'.author = history.author
  BY DEF WalletInv, Typed, StartFromVault
<1>3. CASE Opens(ConfigPassphrase)
  <2>1. /\ phase' = "up" /\ service' = LoadedService
        /\ wallet' = [identity |-> files.vault.holds, ready |-> TRUE] /\ files.vault.holds # 0
    BY <1>3 DEF StartFromVault, Opens
  <2>2. wallet' \in Wallets(made) /\ service' \in Services /\ NamesBackup(service')
    BY <1>1, <2>1, LoadedFacts DEF Wallets, Vaults
  <2>3. Typed'
    BY <1>2, <2>1, <2>2 DEF WalletInv, Typed, StartFromVault
  <2>4. AuthorHeld'
    BY <1>1, <1>2, <2>1 DEF WalletInv, AuthorHeld, StartFromVault
  <2>5. (Idle /\ SignerIsInVault /\ SignersHaveKeys)'
    BY <1>1, <2>1 DEF Idle, SignerIsInVault, SignersHaveKeys, StartFromVault
  <2> QED
    BY <2>3, <2>4, <2>5 DEF WalletInv
<1>4. CASE ~Opens(ConfigPassphrase)
  <2>1. phase' = "failed" /\ wallet' \in Misread /\ service' = service
    BY <1>4 DEF StartFromVault
  <2>2. /\ wallet' \in Wallets(made) /\ ~wallet'.ready
        /\ wallet'.identity \in {wallet.identity, 0}
    BY <1>1, <2>1, MisreadFacts DEF NoWallet
  <2>3. Typed'
    BY <1>2, <2>1, <2>2 DEF WalletInv, Typed, StartFromVault
  <2>4. AuthorHeld'
    BY <1>1, <1>2, <2>2 DEF WalletInv, AuthorHeld, StartFromVault
  <2>5. (Idle /\ SignerIsInVault /\ SignersHaveKeys)'
    BY <1>1, <2>1, <2>2 DEF Idle, SignerIsInVault, SignersHaveKeys, StartFromVault
  <2> QED
    BY <2>3, <2>4, <2>5 DEF WalletInv
<1> QED
  BY <1>3, <1>4

LEMMA StartWithNewVaultStep ==
  ASSUME WalletInv, NEW f \in Faults, StartWithNewVault(f) PROVE WalletInv'
<1>1. /\ Typed /\ Idle /\ AuthorHeld /\ made \in Nat /\ Meets(f) /\ made' = made + 1
      /\ made' \in 0..MaxIdentity /\ phase = "down" /\ ~files.vault.exists
  BY WalletConstants DEF WalletInv, Typed, StartWithNewVault, Generated
<1>2. left' \in 0..MaxFaults
  BY <1>1, MeetsFacts DEF Typed
<1>3. /\ files.vault \in Vaults(made') /\ files.backup \in Backups(made')
      /\ files.profile \in Profiles
  BY <1>1, KnownGrow DEF Typed
<1>4. made' \in Known(made') /\ ConfigPassphrase \in Passphrases
  BY <1>1, WalletConstants DEF Known
<1>5. PICK v \in VaultPersisted(f, made', ConfigPassphrase) : files' = [files EXCEPT !.vault = v]
  BY DEF StartWithNewVault
<1>6. /\ v \in Vaults(made') /\ (v = files.vault \/ v.exists)
      /\ f.at # "vault" => v = [exists |-> TRUE, holds |-> made', pass |-> ConfigPassphrase]
  BY <1>1, <1>3, <1>4, <1>5, VaultFacts
<1>7. files' \in [vault : Vaults(made'), backup : Backups(made'), profile : Profiles]
      /\ files'.vault = v /\ files'.backup = files.backup
  BY <1>1, <1>3, <1>5, <1>6 DEF Typed
<1>8. history' = history /\ kind' = kind /\ sealed' = sealed /\ now' = now
  BY DEF StartWithNewVault
<1>9. history'.author = 0 \/ kind' # "crash"
  BY <1>1, <1>8 DEF AuthorHeld
<1>10. history' \in [author : 0..made', exportedTo : Paths \cup {NoPath}, unproven : BOOLEAN]
  BY <1>1, <1>8 DEF Typed
<1>11. NoWallet \in Wallets(made') /\ NoService \in Services /\ NamesBackup(NoService)
  BY <1>1, NoWalletType, NoServiceFacts
<1>12. (f.kind = "crash" => phase' = "down" /\ wallet' = NoWallet /\ service' = NoService)
       /\ (f.kind # "crash" =>
             /\ wallet' = [identity |-> made', ready |-> ~Fails(f, "vault")]
             /\ phase' = IF Fails(f, "vault") THEN "failed" ELSE "up"
             /\ service' = IF Fails(f, "vault") THEN service ELSE LoadedService)
  BY DEF StartWithNewVault, Stopped
<1>13. /\ wallet' \in Wallets(made') /\ service' \in Services /\ NamesBackup(service')
       /\ phase' \in {"down", "up", "failed"}
  <2>1. [identity |-> made', ready |-> ~Fails(f, "vault")] \in Wallets(made')
    BY <1>4 DEF Wallets, Fails
  <2>2. LoadedService \in Services /\ NamesBackup(LoadedService)
    BY <1>1, LoadedFacts
  <2> QED
    BY <1>1, <1>11, <1>12, <2>1, <2>2 DEF Typed
<1>14. Typed'
  BY <1>1, <1>2, <1>7, <1>8, <1>10, <1>13 DEF Typed
<1>15. (kind' = "crash" /\ phase' # "down") => wallet'.identity = files'.vault.holds
  <2> SUFFICES ASSUME kind = "crash", f.kind # "crash"
               PROVE  wallet'.identity = files'.vault.holds
    BY <1>8, <1>12
  <2>1. f = NoFault
    BY <1>1, FaultIsStop
  <2> QED
    BY <1>6, <1>7, <1>12, <2>1 DEF NoFault
<1>16. wallet'.ready => wallet'.identity # 0
  BY <1>1, <1>12 DEF NoWallet
<1>17. Idle'
  <2>1. phase' = "down" => wallet' = NoWallet
    BY <1>12
  <2> QED
    BY <1>1, <1>6, <1>7, <2>1 DEF Idle
<1>18. (SignerIsInVault /\ SignersHaveKeys /\ AuthorHeld)'
  BY <1>9, <1>15, <1>16 DEF SignerIsInVault, SignersHaveKeys, AuthorHeld
<1> QED
  BY <1>14, <1>17, <1>18 DEF WalletInv

LEMMA LockStep == ASSUME WalletInv, NEW f \in Faults, Lock(f) PROVE WalletInv'
<1> DEFINE s == Refreshed(service, files.backup)
           w == [wallet EXCEPT !.ready = FALSE]
<1>1. Typed /\ Idle /\ AuthorHeld /\ made \in Nat /\ Meets(f) /\ phase # "down"
  BY WalletConstants DEF WalletInv, Typed, Lock
<1>2. left' \in 0..MaxFaults
  BY <1>1, MeetsFacts DEF Typed
<1>3. s \in Services /\ NamesBackup(s) /\ w \in Wallets(made)
  BY <1>1, RefreshedFacts DEF Typed, Wallets
<1>4. PICK q \in ProfileSaved(f, s) : files' = [files EXCEPT !.profile = q]
  BY DEF Lock
<1> HIDE DEF s
<1>5. q \in Profiles
  BY <1>1, <1>3, <1>4, ProfileFacts DEF Typed
<1>6. /\ files' \in [vault : Vaults(made), backup : Backups(made), profile : Profiles]
      /\ files'.vault = files.vault /\ files'.backup = files.backup
  BY <1>1, <1>4, <1>5 DEF Typed
<1>7. Leaves(f, w, s) /\ UNCHANGED <<now, sealed, made, kind, history>>
  BY DEF Lock, s
<1>8. /\ wallet' \in Wallets(made) /\ service' \in Services /\ NamesBackup(service')
      /\ phase' \in {"down", "up", "failed"} /\ ~wallet'.ready
      /\ phase' = "down" => wallet' = NoWallet
  <2>1. ~w.ready /\ ~NoWallet.ready
    BY <1>1 DEF Typed, Wallets, NoWallet
  <2> HIDE DEF w
  <2>2. phase \in {"down", "up", "failed"}
    BY <1>1 DEF Typed
  <2>3. CASE f.kind = "crash"
    BY <1>1, <1>3, <1>7, <2>1, <2>2, <2>3, LeavesType
  <2>4. CASE f.kind # "crash"
    BY <1>1, <1>3, <1>7, <2>1, <2>2, <2>4, LeavesType
  <2> QED
    BY <2>3, <2>4
<1>9. Typed'
  BY <1>1, <1>2, <1>6, <1>7, <1>8 DEF Typed
<1>10. (Idle /\ SignerIsInVault /\ SignersHaveKeys /\ AuthorHeld)'
  BY <1>1, <1>6, <1>7, <1>8 DEF Idle, SignerIsInVault, SignersHaveKeys, AuthorHeld
<1> QED
  BY <1>9, <1>10 DEF WalletInv

LEMMA UnlockStep ==
  ASSUME WalletInv, NEW f \in Faults, NEW pass \in Passphrases, Unlock(pass, f)
  PROVE  WalletInv'
<1> DEFINE s == Refreshed(service, files.backup)
           w == [identity |-> files.vault.holds, ready |-> TRUE]
<1>1. /\ Typed /\ Idle /\ AuthorHeld /\ made \in Nat /\ Meets(f) /\ phase # "down"
      /\ files.vault.holds # 0
  BY WalletConstants DEF WalletInv, Typed, Unlock, Opens
<1>2. left' \in 0..MaxFaults
  BY <1>1, MeetsFacts DEF Typed
<1>3. s \in Services /\ NamesBackup(s) /\ w \in Wallets(made)
  BY <1>1, RefreshedFacts DEF Typed, Wallets, Vaults
<1>4. PICK q \in ProfileSaved(f, s) : files' = [files EXCEPT !.profile = q]
  BY DEF Unlock
<1> HIDE DEF s
<1>5. q \in Profiles
  BY <1>1, <1>3, <1>4, ProfileFacts DEF Typed
<1>6. /\ files' \in [vault : Vaults(made), backup : Backups(made), profile : Profiles]
      /\ files'.vault = files.vault /\ files'.backup = files.backup
  BY <1>1, <1>4, <1>5 DEF Typed
<1>7. Leaves(f, w, s) /\ UNCHANGED <<now, sealed, made, kind, history>>
  BY DEF Unlock, s
<1>8. /\ wallet' \in Wallets(made) /\ service' \in Services /\ NamesBackup(service')
      /\ phase' \in {"down", "up", "failed"} /\ (wallet' = NoWallet \/ wallet' = w)
      /\ phase' = "down" => wallet' = NoWallet
  BY <1>1, <1>3, <1>7, LeavesType DEF Typed
<1>9. Typed'
  BY <1>1, <1>2, <1>6, <1>7, <1>8 DEF Typed
<1>10. (Idle /\ SignerIsInVault /\ SignersHaveKeys /\ AuthorHeld)'
  BY <1>1, <1>6, <1>7, <1>8
     DEF Idle, SignerIsInVault, SignersHaveKeys, AuthorHeld, NoWallet
<1> QED
  BY <1>9, <1>10 DEF WalletInv

\* A readable vault while the wallet is unlocked: an export changes nothing that
\* concerns the author.
LEMMA ExportStep ==
  ASSUME WalletInv, NEW p \in Paths, NEW f \in Faults, Export(p, f) PROVE WalletInv'
<1> DEFINE id == wallet.identity
           content == Written(f, "backup", files.backup[p], [exists |-> TRUE, holds |-> id],
                              [exists : {TRUE}, holds : Cut(id, f)])
           e == [service EXCEPT !.path = p, !.backupAt = now, !.verified = FALSE]
           exported(b) == Refreshed(e, b)
<1>1. /\ Typed /\ Idle /\ AuthorHeld /\ made \in Nat /\ Meets(f) /\ phase # "down"
      /\ wallet.ready
  <2>1. Typed /\ Idle /\ AuthorHeld
    BY DEF WalletInv
  <2>2. made \in Nat
    BY <2>1, WalletConstants DEF Typed
  <2>3. Meets(f) /\ phase # "down" /\ wallet.ready
    BY DEF Export
  <2> QED
    BY <2>1, <2>2, <2>3
<1>2. left' \in 0..MaxFaults
  BY <1>1, MeetsFacts DEF Typed
<1>3. /\ id \in Known(made) /\ -id \in Known(made) /\ 0 \in Known(made)
      /\ files.backup \in Backups(made) /\ now \in 0..MaxTime /\ service \in Services
  BY <1>1 DEF Typed, Wallets, Known
<1>4. e \in Services
  BY <1>3 DEF Services
<1>5. PICK c \in content :
        LET b == [files.backup EXCEPT ![p] = c]
        IN  IF Fails(f, "backup")
            THEN files' = [files EXCEPT !.backup = b] /\ Leaves(f, wallet, service)
            ELSE /\ \E q \in ProfileSaved(f, exported(b)) :
                      files' = [files EXCEPT !.backup = b, !.profile = q]
                 /\ Leaves(f, wallet, exported(b))
  BY DEF Export
<1> DEFINE b == [files.backup EXCEPT ![p] = c]
<1>6. c \in [exists : BOOLEAN, holds : Known(made)]
  <2>1. f.at # "backup" \/ f.kind \in {"crash", "refused", "short"}
    BY DEF Faults, Fault, NoFault
  <2>2. c \in {files.backup[p], [exists |-> TRUE, holds |-> id]}
              \cup [exists : {TRUE}, holds : Cut(id, f)]
    BY <2>1 DEF Written
  <2>3. Cut(id, f) \subseteq Known(made)
    BY <1>3 DEF Cut
  <2>4. files.backup[p] \in [exists : BOOLEAN, holds : Known(made)]
    BY <1>3 DEF Backups
  <2>5. [exists |-> TRUE, holds |-> id] \in [exists : BOOLEAN, holds : Known(made)]
    BY <1>3
  <2>6. [exists : {TRUE}, holds : Cut(id, f)] \subseteq [exists : BOOLEAN, holds : Known(made)]
    BY <2>3
  <2> QED
    BY <2>2, <2>4, <2>5, <2>6
<1>7. b \in Backups(made)
  BY <1>3, <1>6 DEF Backups
<1>8. exported(b) \in Services /\ NamesBackup(exported(b))
  BY <1>4, <1>7, RefreshedFacts
<1>9. /\ files' \in [vault : Vaults(made), backup : Backups(made), profile : Profiles]
      /\ files'.vault = files.vault
  <2>1. CASE Fails(f, "backup")
    BY <1>1, <1>5, <1>7, <2>1 DEF Typed
  <2>2. CASE ~Fails(f, "backup")
    <3>1. PICK q \in ProfileSaved(f, exported(b)) :
            files' = [files EXCEPT !.backup = b, !.profile = q]
      BY <1>5, <2>2
    <3>2. q \in Profiles
      BY <1>1, <1>8, <3>1, ProfileFacts DEF Typed
    <3> HIDE DEF b
    <3> QED
      BY <1>1, <1>7, <3>1, <3>2 DEF Typed
  <2> QED
    BY <2>1, <2>2
<1>10. \E s \in Services : NamesBackup(s) /\ Leaves(f, wallet, s)
  BY <1>1, <1>5, <1>8 DEF Typed
<1>11. /\ wallet' \in Wallets(made) /\ service' \in Services /\ NamesBackup(service')
       /\ phase' \in {"down", "up", "failed"} /\ (wallet' = NoWallet \/ wallet' = wallet)
       /\ phase' = "down" => wallet' = NoWallet
  BY <1>1, <1>10, LeavesType DEF Typed
<1>12. /\ UNCHANGED <<now, sealed, made, kind>> /\ history'.author = history.author
       /\ history' \in [author : 0..made, exportedTo : Paths \cup {NoPath}, unproven : BOOLEAN]
  BY <1>1 DEF Export, Typed
<1>13. Typed'
  BY <1>1, <1>2, <1>9, <1>11, <1>12 DEF Typed
<1>14. Idle'
  BY <1>1, <1>9, <1>11 DEF Idle
<1>15. (SignerIsInVault /\ SignersHaveKeys /\ AuthorHeld)'
  BY <1>1, <1>9, <1>11, <1>12
     DEF WalletInv, SignerIsInVault, SignersHaveKeys, AuthorHeld, NoWallet
<1> QED
  BY <1>13, <1>14, <1>15 DEF WalletInv

LEMMA VerifyStep ==
  ASSUME WalletInv, NEW p \in Paths, NEW f \in Faults, Verify(p, f) PROVE WalletInv'
<1> DEFINE v == [service EXCEPT !.path = p, !.verified = TRUE,
                                !.backupAt = IF @ <= 0 THEN now ELSE @]
           s == Refreshed(v, files.backup)
<1>1. Typed /\ Idle /\ AuthorHeld /\ made \in Nat /\ Meets(f) /\ phase # "down"
  BY WalletConstants DEF WalletInv, Typed, Verify
<1>2. left' \in 0..MaxFaults
  BY <1>1, MeetsFacts DEF Typed
<1>3. v \in Services
  <2>1. service \in Services /\ now \in 0..MaxTime
    BY <1>1 DEF Typed
  <2>2. (IF service.backupAt <= 0 THEN now ELSE service.backupAt) \in 0..MaxTime
    BY <2>1 DEF Services
  <2> QED
    BY <2>1, <2>2 DEF Services
<1>4. s \in Services /\ NamesBackup(s)
  BY <1>1, <1>3, RefreshedFacts DEF Typed
<1>5. PICK q \in ProfileSaved(f, s) : files' = [files EXCEPT !.profile = q]
  BY DEF Verify
<1>6. Leaves(f, wallet, s) /\ UNCHANGED <<now, sealed, made, kind>>
  BY DEF Verify
<1> HIDE DEF s
<1>7. q \in Profiles
  BY <1>1, <1>4, <1>5, ProfileFacts DEF Typed
<1>8. /\ files' \in [vault : Vaults(made), backup : Backups(made), profile : Profiles]
      /\ files'.vault = files.vault /\ files'.backup = files.backup
  BY <1>1, <1>5, <1>7 DEF Typed
<1>9. /\ wallet' \in Wallets(made) /\ service' \in Services /\ NamesBackup(service')
      /\ phase' \in {"down", "up", "failed"} /\ (wallet' = NoWallet \/ wallet' = wallet)
      /\ phase' = "down" => wallet' = NoWallet
  BY <1>1, <1>4, <1>6, LeavesType DEF Typed
<1>10. history'.author = history.author
       /\ history' \in [author : 0..made, exportedTo : Paths \cup {NoPath}, unproven : BOOLEAN]
  BY <1>1 DEF Verify, Typed
<1>11. Typed'
  BY <1>1, <1>2, <1>6, <1>8, <1>9, <1>10 DEF Typed
<1>12. Idle'
  BY <1>1, <1>8, <1>9 DEF Idle
<1>13. (SignerIsInVault /\ SignersHaveKeys /\ AuthorHeld)'
  BY <1>1, <1>6, <1>8, <1>9, <1>10
     DEF WalletInv, SignerIsInVault, SignersHaveKeys, AuthorHeld, NoWallet
<1> QED
  BY <1>11, <1>12, <1>13 DEF WalletInv

\* Import, recovery and nuke.  Whatever a stop leaves in the vault, a backup holds the
\* author's key if the new identity has it, and the author is forgotten otherwise.
LEMMA ReplaceStep ==
  ASSUME WalletInv, NEW f \in Faults, NEW id, NEW before \in Services, NEW after \in Services,
         NamesBackup(before), phase # "down", UNCHANGED <<now, sealed, kind>>,
         made' \in made..MaxIdentity, id \in Known(made'), id # 0,
         \/ Key(id) > made
         \/ \E p \in Paths : files.backup[p].holds = id,
         ReplaceIdentity(f, id, before, after)
  PROVE  WalletInv'
<1> DEFINE s == Refreshed(after, files.backup)
<1>1. /\ Typed /\ Idle /\ AuthorHeld /\ made \in Nat /\ made' \in Nat /\ made <= made'
      /\ made' \in 0..MaxIdentity
  <2>1. Typed /\ Idle /\ AuthorHeld
    BY DEF WalletInv
  <2> QED
    BY <2>1, WalletConstants DEF Typed
<1>2. Meets(f) /\ f.at \in {"none", "vault", "profile"}
  BY DEF ReplaceIdentity
<1>3. left' \in 0..MaxFaults
  BY <1>1, <1>2, MeetsFacts DEF Typed
<1>4. /\ files.vault \in Vaults(made') /\ files.backup \in Backups(made')
      /\ files.profile \in Profiles /\ wallet \in Wallets(made')
      /\ files = [vault |-> files.vault, backup |-> files.backup, profile |-> files.profile]
  BY <1>1, KnownGrow DEF Typed
<1>5. s \in Services /\ NamesBackup(s)
  BY <1>4, RefreshedFacts
<1> HIDE DEF s
<1>6. PICK v \in VaultPersisted(f, id, before.passphrase) :
        IF Fails(f, "vault")
        THEN /\ files' = [files EXCEPT !.vault = v]
             /\ Leaves(f, [wallet EXCEPT !.identity = id], before)
        ELSE /\ \E q \in ProfileSaved(f, s) : files' = [files EXCEPT !.vault = v, !.profile = q]
             /\ Leaves(f, [identity |-> id, ready |-> TRUE], s)
  BY DEF ReplaceIdentity, s
<1>7. /\ v \in Vaults(made') /\ (v = files.vault \/ v.exists)
      /\ f.at # "vault" => v = [exists |-> TRUE, holds |-> id, pass |-> before.passphrase]
      /\ f.kind = "crash" => v = files.vault \/ v.holds \in {id, 0}
  <2>1. before.passphrase \in Passphrases
    BY DEF Services
  <2>2. made' \in Nat /\ id \in Known(made') /\ files.vault \in Vaults(made')
    BY <1>1, <1>4
  <2>3. v \in VaultPersisted(f, id, before.passphrase)
    BY <1>6
  <2> QED
    BY ONLY <2>1, <2>2, <2>3, f \in Faults, VaultFacts
<1>8. /\ files' \in [vault : Vaults(made'), backup : Backups(made'), profile : Profiles]
      /\ files'.vault = v /\ files'.backup = files.backup
  <2>1. CASE Fails(f, "vault")
    <3>1. files' = [files EXCEPT !.vault = v]
      BY <1>6, <2>1
    <3> QED
      BY <1>4, <1>7, <3>1
  <2>2. CASE ~Fails(f, "vault")
    <3>1. PICK q \in ProfileSaved(f, s) : files' = [files EXCEPT !.vault = v, !.profile = q]
      BY <1>6, <2>2
    <3>2. q \in Profiles
      BY <1>4, <1>5, <3>1, ProfileFacts
    <3> QED
      BY <1>4, <1>7, <3>1, <3>2
  <2> QED
    BY <2>1, <2>2
<1>9. PICK w \in Wallets(made'), t \in Services :
        /\ NamesBackup(t) /\ Leaves(f, w, t) /\ w.identity = id
        /\ w.ready => wallet.ready \/ ~Fails(f, "vault")
  <2>1. /\ [wallet EXCEPT !.identity = id] \in Wallets(made')
        /\ [wallet EXCEPT !.identity = id].identity = id
        /\ [wallet EXCEPT !.identity = id].ready = wallet.ready
    BY <1>4 DEF Wallets
  <2>2. [identity |-> id, ready |-> TRUE] \in Wallets(made')
    BY DEF Wallets
  <2>3. CASE Fails(f, "vault")
    BY <1>6, <2>1, <2>3
  <2>4. CASE ~Fails(f, "vault")
    BY <1>5, <1>6, <2>2, <2>4
  <2> QED
    BY <2>3, <2>4
<1>10. /\ wallet' \in Wallets(made') /\ service' \in Services /\ NamesBackup(service')
       /\ phase' \in {"down", "up", "failed"}
       /\ f.kind = "crash" => phase' = "down" /\ wallet' = NoWallet
       /\ f.kind # "crash" => phase' = phase /\ wallet' = w
  <2>1. NoWallet \in Wallets(made') /\ NoService \in Services /\ NamesBackup(NoService)
    BY <1>1, NoWalletType, NoServiceFacts
  <2> QED
    BY <1>1, <1>9, <2>1 DEF Leaves, Stopped, Typed
<1>11. /\ history'.author = IF history.author = Key(id) THEN history.author ELSE 0
       /\ history' \in [author : 0..made', exportedTo : Paths \cup {NoPath}, unproven : BOOLEAN]
  <2>1. history \in [author : 0..made', exportedTo : Paths \cup {NoPath}, unproven : BOOLEAN]
    BY <1>1 DEF Typed
  <2>2. (IF after.verified THEN after.path ELSE history.exportedTo) \in Paths \cup {NoPath}
    BY <2>1 DEF Services
  <2>3. after.verified \in BOOLEAN /\ (~after.verified /\ after.backupAt = now) \in BOOLEAN
    BY DEF Services
  <2>4. history' = [history EXCEPT
                      !.exportedTo = IF after.verified THEN after.path ELSE @,
                      !.unproven = ~after.verified /\ after.backupAt = now,
                      !.author = IF @ = Key(id) THEN @ ELSE 0]
    BY DEF ReplaceIdentity
  <2> DEFINE x == IF after.verified THEN after.path ELSE history.exportedTo
             u == ~after.verified /\ after.backupAt = now
             a == IF history.author = Key(id) THEN history.author ELSE 0
  <2>5. history' = [history EXCEPT !.exportedTo = x, !.unproven = u, !.author = a]
    BY <2>4
  <2>6. x \in Paths \cup {NoPath} /\ u \in BOOLEAN /\ a \in 0..made'
    BY <1>1, <2>1, <2>2, <2>3
  <2>7. history'.author = a
    BY <2>1, <2>5
  <2> HIDE DEF x, u, a
  <2>8. history' \in [author : 0..made', exportedTo : Paths \cup {NoPath}, unproven : BOOLEAN]
    BY <2>1, <2>5, <2>6
  <2> QED
    BY <2>7, <2>8 DEF a
<1>12. Typed'
  BY <1>1, <1>3, <1>8, <1>10, <1>11 DEF Typed
<1>13. Idle'
  BY <1>1, <1>7, <1>8, <1>10 DEF Idle
<1>14. SignersHaveKeys'
  BY <1>9, <1>10 DEF SignersHaveKeys, NoWallet
<1>15. kind = "crash" => f.kind = "crash" \/ (f.at = "none" /\ f.kind # "crash")
  BY <1>2, FaultIsStop DEF NoFault
<1>16. SignerIsInVault'
  BY <1>7, <1>8, <1>9, <1>10, <1>15 DEF SignerIsInVault
<1>17. AuthorHeld'
  <2> SUFFICES ASSUME kind = "crash", history.author # 0, history.author = Key(id)
               PROVE  /\ v.exists
                      /\ \/ Key(v.holds) = history.author
                         \/ /\ v.holds = 0 /\ ~wallet'.ready
                            /\ \E p \in Paths : Key(files.backup[p].holds) = history.author
    BY <1>8, <1>11 DEF AuthorHeld
  <2>1. history.author \in 0..made /\ made \in Nat
    BY <1>1 DEF Typed
  <2>2. \E p \in Paths : Key(files.backup[p].holds) = history.author
    BY <2>1
  <2>3. v.exists
    BY <1>1, <1>7 DEF AuthorHeld
  <2>4. CASE f.kind # "crash"
    BY <1>7, <1>15, <2>3, <2>4
  <2>5. CASE f.kind = "crash"
    <3>1. ~wallet'.ready
      BY <1>10, <2>5 DEF NoWallet
    <3>2. CASE v = files.vault
      BY <1>1, <2>2, <2>3, <3>1, <3>2 DEF AuthorHeld
    <3>3. CASE v.holds \in {id, 0}
      BY <2>2, <2>3, <3>1, <3>3
    <3> QED
      BY <1>7, <2>5, <3>2, <3>3
  <2> QED
    BY <2>4, <2>5
<1> QED
  BY <1>12, <1>13, <1>14, <1>16, <1>17 DEF WalletInv

LEMMA ImportsStep ==
  ASSUME WalletInv, NEW p \in Paths, NEW f \in Faults, NEW before \in Services,
         NamesBackup(before), Imports(p, before, f)
  PROVE  WalletInv'
<1> DEFINE id == files.backup[p].holds
<1>1. /\ phase # "down" /\ id # 0 /\ UNCHANGED <<now, sealed, made, kind>>
      /\ ReplaceIdentity(f, id, before, AfterImport(before, p))
  BY DEF Imports, Readable
<1>2. made' \in made..MaxIdentity /\ id \in Known(made') /\ now \in 0..MaxTime
  <2>1. made \in 0..MaxIdentity /\ files.backup \in Backups(made) /\ now \in 1..MaxTime
    BY DEF WalletInv, Typed
  <2> QED
    BY <1>1, <2>1, WalletConstants DEF Backups
<1>3. AfterImport(before, p) \in Services
  BY <1>2 DEF AfterImport, Services
<1>4. \E r \in Paths : files.backup[r].holds = id
  OBVIOUS
<1> HIDE DEF id
<1> QED
  BY <1>1, <1>2, <1>3, <1>4, ReplaceStep

LEMMA ImportStep ==
  ASSUME WalletInv, NEW p \in Paths, NEW f \in Faults, Import(p, f) PROVE WalletInv'
  BY ImportsStep DEF Import, WalletInv, Typed

LEMMA RecoverStep ==
  ASSUME WalletInv, NEW p \in Paths, NEW f \in Faults, NEW pass \in Passphrases,
         Recover(p, pass, f)
  PROVE  WalletInv'
<1> DEFINE before == [service EXCEPT !.passphrase = pass]
<1>1. before \in Services /\ NamesBackup(before)
  BY DEF WalletInv, Typed, Services, NamesBackup
<1>2. Imports(p, before, f)
  BY DEF Recover
<1> HIDE DEF before
<1> QED
  BY <1>1, <1>2, ImportsStep

LEMMA NukeStep == ASSUME WalletInv, NEW f \in Faults, Nuke(f) PROVE WalletInv'
<1>1. /\ phase # "down" /\ UNCHANGED <<now, sealed, kind>> /\ made < MaxIdentity
      /\ made' = made + 1 /\ ReplaceIdentity(f, made', service, AfterNuke(service))
  BY DEF Nuke, Generated
<1>2. /\ made \in 0..MaxIdentity /\ service \in Services /\ NamesBackup(service)
      /\ now \in 0..MaxTime
  BY DEF WalletInv, Typed
<1>3. made' \in made..MaxIdentity /\ made' \in Known(made') /\ made' # 0
  BY <1>1, <1>2, WalletConstants DEF Known
<1>4. Key(made') > made
  BY <1>1, <1>2 DEF Key
<1>5. AfterNuke(service) \in Services
  BY <1>2 DEF AfterNuke, Services
<1> QED
  BY <1>1, <1>2, <1>3, <1>4, <1>5, ReplaceStep

LEMMA NextInv == ASSUME WalletInv, [Next]_vars PROVE WalletInv'
<1>1. CASE UNCHANGED vars
  <2>1. Typed'
    BY <1>1 DEF vars, WalletInv, Typed
  <2>2. (Idle /\ SignerIsInVault /\ SignersHaveKeys /\ AuthorHeld)'
    BY <1>1 DEF vars, WalletInv, Idle, SignerIsInVault, SignersHaveKeys, AuthorHeld
  <2> QED
    BY <2>1, <2>2 DEF WalletInv
<1>2. CASE Tick \/ Stop \/ StartFromVault \/ Mutate
  BY <1>2, TickStep, StopStep, StartFromVaultStep, MutateStep
<1>3. CASE \E pass \in Passphrases : UnlockFails(pass) \/ RecoverFails(pass)
  BY <1>3, UnlockFailsStep, RecoverFailsStep
<1>4. ASSUME NEW f \in Faults,
             \/ StartWithNewVault(f) \/ Lock(f) \/ Nuke(f)
             \/ \E pass \in Passphrases : Unlock(pass, f)
      PROVE  WalletInv'
  BY <1>4, StartWithNewVaultStep, LockStep, NukeStep, UnlockStep
<1>5. ASSUME NEW f \in Faults, NEW p \in Paths,
             \/ Export(p, f) \/ Verify(p, f) \/ Import(p, f)
             \/ \E pass \in Passphrases : Recover(p, pass, f)
      PROVE  WalletInv'
  BY <1>5, ExportStep, VerifyStep, ImportStep, RecoverStep
<1>6. FaultsToCome \subseteq Faults
  BY DEF FaultsToCome, Faults
<1> QED
  BY <1>1, <1>2, <1>3, <1>4, <1>5, <1>6 DEF Next

-----------------------------------------------------------------------------
(* Theorems.                                                               *)

\* In every state of the wallet, the process runs with the files and identities that
\* the operations have made, and the last author's key is where AuthorHeld says.
THEOREM WalletSafe == Spec => []WalletInv
  BY InitInv, NextInv, PTL DEF Spec

\* Every operation, start and stop, with any fault in any of its writes, leaves values
\* of the declared types in memory and on disk (crypto.cpp, alpha_service.cpp).
THEOREM WalletTyped == Spec => []TypeOK
<1>1. ASSUME WalletInv PROVE TypeOK
  <2> USE <1>1, WalletConstants DEF WalletInv
  <2>1. made \in 0..MaxIdentity /\ 0..made \subseteq 0..MaxIdentity /\ Known(made) \subseteq Identity
    BY DEF Typed, Known, Identity
  <2>2. Cardinality(files.profile) <= 1
    <3>1. files.profile \in Profiles
      BY DEF Typed
    <3>2. CASE files.profile = {}
      BY <3>2, FS_EmptySet
    <3>3. CASE \E q \in SavedStates : files.profile = {q}
      BY <3>3, FS_Singleton
    <3> QED
      BY <3>1, <3>2, <3>3 DEF Profiles
  <2>3. wallet \in [identity : Identity, ready : BOOLEAN]
    BY <2>1 DEF Typed, Wallets
  <2>4. files.vault \in [exists : BOOLEAN, holds : Identity, pass : Passphrases]
    BY <2>1 DEF Typed, Vaults
  <2>5. files.backup \in [Paths -> [exists : BOOLEAN, holds : Identity]]
    BY <2>1 DEF Typed, Backups
  <2>6. history \in Past
    BY <2>1 DEF Typed, Past
  <2> QED
    BY <2>1, <2>2, <2>3, <2>4, <2>5, <2>6 DEF Typed, TypeOK, Services, NamesBackup
<1> QED
  BY <1>1, WalletSafe, PTL

\* Where writes are not lost, an unlocked wallet never signs with an identity that the
\* next start would not find in the vault (persist_identity_vault).
THEOREM SignerInVaultAlways == Spec => []SignerIsInVault
<1>1. WalletInv => SignerIsInVault
  BY DEF WalletInv
<1> QED
  BY <1>1, WalletSafe, PTL

\* With the authenticated vault no failed unlock leaves an unlocked wallet without a
\* key (unlock_from_vault).
THEOREM SignersAlwaysHaveKeys == Spec => []SignersHaveKeys
<1>1. WalletInv => SignersHaveKeys
  BY DEF WalletInv
<1> QED
  BY <1>1, WalletSafe, PTL

\* However often the process is stopped inside the writes of import, recovery and nuke,
\* the key that made the last event stays in the vault or in a backup, unless it is
\* replaced on purpose (import_identity_backup, nuke_identity).
THEOREM AuthorAlwaysRecoverable == Spec => []AuthorRecoverable
<1>1. WalletInv => AuthorRecoverable
  BY DEF WalletInv, AuthorHeld, AuthorRecoverable
<1> QED
  BY <1>1, WalletSafe, PTL

-----------------------------------------------------------------------------
(* The backup of an open wallet's key.  The invariant, on top of WalletInv *)
(* (the refused writes, which leave vault and memory apart, excepted).     *)

SameKey(i, j) == i = 0 \/ j = 0 \/ Key(i) = Key(j)

\* A backup is never dated later than the clock.
Dated == service.backupAt <= now /\ \A q \in files.profile : q.backupAt <= now

\* A profile is saved only when there is a vault, and a wallet counts as backed up only
\* on a verified backup that is as recent as its key.
Founded ==
  /\ ~files.vault.exists => files.profile = {}
  /\ phase = "up" => files.vault.exists
  /\ service.complete => /\ service.verified /\ service.path # NoPath
                         /\ service.backupAt > 0 /\ service.backupAt >= service.changedAt

\* The identity in memory and the one in the vault are of one key.
OneKey == kind # "refused" /\ phase = "up" => SameKey(wallet.identity, files.vault.holds)

\* The backup that the service remembers is as recent as the key.
Current ==
  /\ kind # "refused" /\ phase = "up" /\ ~history.unproven
  /\ service.backupAt > 0 /\ service.backupAt >= service.changedAt

\* Then the backup last written is of the key, and it is the one that was verified.
LastExportHolds ==
  Current =>
    /\ history.exportedTo \in Paths
    /\ SameKey(files.backup[history.exportedTo].holds, wallet.identity)
    /\ SameKey(files.backup[history.exportedTo].holds, files.vault.holds)
    /\ service.verified => /\ service.path = history.exportedTo
                           /\ files.backup[history.exportedTo].holds # 0

BackupParts == Dated /\ Founded /\ OneKey /\ LastExportHolds

LEMMA KeyFacts ==
  ASSUME NEW i \in Int
  PROVE  SameKey(i, i) /\ SameKey(i, -i) /\ SameKey(-i, i) /\ SameKey(i, 0) /\ SameKey(0, i)
  BY DEF SameKey, Key

LEMMA SameKeySymmetric == ASSUME NEW i, NEW j, SameKey(i, j) PROVE SameKey(j, i)
  BY DEF SameKey

\* What the profile file may hold after a service was saved.
LEMMA ProfileDated ==
  ASSUME WalletInv, Dated, NEW f \in Faults, NEW s \in Services, s.backupAt <= now,
         NEW q \in ProfileSaved(f, s)
  PROVE  /\ \A r \in q : r.backupAt <= now
         /\ phase # "up" => q = files.profile
<1>1. Saved(s).backupAt = s.backupAt
  BY DEF Saved
<1>2. CASE phase # "up"
  BY <1>2 DEF ProfileSaved, Dated
<1>3. CASE phase = "up"
  <2>1. q \in {files.profile, {Saved(s)}, {}}
    <3>1. f.at # "profile" \/ f.kind \in {"crash", "refused", "short"}
      BY DEF Faults, Fault, NoFault
    <3> QED
      BY <1>3, <3>1 DEF ProfileSaved, Written
  <2> QED
    BY <1>1, <1>3, <2>1 DEF Dated
<1> QED
  BY <1>2, <1>3

LEMMA RefreshedKeeps ==
  ASSUME NEW s \in Services, NEW n, NEW b \in Backups(n)
  PROVE  LET t == Refreshed(s, b)
         IN  /\ t.backupAt = s.backupAt /\ t.changedAt = s.changedAt /\ t.path = s.path
             /\ t.verified => s.verified
             /\ t.complete => /\ t.verified /\ t.path # NoPath
                              /\ t.backupAt > 0 /\ t.backupAt >= t.changedAt
<1> DEFINE verified == s.verified /\ s.path # NoPath /\ b[s.path].exists
           complete == verified /\ s.backupAt > 0 /\ s.backupAt >= s.changedAt
           t == Refreshed(s, b)
<1>1. t = [s EXCEPT !.verified = verified, !.complete = complete]
  BY DEF Refreshed
<1>2. t.backupAt = s.backupAt /\ t.changedAt = s.changedAt /\ t.path = s.path
  BY <1>1 DEF Services
<1>3. t.verified = verified /\ t.complete = complete
  BY <1>1 DEF Services
<1>4. verified => s.verified
  OBVIOUS
<1>5. complete => verified /\ s.path # NoPath /\ s.backupAt > 0 /\ s.backupAt >= s.changedAt
  OBVIOUS
<1> HIDE DEF t, verified, complete
<1> QED
  BY <1>2, <1>3, <1>4, <1>5 DEF t

\* A service that init has just loaded has no backup as recent as its key, unless one
\* is dated this second.
LEMMA LoadedOld ==
  ASSUME WalletInv, Dated
  PROVE  LET s == LoadedService
         IN  /\ s.backupAt <= now
             /\ s.complete => /\ s.verified /\ s.path # NoPath
                              /\ s.backupAt > 0 /\ s.backupAt >= s.changedAt
             /\ s.backupAt > 0 /\ s.backupAt >= s.changedAt => \E q \in files.profile : q.backupAt = now
             /\ files.profile = {} => s.backupAt = 0
<1> DEFINE saved == IF files.profile = {} THEN {Saved([NoService EXCEPT !.changedAt = now])}
                    ELSE files.profile
           q == CHOOSE r \in saved : TRUE
           changed == IF q.changedAt > now THEN q.changedAt ELSE now
           loaded == [NoService EXCEPT !.path = q.path, !.verified = q.verified,
                                       !.backupAt = q.backupAt, !.changedAt = changed]
<1>1. now \in 0..MaxTime /\ now \in 1..MaxTime /\ files.profile \in Profiles /\ files.backup \in Backups(made)
  BY WalletConstants DEF WalletInv, Typed
<1>2. [NoService EXCEPT !.changedAt = now] \in Services
  BY <1>1, NoServiceFacts DEF Services
<1>3. saved \subseteq SavedStates /\ saved # {}
  BY <1>1, <1>2, SavedType DEF Profiles
<1>4. q \in saved /\ q \in SavedStates
  BY <1>3
<1>5. files.profile = {} => q.backupAt = 0
  <2> SUFFICES ASSUME files.profile = {} PROVE q.backupAt = 0
    OBVIOUS
  <2>1. q = Saved([NoService EXCEPT !.changedAt = now])
    BY <1>4
  <2> QED
    BY <2>1 DEF Saved, NoService
<1>6. files.profile # {} => q \in files.profile
  BY <1>4
<1> HIDE DEF q
<1>7. changed >= now /\ changed \in 0..MaxTime
  BY <1>1, <1>4 DEF SavedStates
<1> HIDE DEF changed
<1>8. loaded \in Services /\ loaded.backupAt = q.backupAt /\ loaded.changedAt = changed
  BY <1>1, <1>4, <1>7, NoServiceFacts DEF Services, SavedStates
<1>9. LoadedService = Refreshed(loaded, files.backup)
  BY DEF LoadedService, q, changed
<1> HIDE DEF loaded
<1>10. /\ LoadedService.backupAt = q.backupAt /\ LoadedService.changedAt = changed
       /\ LoadedService.complete =>
            /\ LoadedService.verified /\ LoadedService.path # NoPath
            /\ LoadedService.backupAt > 0 /\ LoadedService.backupAt >= LoadedService.changedAt
  BY <1>1, <1>8, <1>9, RefreshedKeeps
<1>11. q.backupAt \in 0..MaxTime /\ q.backupAt <= now
  BY <1>1, <1>4, <1>5, <1>6 DEF Dated, SavedStates
<1>12. q.backupAt > 0 /\ q.backupAt >= changed => q.backupAt = now /\ q \in files.profile
  BY <1>1, <1>5, <1>6, <1>7, <1>11
<1> HIDE DEF LoadedService
<1> QED
  BY <1>5, <1>10, <1>11, <1>12

\* After a write that was not refused and did not stop the process, the vault holds the
\* identity written, what is left of it, or nothing.
LEMMA VaultHolds ==
  ASSUME NEW f \in Faults, f.kind \notin {"crash", "refused"}, NEW id, NEW pass,
         NEW v \in VaultPersisted(f, id, pass)
  PROVE  v.exists /\ v.holds \in {id, 0, -id}
<1> DEFINE holds == IF sealed THEN {0} ELSE Cut(id, f)
           cuts == [exists : {TRUE}, holds : holds, pass : {pass}]
<1>1. f.at # "vault" \/ f.kind = "short"
  BY DEF Faults, Fault, NoFault
<1>2. holds \subseteq {id, 0, -id}
  BY DEF Cut
<1> HIDE DEF holds
<1>3. \A c \in cuts : c.exists /\ c.holds \in {id, 0, -id}
  BY <1>2
<1>4. CASE f.at # "vault"
  BY <1>4 DEF VaultPersisted, Written
<1>5. CASE f.at = "vault"
  <2>1. v \in cuts
    BY <1>1, <1>5 DEF VaultPersisted, Written, holds
  <2> QED
    BY <1>3, <2>1
<1> QED
  BY <1>4, <1>5

\* A process that is not up has nothing to say of its key.
LEMMA NotUp ==
  ASSUME phase' # "up"
  PROVE  OneKey' /\ LastExportHolds'
  BY DEF OneKey, LastExportHolds, Current

\* A refused write may leave vault and memory apart.
LEMMA Refused ==
  ASSUME kind' = "refused"
  PROVE  OneKey' /\ LastExportHolds'
  BY DEF OneKey, LastExportHolds, Current

\* Operations that leave the backups, the vault and what the service knows of them as
\* they are, and the identity too, unless it is read again from the vault or lost.
LEMMA Unmoved ==
  ASSUME BackupParts, kind' = kind, phase' = phase,
         wallet'.identity \in {wallet.identity, 0, files.vault.holds},
         files'.vault = files.vault, files'.backup = files.backup,
         history'.exportedTo = history.exportedTo, history'.unproven = history.unproven,
         service'.backupAt = service.backupAt, service'.changedAt = service.changedAt,
         service'.path = service.path, service'.verified => service.verified
  PROVE  OneKey' /\ LastExportHolds'
<1>1. Current' => Current
  BY DEF Current
<1>2. OneKey'
  BY DEF BackupParts, OneKey, SameKey
<1>3. LastExportHolds'
  BY <1>1 DEF BackupParts, LastExportHolds, SameKey
<1> QED
  BY <1>2, <1>3

\* An operation of a running process that leaves the service in s.
Sound(s) == /\ s.backupAt <= now
            /\ s.complete => /\ s.verified /\ s.path # NoPath
                             /\ s.backupAt > 0 /\ s.backupAt >= s.changedAt

LEMMA LeavesSound ==
  ASSUME WalletInv, BackupParts, NEW f, NEW w, NEW s, Leaves(f, w, s), Sound(s), now' = now,
         \A q \in files'.profile : q.backupAt <= now,
         phase # "up" => files'.profile = files.profile,
         files'.vault = files.vault \/ files'.vault.exists
  PROVE  /\ Dated' /\ Founded'
         /\ f.kind = "crash" => phase' # "up"
         /\ f.kind # "crash" => wallet' = w /\ service' = s /\ phase' = phase
<1>1. now > 0 /\ Sound(NoService)
  BY WalletConstants DEF WalletInv, Typed, Sound, NoService
<1>2. \/ f.kind = "crash" /\ phase' = "down" /\ service' = NoService
      \/ f.kind # "crash" /\ wallet' = w /\ service' = s /\ phase' = phase
  BY DEF Leaves, Stopped
<1>3. Sound(service')
  BY <1>1, <1>2
<1>4. Dated'
  BY <1>3 DEF Sound, Dated
<1>5. phase' = "up" => phase = "up"
  BY <1>2
<1>6. Founded'
  BY <1>3, <1>5 DEF BackupParts, Founded, Sound
<1> QED
  BY <1>2, <1>4, <1>6

LEMMA SoundService == ASSUME BackupParts PROVE Sound(service)
  BY DEF BackupParts, Dated, Founded, Sound

LEMMA SoundRefreshed ==
  ASSUME NEW s \in Services, NEW n, NEW b \in Backups(n), s.backupAt <= now
  PROVE  Sound(Refreshed(s, b))
  BY RefreshedKeeps DEF Sound

-----------------------------------------------------------------------------
(* Each step keeps the backup.                                             *)

LEMMA InitBackup == Init => BackupParts
<1> SUFFICES ASSUME Init PROVE BackupParts
  OBVIOUS
<1>1. /\ now = 1 /\ phase = "down" /\ service.backupAt = 0 /\ ~service.complete
      /\ files.profile = {}
  BY DEF Init, NoService
<1> QED
  BY <1>1 DEF BackupParts, Dated, Founded, OneKey, LastExportHolds, Current

LEMMA StutterBackup == ASSUME BackupParts, UNCHANGED vars PROVE BackupParts'
<1>1. (Dated /\ Founded)'
  BY DEF vars, BackupParts, Dated, Founded
<1>2. (OneKey /\ LastExportHolds)'
  BY Unmoved DEF vars
<1> QED
  BY <1>1, <1>2 DEF BackupParts

LEMMA TickBackup == ASSUME WalletInv, BackupParts, Tick PROVE BackupParts'
<1>1. /\ service.backupAt \in Int /\ now \in Int
      /\ \A q \in files.profile : q.backupAt \in Int
  BY WalletConstants DEF WalletInv, Typed, Services, Profiles, SavedStates
<1>2. (Dated /\ Founded)'
  BY <1>1 DEF Tick, BackupParts, Dated, Founded
<1>3. (OneKey /\ LastExportHolds)'
  BY Unmoved DEF Tick
<1> QED
  BY <1>2, <1>3 DEF BackupParts

LEMMA StopBackup == ASSUME WalletInv, BackupParts, Stop PROVE BackupParts'
<1>1. phase' = "down" /\ service' = NoService /\ UNCHANGED <<now, files>>
  BY DEF Stop, Stopped
<1>2. now \in Nat /\ now > 0
  BY WalletConstants DEF WalletInv, Typed
<1>2a. service'.backupAt = 0 /\ ~service'.complete
  BY <1>1 DEF NoService
<1>3. (Dated /\ Founded)'
  BY <1>1, <1>2, <1>2a DEF BackupParts, Dated, Founded
<1> QED
  BY <1>1, <1>3, NotUp DEF BackupParts

LEMMA UnlockFailsBackup ==
  ASSUME WalletInv, BackupParts, NEW pass \in Passphrases, UnlockFails(pass) PROVE BackupParts'
<1>1. wallet'.identity \in {wallet.identity, 0}
  BY MisreadFacts DEF UnlockFails, WalletInv, Typed
<1>2. (Dated /\ Founded)'
  BY DEF UnlockFails, BackupParts, Dated, Founded
<1>3. (OneKey /\ LastExportHolds)'
  BY <1>1, Unmoved DEF UnlockFails
<1> QED
  BY <1>2, <1>3 DEF BackupParts

LEMMA RecoverFailsBackup ==
  ASSUME WalletInv, BackupParts, NEW pass \in Passphrases, RecoverFails(pass) PROVE BackupParts'
<1>1. service' = [service EXCEPT !.passphrase = pass] /\ service \in Services
  BY DEF RecoverFails, WalletInv, Typed
<1>2. /\ service'.backupAt = service.backupAt /\ service'.changedAt = service.changedAt
      /\ service'.path = service.path /\ service'.verified = service.verified
      /\ service'.complete = service.complete
  BY <1>1 DEF Services
<1>3. UNCHANGED <<now, phase, wallet, files, kind, history>>
  BY DEF RecoverFails
<1>4. (Dated /\ Founded)'
  BY <1>2, <1>3 DEF BackupParts, Dated, Founded
<1>5. (OneKey /\ LastExportHolds)'
  BY <1>2, <1>3, Unmoved
<1> QED
  BY <1>4, <1>5 DEF BackupParts

LEMMA MutateBackup == ASSUME WalletInv, BackupParts, Mutate PROVE BackupParts'
<1>1. /\ history'.exportedTo = history.exportedTo /\ history'.unproven = history.unproven
      /\ UNCHANGED <<now, phase, wallet, service, files, kind>>
  BY DEF Mutate, WalletInv, Typed
<1>2. (Dated /\ Founded)'
  BY <1>1 DEF BackupParts, Dated, Founded
<1>3. (OneKey /\ LastExportHolds)'
  BY <1>1, Unmoved
<1> QED
  BY <1>2, <1>3 DEF BackupParts

\* lock_wallet and unlock_wallet.
LEMMA LockBackup ==
  ASSUME WalletInv, BackupParts, NEW f \in Faults, NEW w,
         w.identity \in {wallet.identity, files.vault.holds},
         \E q \in ProfileSaved(f, Refreshed(service, files.backup)) :
           files' = [files EXCEPT !.profile = q],
         Leaves(f, w, Refreshed(service, files.backup)),
         UNCHANGED <<now, kind, history>>
  PROVE  BackupParts'
<1> DEFINE s == Refreshed(service, files.backup)
<1>1. service \in Services /\ files.backup \in Backups(made) /\ service.backupAt <= now
  BY DEF WalletInv, Typed, BackupParts, Dated
<1>2. s \in Services /\ Sound(s)
  BY <1>1, RefreshedFacts, SoundRefreshed
<1>3. /\ s.backupAt = service.backupAt /\ s.changedAt = service.changedAt
      /\ s.path = service.path /\ (s.verified => service.verified)
  BY <1>1, RefreshedKeeps
<1>4. PICK q \in ProfileSaved(f, s) : files' = [files EXCEPT !.profile = q]
  OBVIOUS
<1>5. Leaves(f, w, s)
  OBVIOUS
<1> HIDE DEF s
<1>6. files'.vault = files.vault /\ files'.backup = files.backup /\ files'.profile = q
  BY <1>4 DEF WalletInv, Typed
<1>7. (\A r \in q : r.backupAt <= now) /\ (phase # "up" => q = files.profile)
  BY <1>2, <1>4, ProfileDated DEF Sound, BackupParts
<1>8. /\ Dated' /\ Founded'
      /\ f.kind = "crash" => phase' # "up"
      /\ f.kind # "crash" => wallet' = w /\ service' = s /\ phase' = phase
  BY <1>2, <1>5, <1>6, <1>7, LeavesSound
<1>9. CASE f.kind = "crash"
  BY <1>8, <1>9, NotUp DEF BackupParts
<1>10. CASE f.kind # "crash"
  <2>1. /\ wallet'.identity \in {wallet.identity, 0, files.vault.holds} /\ phase' = phase
        /\ service'.backupAt = service.backupAt /\ service'.changedAt = service.changedAt
        /\ service'.path = service.path /\ (service'.verified => service.verified)
    BY <1>3, <1>8, <1>10
  <2>2. OneKey' /\ LastExportHolds'
    BY <1>6, <2>1, Unmoved
  <2> QED
    BY <1>8, <2>2 DEF BackupParts
<1> QED
  BY <1>9, <1>10

LEMMA StartFromVaultBackup ==
  ASSUME WalletInv, BackupParts, StartFromVault PROVE BackupParts'
<1>1. files.vault.exists /\ UNCHANGED <<now, files, kind>>
      /\ history'.unproven = \E q \in files.profile : q.backupAt = now
  BY DEF StartFromVault, WalletInv, Typed
<1>2. CASE Opens(ConfigPassphrase)
  <2>1. service' = LoadedService /\ wallet'.identity = files.vault.holds
    BY <1>2 DEF StartFromVault
  <2>2. Sound(service') /\ ~Current'
    BY <1>1, <2>1, LoadedOld DEF BackupParts, Sound, Current
  <2>3. (Dated /\ Founded)'
    BY <1>1, <2>2 DEF Sound, BackupParts, Dated, Founded
  <2>4. (OneKey /\ LastExportHolds)'
    BY <1>1, <2>1, <2>2 DEF OneKey, LastExportHolds, SameKey
  <2> QED
    BY <2>3, <2>4 DEF BackupParts
<1>3. CASE ~Opens(ConfigPassphrase)
  <2>1. phase' = "failed" /\ service' = service
    BY <1>3 DEF StartFromVault
  <2>2. (Dated /\ Founded)'
    BY <1>1, <2>1 DEF BackupParts, Dated, Founded
  <2> QED
    BY <2>1, <2>2, NotUp DEF BackupParts
<1> QED
  BY <1>2, <1>3

LEMMA StartWithNewVaultBackup ==
  ASSUME WalletInv, BackupParts, NEW f \in Faults, StartWithNewVault(f) PROVE BackupParts'
<1>1. PICK v \in VaultPersisted(f, made', ConfigPassphrase) : files' = [files EXCEPT !.vault = v]
  BY DEF StartWithNewVault
<1>2. /\ files'.vault = v /\ files'.profile = {} /\ files.profile = {}
      /\ UNCHANGED <<now, kind, history>> /\ f.at \in {"none", "vault"}
  BY <1>1 DEF StartWithNewVault, WalletInv, Typed, BackupParts, Founded
<1>3. CASE f.kind = "crash"
  <2>1. phase' = "down" /\ service' = NoService /\ now \in Nat
    BY <1>3, WalletConstants DEF StartWithNewVault, Stopped, WalletInv, Typed
  <2>2. Sound(service')
    BY <2>1 DEF NoService, Sound
  <2>3. (Dated /\ Founded)'
    BY <1>2, <2>1, <2>2 DEF Sound, Dated, Founded
  <2> QED
    BY <2>1, <2>3, NotUp DEF BackupParts
<1>4. CASE f.kind # "crash" /\ Fails(f, "vault")
  <2>1. phase' = "failed" /\ service' = service
    BY <1>4 DEF StartWithNewVault
  <2>2. (Dated /\ Founded)'
    BY <1>2, <2>1 DEF BackupParts, Dated, Founded
  <2> QED
    BY <2>1, <2>2, NotUp DEF BackupParts
<1>5. CASE f.kind # "crash" /\ ~Fails(f, "vault")
  <2>1. phase' = "up" /\ service' = LoadedService /\ wallet'.identity = made'
    BY <1>5 DEF StartWithNewVault
  <2>2. f.kind \notin {"crash", "refused"}
    BY <1>2, <1>5 DEF Fails, Faults, Fault, NoFault
  <2>3. v.exists /\ v.holds \in {made', 0, -made'}
    BY <1>1, <2>2, VaultHolds
  <2>4. made' \in Int
    BY WalletConstants DEF StartWithNewVault, Generated, WalletInv, Typed
  <2>5. Sound(service') /\ ~Current'
    BY <1>2, <2>1, LoadedOld DEF BackupParts, Sound, Current
  <2>6. (Dated /\ Founded)'
    BY <1>2, <2>3, <2>5 DEF Sound, Dated, Founded
  <2>7. SameKey(made', v.holds)
    BY <2>3, <2>4, KeyFacts
  <2>8. (OneKey /\ LastExportHolds)'
    BY <1>2, <2>1, <2>5, <2>7 DEF OneKey, LastExportHolds
  <2> QED
    BY <2>6, <2>8 DEF BackupParts
<1> QED
  BY <1>3, <1>4, <1>5

\* An export that comes to its end leaves a backup of the identity in memory, or one
\* that cannot be read, and it is not verified yet.
LEMMA ExportBackup ==
  ASSUME WalletInv, BackupParts, NEW p \in Paths, NEW f \in Faults, Export(p, f)
  PROVE  BackupParts'
<1> DEFINE id == wallet.identity
           content == Written(f, "backup", files.backup[p], [exists |-> TRUE, holds |-> id],
                              [exists : {TRUE}, holds : Cut(id, f)])
           e == [service EXCEPT !.path = p, !.backupAt = now, !.verified = FALSE]
           exported(b) == Refreshed(e, b)
<1>1. /\ made \in Nat /\ id \in Known(made) /\ -id \in Known(made) /\ 0 \in Known(made)
      /\ files.backup \in Backups(made) /\ now \in 0..MaxTime /\ service \in Services
  BY WalletConstants DEF WalletInv, Typed, Wallets, Known
<1>2. Meets(f) /\ UNCHANGED <<now, sealed, made, kind>>
  BY DEF Export
<1>3. PICK c \in content :
        LET b == [files.backup EXCEPT ![p] = c]
        IN  IF Fails(f, "backup")
            THEN files' = [files EXCEPT !.backup = b] /\ Leaves(f, wallet, service)
            ELSE /\ \E q \in ProfileSaved(f, exported(b)) :
                      files' = [files EXCEPT !.backup = b, !.profile = q]
                 /\ Leaves(f, wallet, exported(b))
  BY DEF Export
<1> DEFINE b == [files.backup EXCEPT ![p] = c]
<1>4. c \in [exists : BOOLEAN, holds : Known(made)]
      /\ (f.kind \notin {"crash", "refused"} => c.holds \in {id, 0, -id})
  <2>1. f.at # "backup" \/ f.kind \in {"crash", "refused", "short"}
    BY DEF Faults, Fault, NoFault
  <2>2. Cut(id, f) \subseteq {id, 0, -id}
    BY DEF Cut
  <2>3. files.backup[p] \in [exists : BOOLEAN, holds : Known(made)]
    BY <1>1 DEF Backups
  <2>4. [exists |-> TRUE, holds |-> id] \in [exists : BOOLEAN, holds : Known(made)]
    BY <1>1
  <2> DEFINE cuts == [exists : {TRUE}, holds : Cut(id, f)]
  <2>5. \A r \in cuts : r \in [exists : BOOLEAN, holds : Known(made)] /\ r.holds \in {id, 0, -id}
    BY <1>1, <2>2
  <2>6. \/ c = files.backup[p] /\ f.kind \in {"crash", "refused"}
        \/ c = [exists |-> TRUE, holds |-> id] \/ c \in cuts
    BY <2>1 DEF Written
  <2> HIDE DEF cuts
  <2>7. CASE c = files.backup[p] /\ f.kind \in {"crash", "refused"}
    BY <2>3, <2>7
  <2>8. CASE c = [exists |-> TRUE, holds |-> id]
    <3>1. [exists |-> TRUE, holds |-> id].holds = id
      OBVIOUS
    <3> QED
      BY <2>4, <2>8, <3>1
  <2>9. CASE c \in cuts
    BY <2>5, <2>9
  <2> QED
    BY <2>6, <2>7, <2>8, <2>9
<1>5. e \in Services /\ e.backupAt <= now /\ ~e.verified
  <2> DEFINE no == FALSE
             n == [service EXCEPT !.path = p, !.backupAt = now, !.verified = no]
  <2>1. e = n /\ no \in BOOLEAN /\ ~no
    OBVIOUS
  <2> HIDE DEF no
  <2>2. n \in Services /\ n.backupAt = now /\ n.verified = no
    BY <1>1, <2>1 DEF Services
  <2>3. now <= now
    BY <1>1
  <2> HIDE DEF e, n
  <2> QED
    BY <2>1, <2>2, <2>3
<1>6. b \in Backups(made) /\ b[p] = c
  BY <1>1, <1>4 DEF Backups
<1> DEFINE t == exported(b)
<1>7. t \in Services /\ Sound(t) /\ ~t.verified
  BY <1>5, <1>6, RefreshedFacts, RefreshedKeeps, SoundRefreshed
<1>8. IF Fails(f, "backup")
      THEN files' = [files EXCEPT !.backup = b] /\ Leaves(f, wallet, service)
      ELSE /\ \E q \in ProfileSaved(f, t) : files' = [files EXCEPT !.backup = b, !.profile = q]
           /\ Leaves(f, wallet, t)
  BY <1>3
<1> HIDE DEF t, b, content
<1>9. CASE Fails(f, "backup")
  <2>1. files'.vault = files.vault /\ files'.profile = files.profile
    BY <1>8, <1>9 DEF WalletInv, Typed
  <2>2. Leaves(f, wallet, service) /\ Sound(service)
    BY <1>8, <1>9, SoundService
  <2>3. \A q \in files'.profile : q.backupAt <= now
    BY <2>1 DEF BackupParts, Dated
  <2>4. Dated' /\ Founded' /\ (f.kind = "crash" => phase' # "up")
    BY <1>2, <2>1, <2>2, <2>3, LeavesSound
  <2>5. f.kind = "crash" \/ kind' = "refused"
    BY <1>2, <1>9 DEF Fails, Meets, NoFault
  <2> QED
    BY <2>4, <2>5, NotUp, Refused DEF BackupParts
<1>10. CASE ~Fails(f, "backup")
  <2>1. PICK q \in ProfileSaved(f, t) : files' = [files EXCEPT !.backup = b, !.profile = q]
    BY <1>8, <1>10
  <2>2. files'.vault = files.vault /\ files'.profile = q /\ files'.backup = b
    BY <2>1 DEF WalletInv, Typed
  <2>3. (\A r \in q : r.backupAt <= now) /\ (phase # "up" => q = files.profile)
    BY <1>7, <2>1, ProfileDated DEF Sound, BackupParts
  <2>4. /\ Dated' /\ Founded' /\ (f.kind = "crash" => phase' # "up")
        /\ f.kind # "crash" => wallet' = wallet /\ service' = t /\ phase' = phase
    BY <1>2, <1>7, <1>8, <1>10, <2>2, <2>3, LeavesSound
  <2>5. CASE f.kind = "crash"
    BY <2>4, <2>5, NotUp DEF BackupParts
  <2>6. CASE f.kind = "refused"
    BY <1>2, <2>4, <2>6, Refused DEF BackupParts, Meets, NoFault
  <2>7. CASE f.kind \notin {"crash", "refused"}
    <3>1. wallet' = wallet /\ service' = t /\ phase' = phase
      BY <2>4, <2>7
    <3>2. OneKey'
      BY <1>2, <2>2, <3>1 DEF BackupParts, OneKey
    <3>3. history'.exportedTo = p
      <4> DEFINE unproven == FALSE
      <4>1. f # [kind |-> "refused", at |-> "backup"]
        BY <2>7
      <4>2. history' = IF f = [kind |-> "refused", at |-> "backup"] THEN history
                       ELSE [history EXCEPT !.exportedTo = p, !.unproven = unproven]
        BY DEF Export
      <4> HIDE DEF unproven
      <4> QED
        BY <4>1, <4>2 DEF WalletInv, Typed
    <3>4. SameKey(c.holds, id)
      BY <1>1, <1>4, <2>7, KeyFacts DEF Known
    <3>5. SameKey(c.holds, id) /\ SameKey(id, files.vault.holds) => SameKey(c.holds, files.vault.holds)
      BY <1>1, <1>4, <2>7 DEF SameKey, Key, Known
    <3>6. Current' => SameKey(id, files.vault.holds)
      BY <1>2, <3>1 DEF Current, BackupParts, OneKey
    <3>7. LastExportHolds'
      BY <1>6, <1>7, <2>2, <3>1, <3>3, <3>4, <3>5, <3>6 DEF LastExportHolds
    <3> QED
      BY <2>4, <3>2, <3>7 DEF BackupParts
  <2> QED
    BY <2>5, <2>6, <2>7
<1> QED
  BY <1>9, <1>10
LEMMA VerifyBackup ==
  ASSUME WalletInv, BackupParts, NEW p \in Paths, NEW f \in Faults, Verify(p, f)
  PROVE  BackupParts'
<1> DEFINE at == IF service.backupAt <= 0 THEN now ELSE service.backupAt
           yes == TRUE
           v == [service EXCEPT !.path = p, !.verified = yes, !.backupAt = at]
           s == Refreshed(v, files.backup)
<1>1. /\ files.backup \in Backups(made) /\ now \in 1..MaxTime /\ service \in Services
      /\ service.backupAt \in 0..MaxTime /\ p # NoPath /\ service.backupAt <= now
  BY WalletConstants DEF WalletInv, Typed, Services, BackupParts, Dated
<1>2. /\ Meets(f) /\ UNCHANGED <<now, sealed, made, kind>> /\ Leaves(f, wallet, s)
      /\ \E q \in ProfileSaved(f, s) : files' = [files EXCEPT !.profile = q]
      /\ files.backup[p].holds # 0
  BY DEF Verify, Readable
<1>3. history'.exportedTo = history.exportedTo
      /\ (~history'.unproven => ~history.unproven /\ p = history.exportedTo /\ ~(service.backupAt <= 0))
  BY DEF Verify, WalletInv, Typed
<1>4. at \in 0..MaxTime /\ at <= now /\ yes \in BOOLEAN /\ (service.backupAt > 0 => at = service.backupAt)
  BY <1>1
<1> HIDE DEF at, yes
<1>5. /\ v \in Services /\ v.backupAt = at /\ v.changedAt = service.changedAt /\ v.path = p
  BY <1>1, <1>4 DEF Services
<1> HIDE DEF v
<1>6. /\ s \in Services /\ Sound(s)
      /\ s.backupAt = at /\ s.changedAt = service.changedAt /\ s.path = p
  BY <1>1, <1>4, <1>5, RefreshedFacts, RefreshedKeeps, SoundRefreshed
<1> HIDE DEF s
<1>7. PICK q \in ProfileSaved(f, s) : files' = [files EXCEPT !.profile = q]
  BY <1>2
<1>8. files'.vault = files.vault /\ files'.backup = files.backup /\ files'.profile = q
  BY <1>7 DEF WalletInv, Typed
<1>9. (\A r \in q : r.backupAt <= now) /\ (phase # "up" => q = files.profile)
  BY <1>6, <1>7, ProfileDated DEF Sound, BackupParts
<1>10. /\ Dated' /\ Founded' /\ (f.kind = "crash" => phase' # "up")
       /\ f.kind # "crash" => wallet' = wallet /\ service' = s /\ phase' = phase
  BY <1>2, <1>6, <1>8, <1>9, LeavesSound
<1>11. CASE f.kind = "crash"
  BY <1>10, <1>11, NotUp DEF BackupParts
<1>12. CASE f.kind # "crash"
  <2>1. wallet' = wallet /\ service' = s /\ phase' = phase
    BY <1>10, <1>12
  <2>2. OneKey'
    BY <1>2, <1>8, <2>1 DEF BackupParts, OneKey
  <2>3. Current' => Current /\ p = history.exportedTo
    <3>1. Current' => /\ kind # "refused" /\ phase = "up" /\ ~history'.unproven
                      /\ s.backupAt > 0 /\ s.backupAt >= s.changedAt
      BY <1>2, <2>1 DEF Current
    <3> QED
      BY <1>1, <1>3, <1>4, <1>6, <3>1 DEF Current
  <2>4. LastExportHolds'
    BY <1>2, <1>3, <1>6, <1>8, <2>1, <2>3 DEF BackupParts, LastExportHolds
  <2> QED
    BY <1>10, <2>2, <2>4 DEF BackupParts
<1> QED
  BY <1>11, <1>12

\* Import and recovery leave a verified backup of the identity they read from it; a nuke
\* leaves a key that is newer than every backup, unless one is dated this second.
LEMMA ReplaceBackup ==
  ASSUME WalletInv, BackupParts, NEW f \in Faults, NEW id \in Int, NEW before \in Services,
         NEW after \in Services, Sound(before), after.backupAt <= now, UNCHANGED <<now, kind>>,
         \/ /\ after.verified /\ after.path \in Paths
            /\ files.backup[after.path].holds = id /\ id # 0
         \/ ~after.verified /\ after.changedAt = now,
         ReplaceIdentity(f, id, before, after)
  PROVE  BackupParts'
<1> DEFINE s == Refreshed(after, files.backup)
           w == [identity |-> id, ready |-> TRUE]
<1>1. files.backup \in Backups(made) /\ now \in 1..MaxTime
  BY DEF WalletInv, Typed
<1>2. Meets(f) /\ f.at \in {"none", "vault", "profile"}
  BY DEF ReplaceIdentity
<1>3. /\ s \in Services /\ Sound(s) /\ s.backupAt = after.backupAt
      /\ s.changedAt = after.changedAt /\ s.path = after.path /\ (s.verified => after.verified)
  BY <1>1, RefreshedFacts, RefreshedKeeps, SoundRefreshed
<1>4. PICK v \in VaultPersisted(f, id, before.passphrase) :
        IF Fails(f, "vault")
        THEN /\ files' = [files EXCEPT !.vault = v]
             /\ Leaves(f, [wallet EXCEPT !.identity = id], before)
        ELSE /\ \E q \in ProfileSaved(f, s) : files' = [files EXCEPT !.vault = v, !.profile = q]
             /\ Leaves(f, w, s)
  BY DEF ReplaceIdentity
<1>5. w.identity = id
  OBVIOUS
<1> HIDE DEF s, w
<1>6. v = files.vault \/ v.exists
  <2> DEFINE holds == IF sealed THEN {0} ELSE Cut(id, f)
             cuts == [exists : {TRUE}, holds : holds, pass : {before.passphrase}]
  <2>1. f.at # "vault" \/ f.kind \in {"crash", "refused", "short"}
    BY DEF Faults, Fault, NoFault
  <2>2. v \in {files.vault, [exists |-> TRUE, holds |-> id, pass |-> before.passphrase]} \cup cuts
    BY <2>1 DEF VaultPersisted, Written
  <2>3. \A c \in cuts : c.exists
    OBVIOUS
  <2> HIDE DEF cuts
  <2> QED
    BY <2>2, <2>3
<1>7. CASE Fails(f, "vault")
  <2>1. files'.vault = v /\ files'.profile = files.profile
    BY <1>4, <1>7 DEF WalletInv, Typed
  <2>2. \A q \in files'.profile : q.backupAt <= now
    BY <2>1 DEF BackupParts, Dated
  <2>3. Leaves(f, [wallet EXCEPT !.identity = id], before)
    BY <1>4, <1>7
  <2>4. Dated' /\ Founded' /\ (f.kind = "crash" => phase' # "up")
    BY <1>6, <2>1, <2>2, <2>3, LeavesSound
  <2>5. f.kind = "crash" \/ kind' = "refused"
    BY <1>2, <1>7 DEF Fails, Meets, NoFault
  <2> QED
    BY <2>4, <2>5, NotUp, Refused DEF BackupParts
<1>8. CASE ~Fails(f, "vault")
  <2>1. PICK q \in ProfileSaved(f, s) : files' = [files EXCEPT !.vault = v, !.profile = q]
    BY <1>4, <1>8
  <2>2. files'.vault = v /\ files'.profile = q /\ files'.backup = files.backup
    BY <2>1 DEF WalletInv, Typed
  <2>3. (\A r \in q : r.backupAt <= now) /\ (phase # "up" => q = files.profile)
    BY <1>3, <2>1, ProfileDated DEF Sound, BackupParts
  <2>4. /\ Dated' /\ Founded' /\ (f.kind = "crash" => phase' # "up")
        /\ f.kind # "crash" => wallet' = w /\ service' = s /\ phase' = phase
    BY <1>3, <1>4, <1>6, <1>8, <2>2, <2>3, LeavesSound
  <2>5. CASE f.kind = "crash"
    BY <2>4, <2>5, NotUp DEF BackupParts
  <2>6. CASE f.kind = "refused"
    BY <1>2, <2>4, <2>6, Refused DEF BackupParts, Meets, NoFault
  <2>7. CASE f.kind \notin {"crash", "refused"}
    <3>1. wallet'.identity = id /\ service' = s
      BY <1>5, <2>4, <2>7
    <3>2. SameKey(id, v.holds) /\ SameKey(id, id)
      BY <2>7, VaultHolds, KeyFacts
    <3>3. OneKey'
      BY <2>2, <3>1, <3>2 DEF OneKey
    <3>4. /\ history'.exportedTo = IF after.verified THEN after.path ELSE history.exportedTo
          /\ ~history'.unproven => ~(~after.verified /\ after.backupAt = now)
      <4> DEFINE x == IF after.verified THEN after.path ELSE history.exportedTo
                 u == ~after.verified /\ after.backupAt = now
                 a == IF history.author = Key(id) THEN history.author ELSE 0
      <4>1. history' = [history EXCEPT !.exportedTo = x, !.unproven = u, !.author = a]
        BY DEF ReplaceIdentity
      <4> HIDE DEF x, u, a
      <4>2. history'.exportedTo = x /\ history'.unproven = u
        BY <4>1 DEF WalletInv, Typed
      <4> QED
        BY <4>2 DEF x, u
    <3>5. CASE after.verified
      <4>1. /\ after.path \in Paths /\ files.backup[after.path].holds = id /\ id # 0
        BY <3>5
      <4>2. history'.exportedTo = after.path /\ service'.path = after.path
        BY <1>3, <3>1, <3>4, <3>5
      <4>3. LastExportHolds'
        BY <2>2, <3>1, <3>2, <4>1, <4>2 DEF LastExportHolds
      <4> QED
        BY <2>4, <3>3, <4>3 DEF BackupParts
    <3>6. CASE ~after.verified /\ after.changedAt = now
      <4>1. after.backupAt \in Int /\ now \in Int
        BY <1>1 DEF Services
      <4>2. Current' => /\ ~history'.unproven /\ s.backupAt >= s.changedAt
        BY <3>1 DEF Current
      <4>3. ~Current'
        BY <1>3, <3>4, <3>6, <4>1, <4>2
      <4> QED
        BY <2>4, <3>3, <4>3 DEF LastExportHolds, BackupParts
    <3> QED
      BY <3>5, <3>6
  <2> QED
    BY <2>5, <2>6, <2>7
<1> QED
  BY <1>7, <1>8
LEMMA ImportsBackup ==
  ASSUME WalletInv, BackupParts, NEW p \in Paths, NEW f \in Faults, NEW before \in Services,
         Sound(before), Imports(p, before, f)
  PROVE  BackupParts'
<1> DEFINE id == files.backup[p].holds
           yes == TRUE
           after == [before EXCEPT !.path = p, !.verified = yes, !.backupAt = now, !.changedAt = now]
<1>1. /\ id # 0 /\ UNCHANGED <<now, sealed, made, kind>> /\ AfterImport(before, p) = after
      /\ ReplaceIdentity(f, id, before, AfterImport(before, p))
  BY DEF Imports, Readable, AfterImport
<1>2. id \in Int /\ now \in 0..MaxTime /\ now <= now /\ yes \in BOOLEAN /\ yes
  <2>1. files.backup \in Backups(made) /\ now \in 1..MaxTime /\ made \in 0..MaxIdentity
    BY DEF WalletInv, Typed
  <2> QED
    BY <2>1, WalletConstants DEF Backups, Known
<1> HIDE DEF yes
<1>3. after \in Services /\ after.backupAt = now /\ after.path = p /\ after.verified
  BY <1>2 DEF Services
<1>4. files.backup[p].holds = id
  OBVIOUS
<1> HIDE DEF id, after
<1> QED
  BY <1>1, <1>2, <1>3, <1>4, ReplaceBackup

LEMMA ImportBackup ==
  ASSUME WalletInv, BackupParts, NEW p \in Paths, NEW f \in Faults, Import(p, f)
  PROVE  BackupParts'
  BY ImportsBackup, SoundService DEF Import, WalletInv, Typed

LEMMA RecoverBackup ==
  ASSUME WalletInv, BackupParts, NEW p \in Paths, NEW f \in Faults, NEW pass \in Passphrases,
         Recover(p, pass, f)
  PROVE  BackupParts'
<1> DEFINE before == [service EXCEPT !.passphrase = pass]
<1>1. service \in Services
  BY DEF WalletInv, Typed
<1>2. /\ before \in Services /\ before.backupAt = service.backupAt
      /\ before.changedAt = service.changedAt /\ before.path = service.path
      /\ before.verified = service.verified /\ before.complete = service.complete
  BY <1>1 DEF Services
<1>3. Imports(p, before, f)
  BY DEF Recover
<1> HIDE DEF before
<1>4. Sound(before)
  BY <1>2, SoundService DEF Sound
<1> QED
  BY <1>2, <1>3, <1>4, ImportsBackup

LEMMA NukeBackup ==
  ASSUME WalletInv, BackupParts, NEW f \in Faults, Nuke(f) PROVE BackupParts'
<1> DEFINE no == FALSE
           after == [service EXCEPT !.changedAt = now, !.verified = no]
<1>1. /\ UNCHANGED <<now, sealed, kind>> /\ made' = made + 1 /\ AfterNuke(service) = after
      /\ ReplaceIdentity(f, made', service, AfterNuke(service))
  BY DEF Nuke, Generated, AfterNuke
<1>2. /\ made' \in Int /\ service \in Services /\ service.backupAt <= now
      /\ now \in 0..MaxTime /\ no \in BOOLEAN /\ ~no
  BY <1>1, WalletConstants DEF WalletInv, Typed, BackupParts, Dated
<1> HIDE DEF no
<1>3. /\ after \in Services /\ after.backupAt <= now /\ ~after.verified /\ after.changedAt = now
  BY <1>2 DEF Services
<1> HIDE DEF after
<1> QED
  BY <1>1, <1>2, <1>3, SoundService, ReplaceBackup

LEMMA NextBackup == ASSUME WalletInv, BackupParts, [Next]_vars PROVE BackupParts'
<1>1. CASE UNCHANGED vars
  BY <1>1, StutterBackup
<1>2. CASE Tick \/ Stop \/ StartFromVault \/ Mutate
  BY <1>2, TickBackup, StopBackup, StartFromVaultBackup, MutateBackup
<1>3. CASE \E pass \in Passphrases : UnlockFails(pass) \/ RecoverFails(pass)
  BY <1>3, UnlockFailsBackup, RecoverFailsBackup
<1>4. ASSUME NEW f \in Faults, StartWithNewVault(f) \/ Nuke(f)
      PROVE  BackupParts'
  BY <1>4, StartWithNewVaultBackup, NukeBackup
<1>5. ASSUME NEW f \in Faults, Lock(f) PROVE BackupParts'
  <2> DEFINE w == [wallet EXCEPT !.ready = FALSE]
  <2>1. w.identity \in {wallet.identity, files.vault.holds}
    BY DEF WalletInv, Typed, Wallets
  <2>2. /\ \E q \in ProfileSaved(f, Refreshed(service, files.backup)) :
             files' = [files EXCEPT !.profile = q]
        /\ Leaves(f, w, Refreshed(service, files.backup))
        /\ UNCHANGED <<now, kind, history>>
    BY <1>5 DEF Lock
  <2> HIDE DEF w
  <2> QED
    BY <2>1, <2>2, LockBackup
<1>6. ASSUME NEW f \in Faults, NEW pass \in Passphrases, Unlock(pass, f) PROVE BackupParts'
  <2>1. [identity |-> files.vault.holds, ready |-> TRUE].identity
          \in {wallet.identity, files.vault.holds}
    OBVIOUS
  <2> QED
    BY <1>6, <2>1, LockBackup DEF Unlock
<1>7. ASSUME NEW f \in Faults, NEW p \in Paths,
             \/ Export(p, f) \/ Verify(p, f) \/ Import(p, f)
             \/ \E pass \in Passphrases : Recover(p, pass, f)
      PROVE  BackupParts'
  BY <1>7, ExportBackup, VerifyBackup, ImportBackup, RecoverBackup
<1>8. FaultsToCome \subseteq Faults
  BY DEF FaultsToCome, Faults
<1> QED
  BY <1>1, <1>2, <1>3, <1>4, <1>5, <1>6, <1>7, <1>8 DEF Next

\* Through every order of exports, verifications, imports, recoveries, nukes, locks and
\* restarts, whatever stops or short writes they meet, a wallet that is open for
\* operations that make events has a backup of its key, but for the cases that
\* OpenIsBackedUp names (ensure_wallet_ready_for_mutation, refresh_backup_state).
THEOREM OpenAlwaysBackedUp == Spec => []OpenIsBackedUp
<1>1. Init => WalletInv /\ BackupParts
  BY InitInv, InitBackup
<1>2. (WalletInv /\ BackupParts) /\ [Next]_vars => (WalletInv /\ BackupParts)'
  BY NextInv, NextBackup
<1>3. WalletInv /\ BackupParts => OpenIsBackedUp
  <2> SUFFICES ASSUME BackupParts, phase = "up", service.complete, wallet.identity # 0,
                      kind # "refused", ~history.unproven
               PROVE  Key(files.backup[service.path].holds) = Key(wallet.identity)
    BY DEF OpenIsBackedUp
  <2>1. Current /\ service.verified
    BY DEF BackupParts, Founded, Current
  <2> QED
    BY <2>1 DEF BackupParts, LastExportHolds, SameKey
<1> QED
  BY <1>1, <1>2, <1>3, PTL DEF Spec
=============================================================================
