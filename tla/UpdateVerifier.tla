---------------------------- MODULE UpdateVerifier ----------------------------
(***************************************************************************)
(* What decides that a release may be installed (vbuff-update): signed       *)
(* manifests arrive late, again and in any order; each accepted one raises a *)
(* watermark and may hand over to a new key, and is stored in one file whose *)
(* write may fail, whose process may die, and which may be damaged, written  *)
(* by a newer build or removed by the operator.                              *)
(***************************************************************************)
EXTENDS Integers, FiniteSets

CONSTANTS
    KeyIds,         \* signing keys
    FirstKey,       \* the key of the bootstrap keyring
    MaxSequence,    \* bound: release sequences and versions
    MaxDecays       \* bound: what happens to the file from outside

ASSUME UpdateAssumption ==
    FirstKey \in KeyIds /\ MaxSequence \in Nat \ {0} /\ MaxDecays \in Nat

VARIABLES
    verifier,    \* [open, keyring, highest] of the process
    stateFile,   \* [is, keyring, highest]: "absent", "whole", or "damaged" for load
    version,     \* what is installed
    due,         \* the accepted update that is not installed, or NoUpdate
    history,     \* ghost: [top, keyring]: the last acceptance the caller saw
    decays

updVars == <<verifier, stateFile, version, due, history, decays>>

Forever == MaxSequence + 10
NoUpdate == 0
Sequences == 1..MaxSequence
Bootstrap == [k \in {FirstKey} |-> [from |-> 0, until |-> Forever]]
Closed == [open |-> FALSE, keyring |-> Bootstrap, highest |-> 0]

UpdInit ==
    /\ verifier = Closed
    /\ stateFile = [is |-> "absent", keyring |-> Bootstrap, highest |-> 0]
    /\ version = 1 /\ due = NoUpdate
    /\ history = [top |-> 0, keyring |-> Bootstrap]
    /\ decays = 0

-----------------------------------------------------------------------------
\* A manifest that passes validate: `next` is the key it hands over to, or its
\* own where it names none.  Signatures and confirmations are genuine or not.
Manifests ==
    [key : KeyIds, genuine : BOOLEAN, sequence : Sequences, version : Sequences,
     least : Sequences, next : KeyIds, confirmed : BOOLEAN, at : 2..MaxSequence + 1]

Rotates(m) == m.next # m.key
Plain(m) == ~Rotates(m) => m.confirmed /\ m.at = m.sequence + 1
Valid(m) == m.at > m.sequence /\ Plain(m)

\* active_key
Active(keyring, k, sequence) ==
    k \in DOMAIN keyring /\ keyring[k].from <= sequence /\ sequence < keyring[k].until

\* revoke: an earlier revocation stands.
Superseded(keyring, old, at) ==
    [keyring EXCEPT ![old].until = IF @ < at THEN @ ELSE at]

\* trust, then revoke: the old key ends where the new one begins.
Rotated(keyring, m) ==
    IF ~Rotates(m) THEN keyring
    ELSE Superseded([k \in DOMAIN keyring \cup {m.next} |->
                        IF k = m.next THEN [from |-> m.at, until |-> Forever] ELSE keyring[k]],
                    m.key, m.at)

\* verify: the key, the signature, the watermark, the installed version, the
\* oldest client, the new key's own confirmation, and an id never used before.
Verifies(v, m) ==
    /\ Active(v.keyring, m.key, m.sequence) /\ m.genuine
    /\ m.sequence > v.highest
    /\ m.version > version /\ m.least <= version
    /\ Rotates(m) => m.confirmed /\ m.next \notin DOMAIN v.keyring

\* verify_and_store.  A write that fails leaves the old file, or, when only the
\* last step of the commit is reported as failed, the new one.
VerifyAndStore(m) ==
    /\ verifier.open /\ Valid(m) /\ Verifies(verifier, m)
    /\ LET keyring == Rotated(verifier.keyring, m)
           written == [is |-> "whole", keyring |-> keyring, highest |-> m.sequence]
       IN
         \/ /\ stateFile' = written
            /\ verifier' = [verifier EXCEPT !.keyring = keyring, !.highest = m.sequence]
            /\ due' = m.version
            /\ history' = [top |-> m.sequence, keyring |-> keyring]
            /\ UNCHANGED <<version, decays>>
         \/ stateFile' = written /\ UNCHANGED <<verifier, version, due, history, decays>>

\* load: only a file that is not there starts from the bootstrap keyring.
Load ==
    /\ ~verifier.open /\ stateFile.is \in {"absent", "whole"}
    /\ verifier' = [open |-> TRUE, keyring |-> stateFile.keyring, highest |-> stateFile.highest]
    /\ UNCHANGED <<stateFile, version, due, history, decays>>

\* The caller installs what was accepted; the rollout may leave it out.
Install ==
    /\ verifier.open /\ due # NoUpdate
    /\ version' \in {version, due} /\ due' = NoUpdate
    /\ UNCHANGED <<verifier, stateFile, history, decays>>

\* A death, and what it forgets.
Restart ==
    /\ verifier.open
    /\ verifier' = Closed /\ due' = NoUpdate
    /\ UNCHANGED <<stateFile, version, history, decays>>

\* Truncated, edited, without a schema or of a newer one: never rewritten.
FileDecays ==
    /\ decays < MaxDecays /\ stateFile.is = "whole" /\ ~verifier.open
    /\ stateFile' = [stateFile EXCEPT !.is = "damaged"]
    /\ decays' = decays + 1
    /\ UNCHANGED <<verifier, version, due, history>>

\* The operator removes the file to provision anew: what was accepted before
\* may be replayed, as far as the installed version lets it.
Reprovision ==
    /\ decays < MaxDecays /\ stateFile.is = "damaged" /\ ~verifier.open
    /\ stateFile' = [is |-> "absent", keyring |-> Bootstrap, highest |-> 0]
    /\ history' = [top |-> 0, keyring |-> Bootstrap]
    /\ decays' = decays + 1
    /\ UNCHANGED <<verifier, version, due>>

UpdNext ==
    \/ \E m \in Manifests : VerifyAndStore(m)
    \/ Load \/ Install \/ Restart \/ FileDecays \/ Reprovision

UpdSpec == UpdInit /\ [][UpdNext]_updVars

-----------------------------------------------------------------------------
Keyrings(ring) ==
    /\ DOMAIN ring \subseteq KeyIds
    /\ \A k \in DOMAIN ring : ring[k].from \in 0..Forever /\ ring[k].until \in 0..Forever

UpdTypeOK ==
    /\ Keyrings(verifier.keyring) /\ Keyrings(stateFile.keyring)
    /\ verifier.highest \in 0..MaxSequence /\ stateFile.highest \in 0..MaxSequence
    /\ version \in Sequences /\ due \in 0..MaxSequence

\* A key once retired signs nothing at or above the sequence it ended at: not
\* in memory, not in the file a restart reads (UpdateKeyring::revoke).
RetiredStaysRetired ==
    LET Remembers(ring) ==
            \A k \in DOMAIN history.keyring :
                k \in DOMAIN ring /\ ring[k].until <= history.keyring[k].until
    IN  /\ verifier.open => Remembers(verifier.keyring)
        /\ Remembers(stateFile.keyring)

\* What was accepted is not accepted again after any failure or restart: memory
\* and file never fall behind what the caller was told (verify_and_store).
WatermarkCoversAccepted ==
    /\ verifier.open => history.top <= verifier.highest
    /\ history.top <= stateFile.highest

\* However rotations overlap, some key can sign every release to come: the
\* verifier never locks itself out (verify: trust, then revoke).
SomeoneCanSign ==
    \A s \in Sequences : s > verifier.highest =>
        \E k \in DOMAIN verifier.keyring : Active(verifier.keyring, k, s)

\* A downgrade is not due: what waits to be installed is newer.
DueIsNewer == due # NoUpdate => due > version

UpdateSafety ==
    /\ UpdTypeOK /\ RetiredStaysRetired /\ WatermarkCoversAccepted /\ SomeoneCanSign
    /\ DueIsNewer
=============================================================================
