------------------------------- MODULE KeyFiles -------------------------------
(***************************************************************************)
(* The two files in which a relay and the proxy keep their RSA keys, each  *)
(* process under a name of its own (src/Node/RSA_Communication.cpp,        *)
(* src/ProxyServer/RSA_Communication.cpp).  generateKeys leaves alone a    *)
(* pair of files that exist, whatever is in them; otherwise it makes a     *)
(* pair and writes it through buffered files, so that both are created     *)
(* empty first and filled when they are closed.  Killed in between, the    *)
(* process leaves what is on disk by then to its next start.               *)
(*                                                                         *)
(* A key pair is the number of its generation; both halves have it.        *)
(***************************************************************************)
EXTENDS Naturals

CONSTANTS
    Procs,
    MaxPairs,       \* bound: key pairs a process makes; then generation fails
    Absent, Empty   \* there is no such file; the file has nothing in it

ASSUME PairsAssumption == MaxPairs \in Nat

ASSUME ContentsAssumption == Absent # Empty /\ {Absent, Empty} \cap Nat = {}

Contents == {Absent, Empty} \cup Nat

VARIABLES
    file,   \* [Procs -> the public and the private key file]
    kpc,    \* [Procs -> where the process is in generateKeys and the constructor]
    made,   \* [Procs -> the number of pairs it has generated]
    keys    \* [Procs -> the texts its RSA_Communication has read]

keyVars == <<file, kpc, made, keys>>

KeyInit ==
    /\ file = [p \in Procs |-> [pub |-> Absent, priv |-> Absent]]
    /\ kpc = [p \in Procs |-> "off"]
    /\ made = [p \in Procs |-> 0]
    /\ keys = [p \in Procs |-> [pub |-> Absent, priv |-> Absent]]

\* Mutant: the check is commented out, as in ProxyClient/RSA_Communication.cpp:101.
NeverReused(f) == FALSE

BothExist(f) == f.pub # Absent /\ f.priv # Absent

KeyStep(p, from, to) == kpc[p] = from /\ kpc' = [kpc EXCEPT ![p] = to]

\* A constructor is entered: the first time, or again for another connection.
Enter(p) ==
    /\ kpc[p] \in {"off", "ready"}
    /\ kpc' = [kpc EXCEPT ![p] = "look"]
    /\ UNCHANGED <<file, made, keys>>

Reuse(p) ==
    /\ BothExist(file[p])
    /\ KeyStep(p, "look", "load")
    /\ UNCHANGED <<file, made, keys>>

Generate(p) ==
    /\ ~BothExist(file[p]) /\ made[p] < MaxPairs
    /\ KeyStep(p, "look", "create")
    /\ made' = [made EXCEPT ![p] = @ + 1]
    /\ UNCHANGED <<file, keys>>

\* No prime found, or the file cannot be opened: the constructor goes on.
GenerateFails(p) ==
    /\ ~BothExist(file[p])
    /\ KeyStep(p, "look", "load")
    /\ UNCHANGED <<file, made, keys>>

CreatePublic(p) ==
    /\ KeyStep(p, "create", "createPrivate")
    /\ file' = [file EXCEPT ![p].pub = Empty]
    /\ UNCHANGED <<made, keys>>

\* The result of the second BIO_new_file is not looked at either.
CreatePrivate(p) ==
    /\ KeyStep(p, "createPrivate", "savePublic")
    /\ file' = [file EXCEPT ![p].priv = Empty] \/ UNCHANGED file
    /\ UNCHANGED <<made, keys>>

SavePublic(p) ==
    /\ KeyStep(p, "savePublic", "savePrivate")
    /\ file' = [file EXCEPT ![p].pub = made[p]]
    /\ UNCHANGED <<made, keys>>

SavePrivate(p) ==
    /\ KeyStep(p, "savePrivate", "load")
    /\ file' = [file EXCEPT ![p].priv = IF @ = Absent THEN Absent ELSE made[p]]
    /\ UNCHANGED <<made, keys>>

\* Mutant: a public key that was read once is kept.
LoadPublicOnce(p) ==
    /\ kpc[p] \in {"load", "ready"}
    /\ kpc' = [kpc EXCEPT ![p] = "ready"]
    /\ keys' = [keys EXCEPT ![p].pub = IF @ = Absent THEN file[p].pub ELSE @,
                            ![p].priv = file[p].priv]
    /\ UNCHANGED <<file, made>>

\* A relay reads after generateKeys, the proxy for each client anew.
Load(p) ==
    /\ kpc[p] \in {"load", "ready"}
    /\ kpc' = [kpc EXCEPT ![p] = "ready"]
    /\ keys' = [keys EXCEPT ![p] = file[p]]
    /\ UNCHANGED <<file, made>>

\* The process ends: what was buffered is lost, the files stay.
Forget(p) ==
    /\ kpc' = [kpc EXCEPT ![p] = "off"]
    /\ keys' = [keys EXCEPT ![p] = [pub |-> Absent, priv |-> Absent]]
    /\ UNCHANGED <<file, made>>

KeyWork(p) ==
    \/ Reuse(p) \/ Generate(p) \/ GenerateFails(p) \/ CreatePublic(p) \/ CreatePrivate(p)
    \/ SavePublic(p) \/ SavePrivate(p) \/ Load(p)

------------------------------------------------------------------------------
(* Properties.                                                             *)

KeyTypeOK ==
    /\ file \in [Procs -> [pub : Contents, priv : Contents]]
    /\ kpc \in [Procs -> {"off", "look", "create", "createPrivate", "savePublic",
                         "savePrivate", "load", "ready"}]
    /\ made \in [Procs -> 0..MaxPairs]
    /\ keys \in [Procs -> [pub : Contents, priv : Contents]]

Complete(f) == f.pub \in Nat /\ f.priv \in Nat

\* The halves a process has read belong together, wherever earlier runs of it
\* were killed: a message under the public key it hands out can be read with
\* its private key (Node/RSA_Communication.cpp:12-13, 139-201).
KeysBelongTogether ==
    \A p \in Procs : Complete(keys[p]) => keys[p].pub = keys[p].priv

\* A pair that is on disk is never replaced: whoever was told the public key
\* may use it after a restart (Node/RSA_Communication.cpp:150-153).
KeysStable ==
    [][\A p \in Procs : Complete(file[p]) => file'[p] = file[p]]_keyVars
=============================================================================
