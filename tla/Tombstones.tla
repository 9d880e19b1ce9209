------------------------------- MODULE Tombstones -------------------------------
(***************************************************************************)
(* The receiver's completion ledger (internal/drop/tombstone.go).  Record  *)
(* updates the in-memory map and copies it under the mutex, then writes    *)
(* the copy to tombstones.json after the mutex is released, so the writes  *)
(* of two receive sessions may land in either order.  Where a file cannot  *)
(* be renamed onto another, the old one is first moved aside.  A restart   *)
(* reloads whatever the file holds, or nothing.                            *)
(*                                                                         *)
(* An entry's metadata is one value: Matches compares kind, name, size,    *)
(* MIME type, chunk size and head hash, and the properties only tell equal *)
(* from different.  The ledger is a sequence ordered by completion time.   *)
(* The 24-hour retention is not modelled: a behaviour is shorter than it.  *)
(***************************************************************************)
EXTENDS Integers, SequencesExt

CONSTANTS
    Writers,        \* receive sessions, each records at most once at a time
    Keys,           \* idempotency keys
    Metas,          \* transfer metadata values
    Digests,        \* payload SHA-256 values
    MaxEntries      \* maxTombstoneEntries

VARIABLES
    entries,        \* s.entries, oldest completion first
    file,           \* {the ledger in tombstones.json}, or {} when there is none
    aside,          \* [session -> {the ledger it moved aside}, or {}]
    snapshot,       \* {the copy the session still has to write}, or {}
    lastPersistErr  \* s.lastPersistErr # nil

tombVars == <<entries, file, aside, snapshot, lastPersistErr>>

Entry == [key : Keys, meta : Metas, sha : Digests]

KeysOf(ledger) == {ledger[i].key : i \in DOMAIN ledger}
KnownKey(k) == k \in KeysOf(entries)
EntryOf(k) == entries[CHOOSE i \in DOMAIN entries : entries[i].key = k]

Ledger == {l \in UNION {[1 .. n -> Entry] : n \in 0 .. MaxEntries} :
              \A i, j \in DOMAIN l : l[i].key = l[j].key => i = j}

OneAtMost(ledgers) == ledgers = {} \/ \E l \in Ledger : ledgers = {l}

TombTypeOK ==
    /\ entries \in Ledger
    /\ OneAtMost(file)
    /\ \A w \in Writers : OneAtMost(snapshot[w]) /\ OneAtMost(aside[w])
    /\ lastPersistErr \in BOOLEAN

TombInit ==
    /\ entries = <<>>
    /\ file = {}
    /\ aside = [w \in Writers |-> {}]
    /\ snapshot = [w \in Writers |-> {}]
    /\ lastPersistErr = FALSE

-----------------------------------------------------------------------------
\* pruneLocked: beyond the cap the oldest completions go.
Pruned(ledger) ==
    LET excess == Len(ledger) - MaxEntries IN
    IF excess > 0 THEN SubSeq(ledger, excess + 1, Len(ledger)) ELSE ledger

\* A record replaces the entry of its key.
Recorded(ledger, e) ==
    LET old  == {i \in DOMAIN ledger : ledger[i].key = e.key}
        kept == IF old = {} THEN ledger ELSE RemoveAt(ledger, CHOOSE i \in old : TRUE)
    IN  Pruned(Append(kept, e))

\* Record, under the mutex.
Record(w, e) ==
    /\ snapshot[w] = {}
    /\ entries' = Recorded(entries, e)
    /\ snapshot' = [snapshot EXCEPT ![w] = {entries'}]
    /\ UNCHANGED <<file, aside, lastPersistErr>>

\* Record, after the mutex: writeTombstoneFile renames its copy to the ledger's
\* name; a file it had moved aside goes.
Persist(w) ==
    /\ snapshot[w] # {} /\ file' = snapshot[w]
    /\ snapshot' = [snapshot EXCEPT ![w] = {}] /\ aside' = [aside EXCEPT ![w] = {}]
    /\ UNCHANGED <<entries, lastPersistErr>>

\* The rename is refused: the file in the way is moved aside for a second try.
MoveAside(w) ==
    /\ snapshot[w] # {} /\ aside[w] = {} /\ file # {}
    /\ aside' = [aside EXCEPT ![w] = file] /\ file' = {}
    /\ UNCHANGED <<entries, snapshot, lastPersistErr>>

\* Writing fails; a file moved aside is put back, if that succeeds.
PersistFails(w) ==
    /\ snapshot[w] # {}
    /\ file' = file \/ (aside[w] # {} /\ file' = aside[w])
    /\ lastPersistErr' = TRUE
    /\ snapshot' = [snapshot EXCEPT ![w] = {}] /\ aside' = [aside EXCEPT ![w] = {}]
    /\ UNCHANGED entries

\* The process ends and a new one loads the file (NewTombstones, load); a file
\* that is missing, unreadable, too large or no ledger leaves it with nothing.
Restart ==
    /\ entries' = <<>> \/ \E l \in file : entries' = Pruned(l)
    /\ snapshot' = [w \in Writers |-> {}] /\ aside' = [w \in Writers |-> {}]
    /\ lastPersistErr' = FALSE
    /\ UNCHANGED file

TombNext ==
    \/ \E w \in Writers :
        \/ \E e \in Entry : Record(w, e)
        \/ Persist(w) \/ MoveAside(w) \/ PersistFails(w)
    \/ Restart

TombSpec == TombInit /\ [][TombNext]_tombVars

-----------------------------------------------------------------------------
\* When no write is pending and none failed, the file holds every completion
\* there is: a restart that can read it keeps every suppression (the comment on
\* LastPersistError: without an error the ledger is durable).
SettledLedgerIsDurable ==
    (~lastPersistErr /\ \A w \in Writers : snapshot[w] = {})
        => entries = <<>> \/ file = {entries}
=============================================================================
