------------------------------ MODULE Archive -------------------------------
(***************************************************************************)
(* The bucket as the tools see it (ndjson.py, retry.py): keys, what a LIST *)
(* returns page by page, and the attempts of one S3 call.                  *)
(*                                                                         *)
(* A key is a record: its root, "raw" or "_log"; the day its path names, 0 *)
(* when it names none; `name', where its path sorts among those of its     *)
(* root; its protocol, "" when its file name is not three parts; `cid',    *)
(* its content; for _log the application and the number of its segments.   *)
(* Days count from 1.                                                      *)
(***************************************************************************)
EXTENDS Integers, Sequences, FiniteSets, FiniteSetsExt, SequencesExt

CONSTANTS
  Attempts,                        \* DEFAULT_ATTEMPTS
  MaxDaysToListIndividually,
  PageSize                         \* keys a LIST answers at most

ASSUME ArchiveAssumption ==
  /\ Attempts \in Nat \ {0}
  /\ MaxDaysToListIndividually \in Nat
  /\ PageSize \in Nat \ {0}

VARIABLE bucket    \* the keys that exist; no credential here can delete

(* record_line, gzip_and_id_stream, s3_key: one day's records make one key, *)
(* content-addressed by the lines in their order.                          *)
S3Key(proto, day, name, lines) ==
  [root |-> "raw", day |-> day, name |-> name, proto |-> proto, cid |-> lines]

(* with_retries: a transient failure is raised only by the last attempt, a *)
(* permanent one (NON_RETRYABLE_CODES) at once.                            *)
Failures == {"transient", "permanent"}
GivesUp(failure, attempt) == failure = "permanent" \/ attempt = Attempts

----------------------------------------------------------------------------
(* Listings.  A prefix is the set of a day of raw/ or of an application of *)
(* _log/, or Everything.                                                   *)
Everything == {}
All == "all"

Under(root, prefix, k) ==
  /\ k.root = root
  /\ prefix = Everything \/ IF root = "raw" THEN k.day \in prefix ELSE k.segments = 6 /\ k.app \in prefix

\* LIST answers in the order of the keys.
Precedes(k, m) == k.name < m.name

\* Where a LIST continues: everything not yet answered.
Remaining(root, prefix, after) ==
  {k \in bucket : Under(root, prefix, k) /\ \A m \in after : Precedes(m, k)}

\* What it may answer next: the first of these keys, PageSize at most.
Pages(keys) ==
  {p \in SUBSET keys : /\ p # {} /\ Cardinality(p) <= PageSize
                       /\ \A k \in p, m \in keys \ p : Precedes(k, m)}

\* Mutant: `while day < until'.
ListPrefixesShort(since, until) ==
  IF since <= until /\ until - since + 1 <= MaxDaysToListIndividually
  THEN [i \in 1..(until - since) |-> {since + i - 1}] ELSE <<Everything>>

(* iter_keys: one listing per day, or one of everything.                  *)
ListPrefixes(since, until) ==
  IF since <= until /\ until - since + 1 <= MaxDaysToListIndividually
  THEN [i \in 1..(until - since + 1) |-> {since + i - 1}] ELSE <<Everything>>

(* What iter_keys does with a listed key: key_date is asked of a listing of *)
(* everything, key_proto when one protocol is wanted, and both raise.       *)
RawKeyRaises(k, prefix, q) ==
  \/ prefix = Everything /\ k.day = 0
  \/ q.proto # All /\ (prefix = Everything => q.since <= k.day /\ k.day <= q.until) /\ k.proto = ""
RawKeyWanted(k, prefix, q) ==
  /\ prefix = Everything => q.since <= k.day /\ k.day <= q.until
  /\ q.proto \in {All, k.proto}

(* ... and iter_log_keys, which skips what it cannot date.                *)
LogKeyWanted(k, q) ==
  k.segments \in {5, 6} /\ k.day # 0 /\ q.since <= k.day /\ k.day <= q.until
=============================================================================
