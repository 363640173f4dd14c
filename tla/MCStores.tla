------------------------------ MODULE MCStores ------------------------------
(***************************************************************************)
(* The two durable stores.  A behaviour is one of the file store or one of *)
(* the shared log, in one situation; the other's variables keep still.     *)
(***************************************************************************)
EXTENDS Integers, Sequences, FiniteSets, TLC

CONSTANTS FileSituations, WalSituations, g1, g2

VARIABLES part, fGiven, disk, status, segs, hsSeq, recorded, doing, fLegal, fDone,
          wGiven, wStatus, wsegs, limbo, mem, snapFiles, queue, batch, thr, wLegal, wDone

fileVars == <<fGiven, disk, status, segs, hsSeq, recorded, doing, fLegal, fDone>>
walVars == <<wGiven, wStatus, wsegs, limbo, mem, snapFiles, queue, batch, thr, wLegal, wDone>>

FS == INSTANCE FileStore WITH Situations <- FileSituations
WL == INSTANCE SharedWAL WITH Situations <- WalSituations, Groups <- {g1, g2}

(***************************************************************************)
(* Situations of the file store.                                           *)
(***************************************************************************)
Files == [segSize |-> 2, start |-> 1, ops |-> 4, crashes |-> 1, faults |-> {"kill"}, ordered |-> TRUE,
          legacy |-> FALSE, paired |-> FALSE, may |-> {}, hardStates |-> {}, terms |-> {},
          indexes |-> 1..5]

LogOps == {"AppendLogEntries", "TruncateSuffix", "TruncatePrefix"}

\* Appends that rotate, truncations at either end; killed twice, recovery included.
Kill == [Files EXCEPT !.may = LogOps, !.terms = {<<1, 3>>, <<2, 2>>}, !.crashes = 2, !.ops = 3]

\* The same with the power lost.
Power == [Files EXCEPT !.may = LogOps, !.terms = {<<1, 3>>, <<2, 1>>}, !.faults = {"power"},
                       !.ops = 3, !.crashes = 2]

\* A term saved together with the entries received in it.
Paired == [Files EXCEPT !.may = {"SaveHardState", "AppendLogEntries"}, !.paired = TRUE,
                        !.terms = {<<2, 1>>, <<2, 2>>}, !.hardStates = {[term |-> 2], [term |-> 3]},
                        !.faults = {"power"}, !.ops = 2, !.crashes = 2]

\* Snapshots beside the log, and the commit index.
Beside == [Files EXCEPT !.may = {"SaveSnapshot", "SaveCommitIndex", "AppendLogEntries"},
                        !.terms = {<<1, 1>>}, !.indexes = {1, 2}, !.ops = 3]

BesidePower == [Beside EXCEPT !.faults = {"power"}]

\* A hard state an older release wrote.
Legacy == [Files EXCEPT !.may = {"SaveHardState"}, !.hardStates = {[term |-> 2]}, !.legacy = TRUE,
                        !.crashes = 2]

FilePass == [kill |-> Kill, power |-> Power, paired |-> Paired, beside |-> Beside,
         besidePower |-> BesidePower, legacy |-> Legacy]

\* A file system that keeps no order between unsynced renames.
Reordered == [reordered |-> [Power EXCEPT !.ordered = FALSE]]

\* Power lost while a hard state of an older release is migrated.
LegacyPower == [legacy |-> [Legacy EXCEPT !.faults = {"power"}]]

\* Killed, opened again, and then the power lost.
KillThenPower == [both |-> [Power EXCEPT !.faults = {"kill", "power"}]]

(***************************************************************************)
(* Situations of the shared log: the calls of the two groups, how many of  *)
(* them, the crashes and their kind, a segment's size, the rewrite bound.  *)
(***************************************************************************)
Groups2(c1, c2) == (g1 :> c1) @@ (g2 :> c2)

Wal == [calls |-> Groups2({}, {}), ops |-> 5, crashes |-> 1, faults |-> {"kill"},
        segmentSize |-> 2, threshold |-> 1]

\* Two groups in one segment.
Sharing == [Wal EXCEPT !.calls = Groups2({"append", "suffix"}, {"append"}), !.segmentSize = 12,
                       !.faults = {"kill", "power", "error"}]

\* Two groups, a new segment for almost every request, and commit indexes not waited for.
Rotating == [Wal EXCEPT !.calls = Groups2({"append", "suffix", "commit"}, {"append"}),
                        !.faults = {"kill", "close"}, !.ops = 4]

\* One group whose old segments are rewritten and deleted.
Compacting == [Wal EXCEPT !.calls = Groups2({"append", "prefix", "suffix"}, {}), !.ops = 6,
                          !.faults = {"kill", "power"}, !.threshold = 2]

\* Snapshots beside the log, and a group that is removed.
Snapping == [Wal EXCEPT !.calls = Groups2({"append", "prefix", "snap", "commit"}, {}), !.ops = 4,
                        !.faults = {"kill", "power"}, !.segmentSize = 9, !.threshold = 2]

Departing == [Wal EXCEPT !.calls = Groups2({"append", "snap", "remove"}, {}), !.ops = 4]

WalPass == [sharing |-> Sharing, rotating |-> Rotating, compacting |-> Compacting,
            snapping |-> Snapping, departing |-> Departing]

\* One group's reclaim copies what another is about to replace.
Rewriting == [rewriting |-> [Wal EXCEPT !.calls = Groups2({"append", "prefix"}, {"hs", "append"})]]

\* A segment that is kept, and later ones that are not.
Behind == [behind |-> [Wal EXCEPT !.calls = Groups2({"append", "prefix", "suffix"}, {"append"}),
                                  !.ops = 6, !.threshold = 0]]

\* A rotation in the middle of a batch.
MidBatch == [midBatch |-> [Wal EXCEPT !.calls = Groups2({"append"}, {"append"}), !.ops = 4,
                                      !.faults = {"power"}, !.segmentSize = 3]]

\* A group removed while another's reclaim copies its records.
Removing == [removing |-> [Wal EXCEPT !.calls = Groups2({"append", "prefix"}, {"append", "remove"})]]

\* A file system that keeps no order between unsynced removals.
Returning == [returning |-> [Compacting EXCEPT !.faults = {"reordered"}]]

(***************************************************************************)
(* One of the two.                                                         *)
(***************************************************************************)
FirstOf(situations) == CHOOSE n \in DOMAIN situations : TRUE

vars == <<part, fileVars, walVars>>

Init ==
  /\ FS!FInit /\ WL!WInit
  /\ \/ part = "filestore" /\ wGiven = FirstOf(WalSituations)
     \/ part = "sharedwal" /\ fGiven = FirstOf(FileSituations)

Next ==
  \/ part = "filestore" /\ FS!FNext /\ UNCHANGED <<part, walVars>>
  \/ part = "sharedwal" /\ WL!WNext /\ UNCHANGED <<part, fileVars>>

Spec == Init /\ [][Next]_vars

\* What the file store acknowledged is there after any crash, and no entry without its term
\* (AppendLogEntries, SaveState, TruncateSuffix, TruncatePrefix, SaveSnapshot,
\* SaveCommitIndex, and openWith after a crash in any of them).
FileSurvives == FS!FileSurvives

\* Open refuses a directory only if no hard state was ever saved in it (openWith).
RefusesOnlyTheUnsaved == FS!RefusesOnlyTheUnsaved


\* A segment's liveEntries and pins count what points into it (reclaimable).
CountsAreExact == WL!CountsAreExact
=============================================================================
