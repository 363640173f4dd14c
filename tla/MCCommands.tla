----------------------------- MODULE MCCommands -----------------------------
(* Situations for TLC. *)
EXTENDS Commands
CONSTANTS c, d

Usual == [longest |-> 5, troubles |-> 2, clients |-> {c}, seqs |-> 1, batch |-> 1,
          cap |-> 2, resize |-> {}, quorum |-> FALSE, room |-> {2}, unlucky |-> {},
          early |-> FALSE, transfers |-> FALSE, slow |-> FALSE, threshold |-> 0,
          trailing |-> 0, capture |-> FALSE, throttled |-> FALSE, durable |-> FALSE,
          crashes |-> FALSE, installs |-> FALSE, races |-> FALSE, discards |-> FALSE]

Pass ==
  [ forgets |-> [Usual EXCEPT !.clients = {c, d}, !.cap = 1, !.crashes = TRUE],
    rejects |-> [Usual EXCEPT !.longest = 4, !.troubles = 3, !.clients = {c, d}, !.unlucky = {d}],
    installs |-> [Usual EXCEPT !.installs = TRUE, !.seqs = 2, !.crashes = TRUE],
    quorum |-> [Usual EXCEPT !.clients = {}, !.quorum = TRUE, !.crashes = TRUE],
    slow |-> [Usual EXCEPT !.slow = TRUE, !.threshold = 2, !.trailing = 1, !.crashes = TRUE],
    captures |-> [Usual EXCEPT !.longest = 4, !.threshold = 1, !.capture = TRUE,
                               !.throttled = TRUE, !.crashes = TRUE],
    durable |-> [Usual EXCEPT !.durable = TRUE, !.threshold = 2, !.crashes = TRUE],
    batches |-> [Usual EXCEPT !.longest = 4, !.clients = {c, d}, !.batch = 2, !.resize = {1},
                              !.room = 0..2, !.discards = TRUE, !.transfers = TRUE] ]

(* A retry follows its original in the log. *)
Retried == [retried |-> [Usual EXCEPT !.early = TRUE, !.clients = {c, d}]]

(* A snapshot arrives while the apply loop waits for work. *)
Raced == [raced |-> [Usual EXCEPT !.installs = TRUE, !.races = TRUE]]

(* The configured commit quorum and the bound of the table are proposed in *)
(* one batch.                                                              *)
Colliding == [colliding |-> [Usual EXCEPT !.quorum = TRUE]]

(* Refusals do not matter to what follows. *)
WithoutRefusals == <<given, log, ev, ap, ch, disk, {a \in told : a.kind = "ok"}, trouble>>
=============================================================================
