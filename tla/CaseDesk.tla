------------------------------- MODULE CaseDesk -------------------------------
(* How the desks of audit work, income tax and imports serve requests         *)
(* (app/core/database.py and the repositories).                               *)
(*                                                                            *)
(* Every request has a session of its own: it loads rows, one SELECT at a     *)
(* time, decides by what it loaded, and its one commit writes the columns     *)
(* that differ from the loaded ones, by primary key.  A refused request, or   *)
(* one whose client goes away, is rolled back and writes nothing.             *)
EXTENDS Naturals, FiniteSets, Sequences, TLC

CONSTANTS Workers,   \* those who serve requests
          None,
          Scenes     \* what the behaviours of a run are made of

(* A scene: the workers, whether requests are served one at a time, and the   *)
(* requests that are made, each a pair of what it is about and what it asks;  *)
(* also which taxpayer types a profile may have and which kinds are imported. *)
ASSUME CaseDeskAssumption ==
  \A s \in Scenes : s.crew \subseteq Workers /\ s.serial \in BOOLEAN

VARIABLES scene,   \* the scene of this behaviour
          worker   \* the request each worker is serving

deskVars == <<scene, worker>>

Idle == [pc |-> "idle", op |-> None, id |-> None, args |-> None, seen |-> None]

(* Who may start: in a serial scene, only when nobody else is at work.        *)
Free(w) ==
  /\ worker[w].pc = "idle"
  /\ scene.serial => \A v \in DOMAIN worker : worker[v].pc = "idle"
Asked(w, about, op) == w \in scene.crew /\ <<about, op>> \in scene.ops /\ Free(w)

(* The request has loaded what it starts from and goes on at pc.              *)
Serve(w, pc, op, id, args, seen) ==
  /\ worker' = [worker EXCEPT ![w] = [pc |-> pc, op |-> op, id |-> id, args |-> args, seen |-> seen]]
  /\ UNCHANGED scene

GoOn(w, pc) == worker' = [worker EXCEPT ![w].pc = pc] /\ UNCHANGED scene
Done(w)     == worker' = [worker EXCEPT ![w] = Idle] /\ UNCHANGED scene

(* get_db closes the session without a commit.                                *)
Abandon(w) == worker[w].pc # "idle" /\ Done(w)

(* What an UPDATE leaves in a column, or in a row of columns: the session     *)
(* writes only what it changed.                                               *)
Column(new, seen, now) == IF new = seen THEN now ELSE new
Written(new, seen, now) == [c \in DOMAIN now |-> Column(new[c], seen[c], now[c])]

(* A table of transitions is a set of triples <<from, operation, to>>.        *)
Allows(moves, s, op) == \E m \in moves : m[1] = s /\ m[2] = op
Target(moves, s, op) == (CHOOSE m \in moves : m[1] = s /\ m[2] = op)[3]

DeskInit ==
  /\ scene \in Scenes
  /\ worker = [w \in Workers |-> Idle]
================================================================================
