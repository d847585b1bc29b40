----------------------------- MODULE MCClients -----------------------------
(***************************************************************************)
(* The event stream for TLC, with what is at the ends of streams: the log  *)
(* on the disk, the loop of gil chat, the chat window and the dashboard of *)
(* the TUI; and the file of permission rules.  They share no variable, so  *)
(* a behaviour moves one of them, the subject, and leaves the others where *)
(* they start; a property that speaks of one holds beside the others       *)
(* exactly when it holds alone.                                            *)
(***************************************************************************)
EXTENDS EventStream, EventLog, RuleStore, ReplTurn, ChatPump, TuiTails

VARIABLE subject

clientsVars == <<vars, logVars, ruleVars, replVars, pumpVars, tailVars, subject>>

(* Two writers of a run's store, and one of another.                       *)
MCWriters == {"answer", "answer2", "cli"}
MCStoreOf == [w \in MCWriters |-> IF w = "cli" THEN "its own" ELSE "the run's"]

ClientsInit ==
    /\ Init /\ LogInit /\ RulesInit /\ ReplInit /\ PumpInit /\ TailsInit
    /\ subject \in {"stream", "log", "rules", "loop", "window", "dashboard"}

(* A spoiled file, and one two stores wrote at a time, are not followed.   *)
ClientsNext ==
    /\ UNCHANGED subject
    /\ \/ subject = "stream" /\ Next /\ UNCHANGED <<logVars, ruleVars, replVars, pumpVars, tailVars>>
       \/ subject = "log" /\ ~spoiled /\ LogNext /\ UNCHANGED <<vars, ruleVars, replVars, pumpVars, tailVars>>
       \/ subject = "rules" /\ ~crossed /\ RulesNext /\ UNCHANGED <<vars, logVars, replVars, pumpVars, tailVars>>
       \/ subject = "loop" /\ ReplNext /\ UNCHANGED <<vars, logVars, ruleVars, pumpVars, tailVars>>
       \/ subject = "window" /\ PumpNext /\ UNCHANGED <<vars, logVars, ruleVars, replVars, tailVars>>
       \/ subject = "dashboard" /\ TailsNext /\ UNCHANGED <<vars, logVars, ruleVars, replVars, pumpVars>>

(* Where they start, no action that is fair is enabled.                    *)
ClientsSpec == ClientsInit /\ [][ClientsNext]_clientsVars /\ Fairness /\ ReplFairness

(* The text and the notes of a prompt's reply are shown whole, once and in *)
(* their order, by the loop and by the window (loop.go:132-197,            *)
(* chat_model.go:128-271), and the dashboard shows what belongs to the     *)
(* session it is on (update.go:19-97).                                     *)
ClientsShowWhatTheyRead == ReplShowsTheTurn /\ ChatShowsTheTurn /\ ScreenIsTrue

(* events.jsonl says what its run wrote, also behind a crash, until a      *)
(* write fails, a crash tears a line or two runs write (persist.go:50-143, *)
(* run.go:1023-1040); permissions.toml says what its calls have said until *)
(* two stores are at work at a time (store.go:133-301).                    *)
FilesTellTheTruth == LogTellsTruth /\ RulesTypeOK /\ RulesStay

=============================================================================
