----------------------------- MODULE SpiBridge -----------------------------
(***************************************************************************)
(* The command ingress of spi_register_bridge: an 0xa5 transaction is      *)
(* received into a staging RAM, checked when chip select rises, and then   *)
(* committed word by word to the command FIFO through a held ready/valid   *)
(* handshake with one word of RAM read-ahead; 0xa6 flushes, 0xa7 asks for  *)
(* a session reset.  A step is one system clock edge, with at most one SPI *)
(* event on it; the link is slow enough for an edge between two events.    *)
(***************************************************************************)
EXTENDS Integers, Sequences, SequencesExt

CONSTANTS
  MaxCommandWords,  \* MAX_COMMAND_WORDS, the staging RAM
  PayloadLimit,     \* 16: payload words of one command
  Shapes,           \* word sequences a master sends, each word its low byte
  MaxFrames,        \* bound: 0xa5 transactions
  FifoKeepsUp       \* a staged commit drains before the next 0xa5 opcode

ASSUME BridgeAssumption ==
  /\ MaxCommandWords \in Nat \ {0}
  /\ PayloadLimit \in Nat
  /\ \A s \in Shapes : s \in Seq(Nat)
  /\ MaxFrames \in Nat
  /\ FifoKeepsUp \in BOOLEAN

Indices == 0 .. MaxCommandWords - 1
NoWord == [frame |-> 0, index |-> 0, low |-> 0]

VARIABLES
  state,                           \* IDLE, COMMAND, STREAM_HEADER, ...
  quiet,                           \* the previous edge carried no SPI event
  wire,                            \* words of the transaction still to come
  stream_declared_words, stream_received_words,
  stream_command_words_remaining, stream_reject,
  command_staging, staging_read_data,
  commit_index, commit_words, commit_start_pending, cmd_valid, cmd_data,
  cmd_flush_req, session_reset_req,
  \* history
  frame,                           \* number of the last 0xa5 transaction
  accepted,                        \* words of the accepted transactions, in order
  published                        \* words taken by the command FIFO

receiveVars == <<state, quiet, wire, stream_declared_words, stream_received_words,
                 stream_command_words_remaining, stream_reject, command_staging, frame>>
commitVars == <<staging_read_data, commit_index, commit_words, commit_start_pending,
                cmd_valid, cmd_data, published>>
requestVars == <<cmd_flush_req, session_reset_req, accepted>>
bridgeVars == <<receiveVars, commitVars, requestVars>>

BridgeInit ==
  /\ state = "IDLE" /\ quiet = TRUE /\ wire = << >>
  /\ stream_declared_words = 0 /\ stream_received_words = 0
  /\ stream_command_words_remaining = 0 /\ stream_reject = FALSE
  /\ command_staging = [i \in Indices |-> NoWord] /\ staging_read_data = NoWord
  /\ commit_index = 0 /\ commit_words = 0 /\ commit_start_pending = FALSE
  /\ cmd_valid = FALSE /\ cmd_data = NoWord
  /\ cmd_flush_req = FALSE /\ session_reset_req = FALSE
  /\ frame = 0 /\ accepted = << >> /\ published = << >>

-----------------------------------------------------------------------------
(* The commit engine, which runs on every edge. *)

Committing == cmd_valid \/ commit_start_pending

(* Mutant of Taken: a commit only advances between transactions. *)
TakenWhenIdle(cmd_ready) == cmd_valid /\ cmd_ready /\ state = "IDLE"

Taken(cmd_ready) == cmd_valid /\ cmd_ready
LastWord == commit_index + 1 >= commit_words

StagingReadAddress(cmd_ready) ==
  IF commit_start_pending /\ ~LastWord THEN commit_index + 1
  ELSE IF Taken(cmd_ready) /\ commit_index + 2 < commit_words THEN commit_index + 2
  ELSE IF cmd_valid /\ ~LastWord THEN commit_index + 1
  ELSE commit_index

ReadAhead(cmd_ready) ==
  staging_read_data' = command_staging[StagingReadAddress(cmd_ready)]

(* What the registers become when no transaction end or opcode writes them. *)
NextCmdValid(cmd_ready) ==
  commit_start_pending \/ (cmd_valid /\ ~(Taken(cmd_ready) /\ LastWord))
NextCommitIndex(cmd_ready) ==
  IF Taken(cmd_ready) /\ ~LastWord THEN commit_index + 1 ELSE commit_index
NextCmdData(cmd_ready) ==
  IF Taken(cmd_ready) /\ ~LastWord THEN staging_read_data ELSE cmd_data
Published(cmd_ready) ==
  IF Taken(cmd_ready) THEN Append(published, cmd_data) ELSE published

(* An edge that leaves the commit alone. *)
CommitRuns(cmd_ready) ==
  /\ ReadAhead(cmd_ready)
  /\ cmd_valid' = NextCmdValid(cmd_ready)
  /\ commit_index' = NextCommitIndex(cmd_ready)
  /\ cmd_data' = NextCmdData(cmd_ready)
  /\ commit_start_pending' = FALSE
  /\ commit_words' = commit_words
  /\ published' = Published(cmd_ready)

(* The command plane acknowledges a flush in the edge that sees it; the    *)
(* reset controller acknowledges a reset when it has drained the core.     *)
RequestsAcked ==
  /\ cmd_flush_req' = FALSE
  /\ session_reset_req' \in {session_reset_req, FALSE}
  /\ accepted' = accepted

-----------------------------------------------------------------------------
(* SPI events.  Each is one edge of the bridge's receive machine. *)

NoSpiEvent(cmd_ready) ==
  /\ quiet' = TRUE
  /\ CommitRuns(cmd_ready)
  /\ RequestsAcked
  /\ UNCHANGED <<state, wire, stream_declared_words, stream_received_words,
                 stream_command_words_remaining, stream_reject, command_staging, frame>>

CsStart(cmd_ready) ==
  /\ state = "IDLE" /\ quiet
  /\ quiet' = FALSE
  /\ state' = IF cmd_flush_req \/ session_reset_req THEN "REJECT" ELSE "COMMAND"
  /\ stream_declared_words' = 0
  /\ stream_received_words' = 0
  /\ stream_command_words_remaining' = 0
  /\ stream_reject' = FALSE
  /\ wire' = << >>
  /\ CommitRuns(cmd_ready)
  /\ RequestsAcked
  /\ UNCHANGED <<command_staging, frame>>

(* The 0xa5 opcode: commit_index is pointed at word 0 so that the RAM      *)
(* read-ahead has the first word ready when the transaction ends.          *)
StreamOpcode(cmd_ready) ==
  /\ state = "COMMAND" /\ quiet
  /\ frame < MaxFrames
  /\ FifoKeepsUp => ~Committing
  /\ quiet' = FALSE
  /\ state' = "STREAM_HEADER"
  /\ frame' = frame + 1
  /\ wire' \in {[i \in DOMAIN s |-> [frame |-> frame + 1, index |-> i, low |-> s[i]]] :
                  s \in Shapes}
  /\ ReadAhead(cmd_ready)
  /\ cmd_valid' = NextCmdValid(cmd_ready)
  /\ commit_index' = 0
  /\ cmd_data' = NextCmdData(cmd_ready)
  /\ commit_start_pending' = FALSE
  /\ commit_words' = commit_words
  /\ published' = Published(cmd_ready)
  /\ RequestsAcked
  /\ UNCHANGED <<stream_declared_words, stream_received_words,
                 stream_command_words_remaining, stream_reject, command_staging>>

(* The opcode and the body of 0xa6 or 0xa7. *)
ControlOpcode(cmd_ready) ==
  /\ state = "COMMAND" /\ quiet
  /\ quiet' = FALSE
  /\ state' \in {"FLUSH_WAIT", "SESSION_RESET_WAIT"}
  /\ CommitRuns(cmd_ready)
  /\ RequestsAcked
  /\ UNCHANGED <<wire, stream_declared_words, stream_received_words,
                 stream_command_words_remaining, stream_reject, command_staging, frame>>

(* The last bit of the 24-bit header; the count may arrive corrupted. *)
StreamHeader(cmd_ready, declared) ==
  /\ state = "STREAM_HEADER" /\ quiet
  /\ quiet' = FALSE
  /\ state' = "STREAM_DATA"
  /\ stream_declared_words' = declared
  /\ stream_reject' = (Committing \/ cmd_flush_req \/ session_reset_req
                       \/ declared = 0 \/ declared > MaxCommandWords)
  /\ CommitRuns(cmd_ready)
  /\ RequestsAcked
  /\ UNCHANGED <<wire, stream_received_words, stream_command_words_remaining,
                 command_staging, frame>>

(* Words of a command still to come after one more word: its header names  *)
(* the payload.                                                            *)
WordsLeft(left, word) == IF left = 0 THEN word.low ELSE left - 1

NextRemaining(word) == WordsLeft(stream_command_words_remaining, word)

(* The last bit of a payload word. *)
StreamWord(cmd_ready) ==
  LET word == Head(wire)
      header == stream_command_words_remaining = 0
  IN
  /\ state = "STREAM_DATA" /\ quiet
  /\ wire # << >>
  /\ quiet' = FALSE
  /\ wire' = Tail(wire)
  /\ command_staging' =
       IF ~stream_reject /\ stream_received_words < stream_declared_words
            /\ stream_received_words < MaxCommandWords
       THEN [command_staging EXCEPT ![stream_received_words] = word]
       ELSE command_staging
  /\ stream_command_words_remaining' = NextRemaining(word)
  /\ stream_received_words' = stream_received_words + 1
  /\ stream_reject' = (stream_reject \/ (header /\ word.low > PayloadLimit)
                       \/ stream_received_words >= stream_declared_words)
  /\ CommitRuns(cmd_ready)
  /\ RequestsAcked
  /\ UNCHANGED <<state, stream_declared_words, frame>>

(* Mutant of StreamAccepted: the last command may be cut off. *)
StreamAcceptedTruncated(intact) ==
  /\ ~stream_reject /\ intact
  /\ stream_received_words = stream_declared_words
  /\ ~Committing /\ ~session_reset_req

(* Everything CS is checked for when it rises after stream data. *)
StreamAccepted(intact) ==
  /\ ~stream_reject /\ intact
  /\ stream_received_words = stream_declared_words
  /\ stream_command_words_remaining = 0
  /\ ~Committing /\ ~session_reset_req

CommitCancelled(cmd_ready) ==
  /\ ReadAhead(cmd_ready)
  /\ cmd_valid' = FALSE
  /\ commit_start_pending' = FALSE
  /\ commit_index' = 0
  /\ commit_words' = 0
  /\ cmd_data' = NextCmdData(cmd_ready)
  /\ accepted' = << >>
  /\ published' = << >>

(* CS rises.  intact: whole words and the CRC of the transaction match; CS *)
(* may also rise in the middle of anything.                                *)
CsEnd(cmd_ready, intact) ==
  /\ state # "IDLE" /\ quiet
  /\ quiet' = FALSE
  /\ state' = "IDLE"
  /\ wire' = << >>
  /\ \/ /\ state = "STREAM_DATA" /\ StreamAccepted(intact)
        /\ commit_index' = 0
        /\ commit_words' = stream_received_words
        /\ cmd_data' = staging_read_data
        /\ commit_start_pending' = TRUE
        /\ cmd_valid' = NextCmdValid(cmd_ready)
        /\ ReadAhead(cmd_ready)
        /\ published' = Published(cmd_ready)
        /\ accepted' = accepted \o
             [i \in 1 .. stream_received_words |-> command_staging[i - 1]]
        /\ cmd_flush_req' = FALSE
        /\ session_reset_req' \in {session_reset_req, FALSE}
     \/ /\ state = "FLUSH_WAIT" /\ intact /\ ~cmd_flush_req /\ ~session_reset_req
        /\ cmd_flush_req' = TRUE
        /\ session_reset_req' = session_reset_req
        /\ CommitCancelled(cmd_ready)
     \/ /\ state = "SESSION_RESET_WAIT" /\ intact /\ ~cmd_flush_req /\ ~session_reset_req
        /\ session_reset_req' = TRUE
        /\ cmd_flush_req' = FALSE
        /\ CommitCancelled(cmd_ready)
     \/ /\ ~(state = "STREAM_DATA" /\ StreamAccepted(intact))
        /\ ~(state \in {"FLUSH_WAIT", "SESSION_RESET_WAIT"} /\ intact
             /\ ~cmd_flush_req /\ ~session_reset_req)
        /\ CommitRuns(cmd_ready)
        /\ RequestsAcked
  /\ UNCHANGED <<stream_declared_words, stream_received_words,
                 stream_command_words_remaining, stream_reject, command_staging, frame>>

BridgeNext ==
  \E cmd_ready \in BOOLEAN :
    \/ NoSpiEvent(cmd_ready)
    \/ CsStart(cmd_ready)
    \/ StreamOpcode(cmd_ready)
    \/ ControlOpcode(cmd_ready)
    \/ \E declared \in 0 .. MaxCommandWords + 1 : StreamHeader(cmd_ready, declared)
    \/ StreamWord(cmd_ready)
    \/ \E intact \in BOOLEAN : CsEnd(cmd_ready, intact)

BridgeSpec == BridgeInit /\ [][BridgeNext]_bridgeVars

(* The clock runs and the command plane keeps making room in its FIFO. *)
FairBridgeSpec == BridgeSpec /\ WF_bridgeVars(NoSpiEvent(TRUE))

-----------------------------------------------------------------------------
(* Properties. *)

(* The words the FIFO has taken since the last flush or reset are the      *)
(* words of the accepted transactions, in order, none twice, none missing  *)
(* and none of a transaction that was rejected; once the commit is over    *)
(* all of them are there.                                                  *)
PublishedWhole ==
  /\ IsPrefix(published, accepted)
  /\ ~Committing => published = accepted

(* Words missing from the last command of a stream of whole commands. *)
Missing(words) ==
  LET left[i \in 0 .. Len(words)] == IF i = 0 THEN 0 ELSE WordsLeft(left[i - 1], words[i])
  IN left[Len(words)]

(* The parser behind the FIFO is at a command boundary whenever no commit  *)
(* is in progress: what was published splits into whole commands.          *)
CommandBoundary == ~Committing => Missing(published) = 0

(* An accepted transaction reaches the FIFO unless it is cancelled. *)
CommitDrains == commit_start_pending ~> ~Committing
=============================================================================
