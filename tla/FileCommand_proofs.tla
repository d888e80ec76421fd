------------------------- MODULE FileCommand_proofs -----------------------
(***************************************************************************)
(* How often the poll thread can dispatch one command, for any number of   *)
(* clients, commands and failing polls, and for any resolution of the file *)
(* system's clock.                                                         *)
(***************************************************************************)
EXTENDS FileCommand, TLAPS

LEMMA RequestIsNoMark == \A r \in Requests : \A s : r # <<s>>
  BY DEF Requests

\* What the poll thread may still do with command r that it has begun or seen.
InHand(r) == ppc = "dispatch" /\ polled = r
BeingRead(r) == ppc = "read" /\ cmd = r
Pending(r) == cmd = r /\ fresh

\* The client has written r.
Written(r) == r[2] < sent[r[1]] \/ (r[2] = sent[r[1]] /\ cpc[r[1]] # "opened")

FileTypes ==
    /\ cmd \in {<<"absent">>, <<"{}">>} \cup Unreadable \cup Requests
    /\ fresh \in BOOLEAN

PollTypes ==
    /\ ppc \in {"idle", "read", "dispatch", "result", "consume", "emptying"}
    /\ polled \in Requests \cup {Nothing}
    /\ ppc \in {"dispatch", "result"} => polled \in Requests
    /\ executed \in [Requests -> Nat]
    /\ fileFaults \in Nat

ClientTypes ==
    /\ cpc \in [Clients -> {"idle", "opened", "waiting"}]
    /\ sent \in [Clients -> 0..MaxRequests]
    /\ \A c \in Clients : cpc[c] = "opened" => sent[c] \in 1..MaxRequests

Types == FileTypes /\ PollTypes /\ ClientTypes

\* A command enters the file once.  Each time it is in the file it can be read for
\* its own mtime and, if it was written between stat and read, for the one before;
\* once it was dispatched without a failure only the emptying of the file follows.
OnceInv(r) ==
    /\ ~Written(r) => cmd # r /\ polled # r /\ executed[r] = 0
    /\ executed[r] <= 2
    /\ executed[r] = 1 => ~(InHand(r) /\ Pending(r)) /\ ~(BeingRead(r) /\ Pending(r))
    /\ executed[r] = 2 => ~InHand(r) /\ ~BeingRead(r) /\ ~Pending(r)
    /\ fileFaults = 0 =>
        /\ executed[r] <= 1
        /\ executed[r] = 1 => ~InHand(r)
        /\ executed[r] = 1 /\ cmd = r => ppc \in {"result", "consume"}

OnceForAll == \A r \in Requests : OnceInv(r)

LEMMA OnceInit == FileInit => Types /\ OnceForAll
<1> SUFFICES ASSUME FileInit PROVE Types /\ OnceForAll
  OBVIOUS
<1>1. Types
  <2>1. FileTypes /\ PollTypes
    BY DEF FileInit, FileTypes, PollTypes
  <2>2. ClientTypes
    <3>1. 0 \in 0..MaxRequests
      BY FileCommandAssumption
    <3>2. \A c \in Clients : cpc[c] # "opened"
      BY DEF FileInit
    <3> QED
      BY <3>1, <3>2 DEF FileInit, ClientTypes
  <2> QED
    BY <2>1, <2>2 DEF Types
<1>2. ASSUME NEW r \in Requests PROVE OnceInv(r)
  <2>1. r[1] \in Clients /\ r[2] \in 1..MaxRequests
    BY DEF Requests
  <2>2. executed[r] = 0 /\ cmd # r /\ polled # r /\ ppc = "idle"
    BY FileCommandAssumption, RequestIsNoMark DEF FileInit, Requests
  <2>3. executed[r] <= 2 /\ executed[r] <= 1
    BY <2>2
  <2> QED
    BY <2>2, <2>3 DEF OnceInv, InHand, BeingRead, Pending
<1> QED
  BY <1>1, <1>2 DEF OnceForAll

LEMMA ClientTypesNext == ClientTypes /\ [FileNext]_fileVars => ClientTypes'
<1> SUFFICES ASSUME ClientTypes, [FileNext]_fileVars PROVE ClientTypes'
  OBVIOUS
<1> USE FileCommandAssumption DEF ClientTypes
<1>1. ASSUME NEW c \in Clients, ClientOpens(c) PROVE ClientTypes'
  <2>1. sent[c] + 1 \in 0..MaxRequests /\ sent[c] + 1 \in 1..MaxRequests
    BY <1>1 DEF ClientOpens
  <2>2. /\ cpc' = [cpc EXCEPT ![c] = "opened"]
        /\ sent' = [sent EXCEPT ![c] = sent[c] + 1]
    BY <1>1 DEF ClientOpens
  <2> QED
    BY <2>1, <2>2
<1>2. ASSUME NEW c \in Clients, \/ ClientFills(c) \/ ClientReadsResult(c)
                                \/ ClientTimesOut(c)
      PROVE  ClientTypes'
  BY <1>2 DEF ClientFills, ClientReadsResult, ClientTimesOut
<1>3. CASE UNCHANGED client
  BY <1>3 DEF client
<1> QED
  BY <1>1, <1>2, <1>3 DEF FileNext, Poll, PollStat, PollRead, PollDispatch, PollWritesResult,
     PollTruncates, PollEmpties, PollFails, Tick, fileVars, client

LEMMA FileTypesNext == Types /\ [FileNext]_fileVars => FileTypes'
<1> SUFFICES ASSUME Types, [FileNext]_fileVars PROVE FileTypes'
  OBVIOUS
<1> USE FileCommandAssumption DEF FileTypes, Types, WriteCmd, Unreadable
<1>1. ASSUME NEW c \in Clients, ClientOpens(c) PROVE FileTypes'
  BY <1>1 DEF ClientOpens
<1>2. ASSUME NEW c \in Clients, ClientFills(c) PROVE FileTypes'
  <2>1. <<c, sent[c]>> \in Requests
    <3>1. sent[c] \in 1..MaxRequests
      BY <1>2 DEF ClientFills, ClientTypes
    <3> QED
      BY <3>1 DEF Requests
  <2>2. cmd' \in {<<c, sent[c]>>, <<"mixed">>} /\ fresh' = (FineClock \/ ~seenNow)
    BY <1>2 DEF ClientFills, Overwritten
  <2> QED
    BY <2>1, <2>2
<1>3. CASE PollStat
  BY <1>3 DEF PollStat
<1>4. CASE PollTruncates \/ PollEmpties
  BY <1>4 DEF PollTruncates, PollEmpties
<1>5. CASE UNCHANGED <<cmd, fresh>>
  BY <1>5
<1> QED
  BY <1>1, <1>2, <1>3, <1>4, <1>5 DEF FileNext, Poll, PollRead, PollDispatch, PollWritesResult,
     PollFails, Tick, ClientReadsResult, ClientTimesOut, fileVars, clock

LEMMA PollTypesNext == PollTypes /\ [FileNext]_fileVars => PollTypes'
<1> SUFFICES ASSUME PollTypes, [FileNext]_fileVars PROVE PollTypes'
  OBVIOUS
<1> USE FileCommandAssumption DEF PollTypes
<1>1. CASE PollStat
  BY <1>1 DEF PollStat
<1>2. CASE PollRead
  BY <1>2 DEF PollRead
<1>3. CASE PollDispatch
  BY <1>3 DEF PollDispatch
<1>4. CASE PollWritesResult \/ PollTruncates \/ PollEmpties
  BY <1>4 DEF PollWritesResult, PollTruncates, PollEmpties
<1>5. CASE PollFails
  BY <1>5 DEF PollFails
<1>6. CASE UNCHANGED poller
  BY <1>6 DEF poller
<1> QED
  BY <1>1, <1>2, <1>3, <1>4, <1>5, <1>6 DEF FileNext, Poll, Tick, ClientOpens, ClientFills,
     ClientReadsResult, ClientTimesOut, fileVars, poller

LEMMA TypesNext == Types /\ [FileNext]_fileVars => Types'
  BY ClientTypesNext, FileTypesNext, PollTypesNext DEF Types

LEMMA OnceNext == Types /\ OnceForAll /\ [FileNext]_fileVars => OnceForAll'
<1> SUFFICES ASSUME Types, OnceForAll, [FileNext]_fileVars, NEW r \in Requests PROVE OnceInv(r)'
  BY DEF OnceForAll
<1>0. OnceInv(r) /\ r[1] \in Clients /\ r[2] \in 1..MaxRequests /\ executed[r] \in Nat
  BY DEF OnceForAll, Requests, Types, PollTypes
<1> USE <1>0 DEF OnceInv, InHand, BeingRead, Pending
<1>1. ASSUME NEW c \in Clients, ClientOpens(c) PROVE OnceInv(r)'
  <2>1. cmd' = <<"empty">> /\ cmd' # r
    BY <1>1, RequestIsNoMark DEF ClientOpens, WriteCmd
  <2>2. UNCHANGED <<ppc, polled, executed, fileFaults>>
    BY <1>1 DEF ClientOpens, poller
  <2>3. Written(r) => Written(r)'
    BY <1>1 DEF ClientOpens, Written, Types, ClientTypes
  <2> QED
    BY <2>1, <2>2, <2>3
<1>2. ASSUME NEW c \in Clients, ClientFills(c) PROVE OnceInv(r)'
  <2>1. UNCHANGED <<ppc, polled, executed, fileFaults, sent>>
    BY <1>2 DEF ClientFills, poller
  <2>2. Written(r) => Written(r)'
    BY <1>2, <2>1 DEF ClientFills, Written, Types, ClientTypes
  <2>3. CASE r = <<c, sent[c]>>
    <3>1. ~Written(r) /\ Written(r)'
      BY <1>2, <2>1, <2>3 DEF ClientFills, Written, Types, ClientTypes
    <3> QED
      BY <2>1, <3>1
  <2>4. CASE r # <<c, sent[c]>>
    <3>1. cmd' # r
      BY <1>2, <2>4, RequestIsNoMark DEF ClientFills, WriteCmd, Overwritten
    <3> QED
      BY <2>1, <2>2, <3>1
  <2> QED
    BY <2>3, <2>4
<1>3. ASSUME NEW c \in Clients, ClientReadsResult(c) \/ ClientTimesOut(c) PROVE OnceInv(r)'
  <2>1. UNCHANGED <<cmd, fresh, ppc, polled, executed, fileFaults, sent>>
    BY <1>3 DEF ClientReadsResult, ClientTimesOut, poller, clock
  <2>2. Written(r) => Written(r)'
    BY <1>3, <2>1 DEF ClientReadsResult, ClientTimesOut, Written, Types, ClientTypes
  <2> QED
    BY <2>1, <2>2
<1>4. CASE PollStat \/ PollRead \/ PollDispatch \/ PollWritesResult \/ PollTruncates
           \/ PollEmpties \/ PollFails \/ Tick \/ UNCHANGED fileVars
  <2>0. Written(r)' = Written(r)
    BY <1>4 DEF PollStat, PollRead, PollDispatch, PollWritesResult, PollTruncates,
       PollEmpties, PollFails, Tick, fileVars, client, Written
  <2> USE <2>0
  <2>1. CASE PollStat
    BY <2>1 DEF PollStat
  <2>2. CASE PollRead
    BY <2>2 DEF PollRead, clock
  <2>3. CASE PollDispatch
    BY <2>3 DEF PollDispatch, clock, Types, PollTypes
  <2>4. CASE PollWritesResult
    BY <2>4 DEF PollWritesResult, clock
  <2>5. CASE PollTruncates
    BY <2>5, RequestIsNoMark, FileCommandAssumption DEF PollTruncates, WriteCmd, Requests
  <2>6. CASE PollEmpties
    BY <2>6, RequestIsNoMark DEF PollEmpties, WriteCmd
  <2>7. CASE PollFails
    BY <2>7, FileCommandAssumption DEF PollFails, clock, Types, PollTypes, Requests
  <2>8. CASE Tick
    BY <2>8 DEF Tick, poller
  <2>9. CASE UNCHANGED fileVars
    BY <2>9 DEF fileVars
  <2> QED
    BY <1>4, <2>1, <2>2, <2>3, <2>4, <2>5, <2>6, <2>7, <2>8, <2>9
<1> QED
  BY <1>1, <1>2, <1>3, <1>4 DEF FileNext, Poll

\* No command is dispatched twice while no poll fails, and never more than twice
\* however many fail, for any number of clients writing at any moment.
THEOREM DispatchedOnce == FileSpec => []ExecutedOnce
<1>1. OnceForAll => ExecutedOnce
  BY DEF OnceForAll, OnceInv, ExecutedOnce
<1> QED
  BY <1>1, OnceInit, TypesNext, OnceNext, PTL DEF FileSpec

\* Results, and what clients were told, come from dispatched commands.
AnswerTypes ==
    /\ result \in Requests \cup {Nothing}
    /\ got \in [Clients -> Requests \cup {<<"timeout">>, Nothing}]

AnswerInv ==
    /\ AnswerTypes
    /\ ppc = "result" => executed[polled] >= 1
    /\ ResultOfExecuted

LEMMA AnswerInit == FileInit => AnswerInv
<1> SUFFICES ASSUME FileInit PROVE AnswerInv
  OBVIOUS
<1>1. Nothing \notin Requests
  BY FileCommandAssumption DEF Requests
<1> QED
  BY <1>1 DEF FileInit, AnswerInv, AnswerTypes, ResultOfExecuted

LEMMA AnswerNext == Types /\ AnswerInv /\ [FileNext]_fileVars => AnswerInv'
<1> SUFFICES ASSUME Types, AnswerInv, [FileNext]_fileVars PROVE AnswerInv'
  OBVIOUS
<1>0. Nothing \notin Requests
  BY FileCommandAssumption DEF Requests
<1> USE <1>0 DEF AnswerInv, AnswerTypes, ResultOfExecuted
<1>1. ASSUME NEW c \in Clients, ClientOpens(c) PROVE AnswerInv'
  BY <1>1 DEF ClientOpens, poller
<1>2. ASSUME NEW c \in Clients, ClientFills(c) PROVE AnswerInv'
  BY <1>2 DEF ClientFills, poller
<1>3. ASSUME NEW c \in Clients, ClientReadsResult(c) PROVE AnswerInv'
  BY <1>3 DEF ClientReadsResult, poller
<1>4. ASSUME NEW c \in Clients, ClientTimesOut(c) PROVE AnswerInv'
  <2>1. <<"timeout">> \notin Requests
    BY RequestIsNoMark
  <2> QED
    BY <1>4, <2>1 DEF ClientTimesOut, poller
<1>5. CASE PollDispatch
  <2>1. polled \in Requests /\ \A r \in Requests : executed[r] \in Nat
    BY <1>5 DEF PollDispatch, Types, PollTypes
  <2>2. \A r \in Requests : executed'[r] >= executed[r]
    BY <1>5, <2>1 DEF PollDispatch, Types, PollTypes
  <2>3. executed'[polled] >= 1
    BY <1>5, <2>1 DEF PollDispatch, Types, PollTypes
  <2>4. UNCHANGED <<result, got, polled>>
    BY <1>5 DEF PollDispatch, client
  <2>5. ResultOfExecuted'
    <3>1. \A r \in Requests : executed[r] >= 1 => executed'[r] >= 1
      <4>1. TAKE r \in Requests
      <4>2. executed'[r] \in Nat
        BY PollTypesNext DEF Types, PollTypes
      <4> QED
        BY <2>1, <2>2, <4>2
    <3> QED
      BY <2>4, <3>1
  <2> QED
    BY <2>3, <2>4, <2>5
<1>6. CASE PollWritesResult
  BY <1>6 DEF PollWritesResult, client, Types, PollTypes
<1>7. CASE PollStat \/ PollRead \/ PollTruncates \/ PollEmpties \/ PollFails
  BY <1>7 DEF PollStat, PollRead, PollTruncates, PollEmpties, PollFails, client
<1>8. CASE Tick \/ UNCHANGED fileVars
  BY <1>8 DEF Tick, fileVars, poller, client
<1> QED
  BY <1>1, <1>2, <1>3, <1>4, <1>5, <1>6, <1>7, <1>8 DEF FileNext, Poll

\* A result file answers a command that was dispatched, and so does whatever a
\* client was told, also when polls fail between dispatch and result.
THEOREM ResultsFromDispatches == FileSpec => []ResultOfExecuted
<1>1. AnswerInv => ResultOfExecuted
  BY DEF AnswerInv
<1> QED
  BY <1>1, OnceInit, AnswerInit, TypesNext, AnswerNext, PTL DEF FileSpec

\* The remaining parts of the type invariant.
Bounds ==
    /\ writtenNow \in BOOLEAN /\ seenNow \in BOOLEAN
    /\ fileFaults \in 0..MaxFileFaults

LEMMA BoundsNext == Bounds /\ [FileNext]_fileVars => Bounds'
<1> SUFFICES ASSUME Bounds, [FileNext]_fileVars PROVE Bounds'
  OBVIOUS
<1> USE FileCommandAssumption DEF Bounds, WriteCmd
<1>1. ASSUME NEW c \in Clients, ClientOpens(c) \/ ClientFills(c) PROVE Bounds'
  BY <1>1 DEF ClientOpens, ClientFills, poller
<1>2. CASE PollTruncates \/ PollEmpties \/ PollStat \/ Tick
  BY <1>2 DEF PollTruncates, PollEmpties, PollStat, Tick, poller
<1>3. CASE PollFails
  BY <1>3 DEF PollFails, clock
<1>4. CASE UNCHANGED <<writtenNow, seenNow, fileFaults>>
  BY <1>4
<1> QED
  BY <1>1, <1>2, <1>3, <1>4 DEF FileNext, Poll, PollRead, PollDispatch, PollWritesResult,
     ClientReadsResult, ClientTimesOut, fileVars, clock, poller

\* The type invariant: in particular no counter of dispatches exceeds two.
THEOREM FileTypeCorrect == FileSpec => []FileTypeOK
<1>1. FileInit => Bounds
  <2>1. 0 \in 0..MaxFileFaults
    BY FileCommandAssumption
  <2> QED
    BY <2>1 DEF FileInit, Bounds
<1>2. Types /\ OnceForAll /\ AnswerInv /\ Bounds => FileTypeOK
  <2> SUFFICES ASSUME Types, OnceForAll, AnswerInv, Bounds PROVE FileTypeOK
    OBVIOUS
  <2>1. executed \in [Requests -> 0..2]
    <3>1. \A r \in Requests : executed[r] \in 0..2
      BY DEF Types, PollTypes, OnceForAll, OnceInv
    <3> QED
      BY <3>1 DEF Types, PollTypes
  <2> QED
    BY <2>1 DEF Types, FileTypes, PollTypes, ClientTypes, AnswerInv, AnswerTypes,
       Bounds, FileTypeOK
<1> QED
  BY <1>1, <1>2, OnceInit, AnswerInit, TypesNext, OnceNext, AnswerNext, BoundsNext,
     PTL DEF FileSpec
===========================================================================
