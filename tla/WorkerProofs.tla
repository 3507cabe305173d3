---------------------------- MODULE WorkerProofs ----------------------------
(***************************************************************************)
(* Proofs about supervised workers, for pipes of any length: no session    *)
(* refuses a message of the other end; what run_refresh_worker returns is  *)
(* true of the graph; a portable candidate comes from a clean end.         *)
(*                                                                         *)
(* ChannelInv is the agreement of the two sessions and the two pipes, for  *)
(* a worker of either kind in a given phase.  RefreshInv and PortableInv   *)
(* are what makes the results true.                                        *)
(***************************************************************************)
EXTENDS Workers, TLAPS

\* Most leaves are first-order and go to Zenon; those with arithmetic cite SMT.
USE Zenon

-----------------------------------------------------------------------------
(* The inductive invariants *)

UpTypes == {"worker_hello", "progress", "heartbeat", "cancel_ack", "result",
            "error", "stray"}

Messages == [type : UpTypes, claim : Claims \cup {"none"}]

Sessions == [state : SessionStates, terminal : Claims \cup {"none"}]

Start == Message("job_start")
Cancel == Message("cancel")

\* What the supervisor may have written and the worker not yet read.
Inputs == {<<>>, <<Start>>, <<Cancel>>, <<Start, Cancel>>}

Ends(m) == m.type \in {"result", "error"}

Acks(m) == m.type = "cancel_ack"

\* The phases of a worker's side of the protocol.
Phases == {"boot", "await_start", "work", "said"}

\* The states of a session once job_start is sent.
Started == {"running", "cancel_requested", "cancelling", "terminal"}

\* The supervising thread and its session.
SendInv ==
    /\ ~reader.err
    /\ session.state = "terminal" <=> session.terminal # "none"
    /\ reader.hello <=> session.state # "awaiting_hello"
    /\ sup.at = "start" => reader.hello
    /\ sup.at \in {"hello", "start"} =>
          session.state \in {"awaiting_hello", "awaiting_start"}
    /\ sup.at \in {"watch", "send"} => session.state \in Started
    /\ sup.at = "send" => ~sup.cancelSent
    /\ session.state \in {"cancel_requested", "cancelling"} => sup.cancelSent

\* Before the worker has read job_start.
OpeningInv(phase) ==
    /\ phase = "boot" =>
          /\ up = <<>>
          /\ wsession.state = "awaiting_hello"
          /\ session.state = "awaiting_hello"
    /\ phase = "await_start" =>
          /\ wsession.state = "awaiting_start"
          /\ up \in {<<>>, <<Message("worker_hello")>>}
          /\ up # <<>> => session.state = "awaiting_hello"
    /\ phase \in {"boot", "await_start"} =>
          \/ session.state \in {"awaiting_hello", "awaiting_start"} /\ down = <<>>
          \/ session.state = "running" /\ down = <<Start>>
          \/ session.state = "cancel_requested" /\ down = <<Start, Cancel>>

\* From then on.
TalkInv(phase) ==
    phase \in {"work", "said"} =>
        /\ down \in {<<>>, <<Cancel>>}
        /\ session.state \in Started
        /\ \A k \in DOMAIN up :
              /\ up[k].type \in {"progress", "heartbeat", "cancel_ack", "result", "error"}
              /\ Ends(up[k]) => phase = "said" /\ k = Len(up) /\ up[k].claim # "none"
              /\ Acks(up[k]) => session.state = "cancel_requested" /\ down = <<>>
        /\ \A j, k \in DOMAIN up : Acks(up[j]) /\ Acks(up[k]) => j = k
        /\ session.state = "terminal" => phase = "said" /\ up = <<>>
        /\ session.state = "running" => down = <<>>
        /\ session.state = "cancelling" => down = <<>>
        /\ phase = "work" =>
              /\ wsession.state \in {"running", "cancelling"}
              /\ wsession.state = "cancelling" => down = <<>> /\ sup.cancelSent
              /\ wsession.state = "running" =>
                    /\ session.state # "cancelling"
                    /\ \A k \in DOMAIN up : ~Acks(up[k])

\* The pipes and the two sessions agree.
ChannelInv(phase) ==
    /\ phase \in Phases
    /\ down \in Inputs
    /\ SendInv
    /\ OpeningInv(phase)
    /\ TalkInv(phase)

\* The types of what ChannelInv is about.
ChannelOK ==
    /\ SupTypeOK
    /\ cancel \in BOOLEAN
    /\ wsession \in Sessions
    /\ down \in Seq({Start, Cancel})
    /\ up \in Seq(Messages)

RefreshPhase ==
    IF wk.at \in {"boot", "await_start", "said"} THEN wk.at ELSE "work"

PortablePhase ==
    IF pw.at \in {"boot", "await_start", "said"} THEN pw.at ELSE "work"

-----------------------------------------------------------------------------

\* What a claim says of the graph.
ClaimIsTrue(claim) ==
    /\ claim = "succeeded" => run
    /\ claim \in {"cancelled", "failed_not_started", "failed_rolled_back"} =>
          ~run /\ backend = "none"

BeforeGate == {"boot", "await_start", "first", "capture", "staging", "checked"}

\* A worker has a claim from the moment its work is over.
ClaimedInv == wk.claim # "none" <=> wk.at \in {"finishing", "last", "said"}

\* The worker and the final transaction.
TransactionInv ==
    /\ ClaimedInv
    /\ ClaimIsTrue(wk.claim)
    /\ run \/ backend = "committing" => wk.started
    /\ wk.started => decision = "transaction_started"
    /\ wk.at \in BeforeGate => ~wk.started
    /\ wk.at \in {"publishing", "commit_sent", "unwinding"} => wk.started
    /\ wk.at = "publishing" => ~run /\ backend = "none"
    /\ wk.at = "unwinding" => run
    /\ backend = "committing" => ~run

\* A terminal that was written is the worker's claim, and its last word.
ClaimInv(claim, said) ==
    /\ \A k \in DOMAIN up :
          up[k].claim # "none" => up[k].claim = claim /\ said
    /\ session.terminal # "none" => session.terminal = claim /\ said

\* The supervising thread.
JudgeInv ==
    /\ sup.waited => ~Running
    /\ sup.at \in {"judge", "judged"} => reader.eof
    /\ sup.at = "judged" /\ ~sup.synthesized => session.terminal # "none"

\* What was returned stays true: the worker can do no more.
ReturnInv ==
    sup.at = "returned" =>
        /\ result.status = "succeeded" => run
        /\ result.status = "cancelled" => result.pub = "not_started"
        /\ result.pub \in {"not_started", "rolled_back"} =>
              ~run /\ backend = "none" /\ (~Running \/ wk.at = "said")

RefreshInv ==
    /\ WorkerTypeOK
    /\ ChannelOK
    /\ TransactionInv
    /\ ClaimInv(wk.claim, wk.at = "said")
    /\ JudgeInv
    /\ ReturnInv

\* The threads of the portable worker.
ThreadsInv ==
    /\ pw.reading \/ pw.beating => pw.at \in {"work", "settle"}
    /\ pw.at \in {"boot", "await_start"} => ~pw.cancel
    /\ pw.cancel /\ pw.at \in {"emit", "said"} => pw.claim = "cancelled"
    /\ pw.at \in {"settle", "emit", "said"} => pw.claim # "none"
    /\ pw.at = "settle" => pw.stop
    /\ helper => pw.at = "work"
    /\ proc = "exited" => pw.at = "said"

\* What the supervising thread did to the portable worker's process group.
GroupInv ==
    /\ sup.waited => ~Running
    /\ sup.at \in {"judge", "judged"} => reader.eof
    /\ sup.at \in {"term_wait", "kill_wait"} => sup.stopped
    /\ sup.at = "cleanup" => sup.waited \/ sup.stopped
    /\ sig # "none" => sup.stopped \/ proc = "failed"
    /\ /\ sup.at = "judged"
       /\ ~sup.synthesized
       /\ session.terminal = "succeeded"
       => proc = "exited" /\ ~sup.stopped
    /\ captured = "candidate" =>
          sup.at = "returned" /\ proc = "exited" /\ ~sup.stopped

PortableInv ==
    /\ PortableTypeOK
    /\ ChannelOK
    /\ ThreadsInv
    /\ ClaimInv(pw.claim, pw.at = "said")
    /\ GroupInv

\* The types of a refresh worker's run.
RefreshOK == WorkerTypeOK /\ ChannelOK

\* The invariants of the kinds of supervised worker.
QuietInv ==
    kind = "quiet" => RefreshOK /\ ClaimedInv /\ ChannelInv(RefreshPhase)

TruthInv == kind \in {"quiet", "noisy"} => RefreshInv

PortableKindInv ==
    kind = "portable" => PortableInv /\ ChannelInv(PortablePhase) /\ result = NoResult

-----------------------------------------------------------------------------
(* The sessions' operators *)

ST == INSTANCE SequenceTheorems

\* The messages either end writes (_protocol_messages) are what they say.
LEMMA MessageFields ==
    /\ Start.type = "job_start" /\ Start.claim = "none"
    /\ Cancel.type = "cancel" /\ Cancel.claim = "none"
    /\ \A t \in UpTypes : /\ Message(t) \in Messages
                          /\ Message(t).type = t
                          /\ Message(t).claim = "none"
    /\ \A c \in Claims : /\ Terminal(c) \in Messages
                         /\ Ends(Terminal(c))
                         /\ Terminal(c).claim = c
BY DEF Start, Cancel, Message, Messages, Terminal, Ends, UpTypes, Claims

\* _advance on a message of either direction: the state it leads to, and that
\* only a terminal message records a terminal.
LEMMA AdvancedFields ==
    ASSUME NEW s \in Sessions, NEW m \in Messages \cup {Start, Cancel}
    PROVE  /\ Advanced(s, m) \in Sessions
           /\ m.type = "worker_hello" => Advanced(s, m).state = "awaiting_start"
           /\ m.type = "job_start" => Advanced(s, m).state = "running"
           /\ m.type = "cancel" => Advanced(s, m).state = "cancel_requested"
           /\ m.type = "cancel_ack" => Advanced(s, m).state = "cancelling"
           /\ Ends(m) => Advanced(s, m).state = "terminal"
           /\ m.type \in {"progress", "heartbeat", "stray"} => Advanced(s, m) = s
           /\ Advanced(s, m).terminal = IF Ends(m) THEN m.claim ELSE s.terminal
<1>1. /\ m.type \in UpTypes \cup {"job_start", "cancel"}
      /\ m.claim \in Claims \cup {"none"}
  BY MessageFields DEF Messages
<1>2. /\ s.state \in SessionStates /\ s.terminal \in Claims \cup {"none"}
      /\ s = [state |-> s.state, terminal |-> s.terminal]
  BY DEF Sessions
<1>3. CASE m.type = "worker_hello"
  <2>1. Advanced(s, m) = [s EXCEPT !.state = "awaiting_start"]
    BY <1>3 DEF Advanced
  <2> QED  BY <2>1, <1>2, <1>3 DEF Sessions, SessionStates, Ends
<1>4. CASE m.type = "job_start"
  <2>1. Advanced(s, m) = [s EXCEPT !.state = "running"]
    BY <1>4 DEF Advanced
  <2> QED  BY <2>1, <1>2, <1>4 DEF Sessions, SessionStates, Ends
<1>5. CASE m.type = "cancel"
  <2>1. Advanced(s, m) = [s EXCEPT !.state = "cancel_requested"]
    BY <1>5 DEF Advanced
  <2> QED  BY <2>1, <1>2, <1>5 DEF Sessions, SessionStates, Ends
<1>6. CASE m.type = "cancel_ack"
  <2>1. Advanced(s, m) = [s EXCEPT !.state = "cancelling"]
    BY <1>6 DEF Advanced
  <2> QED  BY <2>1, <1>2, <1>6 DEF Sessions, SessionStates, Ends
<1>7. CASE Ends(m)
  <2>1. Advanced(s, m) = [state |-> "terminal", terminal |-> m.claim]
    BY <1>7 DEF Advanced, Ends
  <2> QED  BY SMT, <2>1, <1>1, <1>7 DEF Sessions, SessionStates, Ends
<1>8. CASE m.type \in {"progress", "heartbeat", "stray"}
  <2>1. Advanced(s, m) = s
    BY <1>8 DEF Advanced
  <2> QED  BY <2>1, <1>2, <1>8 DEF Sessions, SessionStates, Ends
<1> QED  BY <1>1, <1>3, <1>4, <1>5, <1>6, <1>7, <1>8 DEF UpTypes, Ends

\* What the reader takes from standard output is its first line.
LEMMA FirstLine ==
    ASSUME NEW q \in Seq(Messages), q # <<>>
    PROVE  /\ Head(q) = q[1] /\ Head(q) \in Messages /\ 1 \in DOMAIN q
           /\ Tail(q) \in Seq(Messages)
           /\ Len(q) \in Nat /\ Len(q) # 0
           /\ Len(Tail(q)) = Len(q) - 1
           /\ \A k \in DOMAIN Tail(q) : /\ k + 1 \in DOMAIN q
                                        /\ Tail(q)[k] = q[k + 1]
           /\ Len(q) = 1 => Tail(q) = <<>>
<1>1. /\ Len(q) \in Nat /\ Len(q) # 0 /\ DOMAIN q = 1..Len(q)
  BY SMT
<1>2. Head(q) = q[1] /\ 1 \in DOMAIN q /\ q[1] \in Messages
  BY SMT, <1>1
<1>3. Tail(q) \in Seq(Messages) /\ Len(Tail(q)) = Len(q) - 1
  BY SMT, <1>1
<1>4. \A k \in 1..(Len(q) - 1) : Tail(q)[k] = q[k + 1]
  BY ST!HeadTailProperties
<1>5. Len(q) = 1 => Tail(q) = <<>>
  <2>1. Len(q) = 1 => Len(Tail(q)) = 0
    BY SMT, <1>3
  <2> QED  BY <2>1, <1>3, ST!EmptySeq
<1>6. \A k \in 1..(Len(q) - 1) : k + 1 \in 1..Len(q)
  BY SMT, <1>1
<1>7. DOMAIN Tail(q) = 1..(Len(q) - 1)
  BY SMT, <1>3
<1> QED  BY <1>1, <1>2, <1>3, <1>4, <1>5, <1>6, <1>7

\* A line that is written is the last one.
LEMMA LastLine ==
    ASSUME NEW q \in Seq(Messages), NEW m \in Messages
    PROVE  /\ Append(q, m) \in Seq(Messages)
           /\ Append(q, m) # <<>>
           /\ Len(Append(q, m)) = Len(q) + 1
           /\ \A k \in DOMAIN Append(q, m) :
                 \/ k \in DOMAIN q /\ Append(q, m)[k] = q[k]
                 \/ k = Len(q) + 1 /\ Append(q, m)[k] = m
<1> DEFINE a == Append(q, m)
<1>1. a \in Seq(Messages) /\ Len(a) = Len(q) + 1 /\ Len(q) \in Nat
  BY SMT
<1>2. DOMAIN a = 1..(Len(q) + 1) /\ DOMAIN q = 1..Len(q)
  BY SMT, <1>1
<1>3. \A k \in 1..Len(q) : a[k] = q[k]
  BY SMT
<1>4. a[Len(q) + 1] = m
  BY SMT
<1> HIDE DEF a
<1>5. \A k \in 1..(Len(q) + 1) : k \in 1..Len(q) \/ k = Len(q) + 1
  BY SMT, <1>1
<1>6. a # <<>>
  BY SMT, <1>1
<1> QED  BY <1>1, <1>2, <1>3, <1>4, <1>5, <1>6 DEF a

\* What the worker reads from its standard input.
LEMMA InputLines ==
    /\ Head(<<Start>>) = Start /\ Tail(<<Start>>) = <<>>
    /\ Head(<<Cancel>>) = Cancel /\ Tail(<<Cancel>>) = <<>>
    /\ Head(<<Start, Cancel>>) = Start /\ Tail(<<Start, Cancel>>) = <<Cancel>>
    /\ <<Start>> # <<>> /\ <<Cancel>> # <<>> /\ <<Start, Cancel>> # <<>>
    /\ <<Start>> # <<Cancel>> /\ <<Start, Cancel>> # <<Start>>
    /\ <<Start, Cancel>> # <<Cancel>>
    /\ Append(<<>>, Cancel) = <<Cancel>>
    /\ Append(<<Start>>, Cancel) = <<Start, Cancel>>
    /\ <<>> \o <<Start>> \o <<>> = <<Start>>
    /\ <<>> \o <<Start>> \o <<Cancel>> = <<Start, Cancel>>
    /\ Len(<<Cancel>>) = 1
<1> DEFINE S == Start  C == Cancel
<1>1. S # C
  BY MessageFields
<1> HIDE DEF S, C
<1>2. /\ Head(<<S>>) = S /\ Tail(<<S>>) = <<>>
      /\ Head(<<C>>) = C /\ Tail(<<C>>) = <<>>
      /\ Head(<<S, C>>) = S 
      /\ <<S>> # <<>> /\ <<C>> # <<>> /\ <<S, C>> # <<>>
      /\ Len(<<C>>) = 1
  BY SMT
<1>3. Tail(<<S, C>>) = <<C>>
  BY SMT
<1>4. <<S>> # <<C>> /\ <<S, C>> # <<S>> /\ <<S, C>> # <<C>>
  BY <1>1
<1> DEFINE M == {S, C}
<1>m. <<>> \in Seq(M) /\ <<S>> \in Seq(M) /\ <<C>> \in Seq(M) /\ <<S, C>> \in Seq(M)
  BY SMT
<1>5. Append(<<>>, C) = <<C>>
  BY SMT
<1>7. Append(<<S>>, C) = <<S, C>>
  <2>1. /\ Append(<<S>>, C) \in Seq(M) /\ Len(Append(<<S>>, C)) = 2
        /\ Append(<<S>>, C)[1] = S /\ Append(<<S>>, C)[2] = C
    BY SMT, <1>m
  <2>2. \A k \in 1..2 : k = 1 \/ k = 2
    BY SMT
  <2>3. Len(<<S, C>>) = 2 /\ <<S, C>>[1] = S /\ <<S, C>>[2] = C
    OBVIOUS
  <2>4. \A k \in 1..Len(Append(<<S>>, C)) : Append(<<S>>, C)[k] = <<S, C>>[k]
    BY <2>1, <2>2, <2>3
  <2> HIDE DEF M
  <2> QED  BY <2>1, <2>3, <2>4, <1>m, ST!SeqEqual
<1>6. /\ <<>> \o <<S>> = <<S>> /\ <<S>> \o <<>> = <<S>>
      /\ <<S>> \o <<C>> = <<S, C>>
  <2>1. <<>> \o <<S>> = <<S>> /\ <<S>> \o <<>> = <<S>>
    BY <1>m, ST!ConcatEmptySeq
  <2>2. /\ <<S>> \o <<C>> \in Seq(M) /\ Len(<<S>> \o <<C>>) = 2
        /\ (<<S>> \o <<C>>)[1] = S /\ (<<S>> \o <<C>>)[2] = C
    BY SMT, <1>m
  <2>3. \A k \in 1..2 : k = 1 \/ k = 2
    BY SMT
  <2>4. Len(<<S, C>>) = 2 /\ <<S, C>>[1] = S /\ <<S, C>>[2] = C
    OBVIOUS
  <2>5. \A k \in 1..Len(<<S>> \o <<C>>) : (<<S>> \o <<C>>)[k] = <<S, C>>[k]
    BY <2>2, <2>3, <2>4
  <2>6. <<S>> \o <<C>> = <<S, C>>
    <3> HIDE DEF M
    <3> QED  BY <2>2, <2>4, <2>5, <1>m, ST!SeqEqual
  <2> QED  BY <2>1, <2>6
<1> QED  BY <1>2, <1>3, <1>4, <1>5, <1>6, <1>7 DEF S, C

-----------------------------------------------------------------------------
(* The channel: one lemma per way a line is written or read *)

\* The supervising thread moves on, or time passes, and neither pipe nor a
\* session changes.
LEMMA ChannelFrame ==
    ASSUME NEW p, ChannelInv(p),
           UNCHANGED <<up, down, session, wsession>>,
           reader'.err = reader.err, reader'.hello = reader.hello,
           sup'.cancelSent = sup.cancelSent,
           sup'.at \in {"hello", "start", "watch", "send"} => sup'.at = sup.at
    PROVE  ChannelInv(p)'
<1>1. SendInv'
  BY DEF ChannelInv, SendInv
<1>2. OpeningInv(p)'
  BY DEF ChannelInv, OpeningInv
<1>3. TalkInv(p)'
  BY DEF ChannelInv, TalkInv, Ends, Acks
<1> QED  BY <1>1, <1>2, <1>3 DEF ChannelInv

\* Whatever the reader finds at the head of the pipe, its session accepts it
\* (_validate_order).
LEMMA HeadIsAccepted ==
    ASSUME NEW p, ChannelOK, ChannelInv(p), up # <<>>
    PROVE  /\ Accepts(session, Head(up))
           /\ session.state = "awaiting_hello" =>
                 /\ p = "await_start" /\ Head(up).type = "worker_hello"
                 /\ Tail(up) = <<>>
           /\ session.state # "awaiting_hello" =>
                 p \in {"work", "said"} /\ Head(up).type # "worker_hello"
<1>1. Head(up) = up[1] /\ 1 \in DOMAIN up
  BY FirstLine DEF ChannelOK
<1>2. CASE p = "boot"
  BY <1>2 DEF ChannelInv, OpeningInv
<1>3. CASE p = "await_start"
  <2>1. up = <<Message("worker_hello")>> /\ session.state = "awaiting_hello"
    BY <1>3 DEF ChannelInv, OpeningInv
  <2>2. Head(up) = Message("worker_hello") /\ Tail(up) = <<>>
    BY SMT, <2>1
  <2>3. Head(up).type = "worker_hello"
    BY <2>2, MessageFields DEF UpTypes
  <2> QED  BY <2>1, <2>2, <2>3, <1>3 DEF Accepts, Allowed
<1>4. CASE p \in {"work", "said"}
  <2>1. /\ Head(up).type \in {"progress", "heartbeat", "cancel_ack", "result", "error"}
        /\ Acks(Head(up)) => session.state = "cancel_requested"
        /\ session.state \in Started \ {"terminal"}
    BY <1>4, <1>1 DEF ChannelInv, TalkInv
  <2> QED  BY <2>1, <1>4 DEF Acks, Started, Accepts, Allowed
<1> QED  BY <1>2, <1>3, <1>4 DEF ChannelInv, Phases

\* The reader takes a line (_read_worker_stdout).
LEMMA ChannelReads ==
    ASSUME NEW p, ChannelOK, ChannelInv(p), read_worker_stdout, UNCHANGED wsession
    PROVE  ChannelInv(p)'
<1> DEFINE m == Head(up)
<1>1. /\ up # <<>> /\ up' = Tail(up)
      /\ ~reader.err
      /\ session' = Advanced(session, m)
      /\ reader' = [reader EXCEPT !.hello = @ \/ m.type = "worker_hello"]
      /\ UNCHANGED <<down, sup, wsession>>
  BY HeadIsAccepted DEF read_worker_stdout, ChannelInv, SendInv
<1>2. /\ m \in Messages /\ m = up[1] /\ 1 \in DOMAIN up
      /\ Len(up) \in Nat /\ Len(up') = Len(up) - 1
      /\ \A k \in DOMAIN up' : k + 1 \in DOMAIN up /\ up'[k] = up[k + 1]
      /\ Len(up) = 1 => up' = <<>>
  BY <1>1, FirstLine DEF ChannelOK
<1>3. session \in Sessions
  BY DEF ChannelOK, SupTypeOK, Sessions
<1>4. /\ m.type = "worker_hello" => session'.state = "awaiting_start"
      /\ Acks(m) => session'.state = "cancelling"
      /\ Ends(m) => session'.state = "terminal"
      /\ m.type \in {"progress", "heartbeat", "stray"} => session' = session
      /\ session'.terminal = IF Ends(m) THEN m.claim ELSE session.terminal
  BY <1>1, <1>2, <1>3, AdvancedFields DEF Acks
<1>5. /\ reader'.err = reader.err /\ reader.hello \in BOOLEAN
      /\ reader'.hello = (reader.hello \/ m.type = "worker_hello")
  BY <1>1 DEF ChannelOK, SupTypeOK
<1>6. /\ session.state = "awaiting_hello" =>
            p = "await_start" /\ m.type = "worker_hello" /\ up' = <<>>
      /\ session.state # "awaiting_hello" =>
            p \in {"work", "said"} /\ m.type # "worker_hello"
  BY <1>1, HeadIsAccepted
<1> HIDE DEF m
<1>7. CASE session.state = "awaiting_hello"
  <2>1. /\ p = "await_start" /\ m.type = "worker_hello" /\ up' = <<>>
        /\ session'.state = "awaiting_start" /\ session'.terminal = session.terminal
        /\ ~reader'.err /\ reader'.hello
    BY <1>1, <1>4, <1>5, <1>6, <1>7 DEF Ends
  <2>2. SendInv'
    BY <2>1, <1>1, <1>7 DEF ChannelInv, SendInv, Started
  <2>3. OpeningInv(p)'
    BY <2>1, <1>1, <1>7 DEF ChannelInv, OpeningInv
  <2>4. TalkInv(p)'
    BY <2>1 DEF TalkInv
  <2> QED  BY <2>2, <2>3, <2>4, <1>1 DEF ChannelInv
<1>8. CASE session.state # "awaiting_hello"
  <2>1. /\ p \in {"work", "said"} /\ m.type # "worker_hello"
        /\ m.type \in {"progress", "heartbeat", "cancel_ack", "result", "error"}
        /\ session.state \in Started \ {"terminal"}
        /\ Ends(m) => p = "said" /\ Len(up) = 1 /\ m.claim # "none"
        /\ Acks(m) => session.state = "cancel_requested" /\ down = <<>>
    <3>1. p \in {"work", "said"} /\ m.type # "worker_hello"
      BY <1>6, <1>8
    <3>2. session.state \in Started \ {"terminal"}
      BY <3>1, <1>1 DEF ChannelInv, TalkInv
    <3>3. \A k \in DOMAIN up :
             /\ up[k].type \in {"progress", "heartbeat", "cancel_ack", "result", "error"}
             /\ Ends(up[k]) => p = "said" /\ k = Len(up) /\ up[k].claim # "none"
             /\ Acks(up[k]) => session.state = "cancel_requested" /\ down = <<>>
      BY <3>1 DEF ChannelInv, TalkInv
    <3> QED  BY <3>1, <3>2, <3>3, <1>2
  <2>2. reader'.hello = reader.hello
    BY <2>1, <1>5
  <2>3. \/ session' = session /\ ~Acks(m) /\ ~Ends(m)
        \/ /\ session'.state = "cancelling" /\ session'.terminal = session.terminal
           /\ Acks(m) /\ ~Ends(m)
        \/ /\ session'.state = "terminal" /\ session'.terminal = m.claim
           /\ ~Acks(m) /\ Ends(m)
    BY <2>1, <1>4 DEF Acks, Ends
  <2>5. SendInv'
    BY <2>1, <2>2, <2>3, <1>1, <1>5, <1>8 DEF ChannelInv, SendInv, Started
  <2>6. OpeningInv(p)'
    BY <2>1 DEF OpeningInv
  <2>4. \A k \in DOMAIN up' : ~Ends(m) /\ (Acks(m) => ~Acks(up'[k]))
    <3> SUFFICES ASSUME NEW k \in DOMAIN up'
                 PROVE  ~Ends(m) /\ (Acks(m) => ~Acks(up'[k]))
      OBVIOUS
    <3>1. k + 1 \in DOMAIN up /\ up'[k] = up[k + 1] /\ k \in 1..(Len(up) - 1)
      BY SMT, <1>2, FirstLine, <1>1 DEF ChannelOK
    <3>2. Len(up) # 1 /\ k + 1 # 1
      BY SMT, <3>1, <1>2
    <3>3. \A j, l \in DOMAIN up : Acks(up[j]) /\ Acks(up[l]) => j = l
      BY <2>1 DEF ChannelInv, TalkInv
    <3> QED  BY <3>1, <3>2, <3>3, <2>1, <1>2
  <2>7. \A k \in DOMAIN up' :
           /\ up'[k].type \in {"progress", "heartbeat", "cancel_ack", "result", "error"}
           /\ Ends(up'[k]) => p = "said" /\ k = Len(up') /\ up'[k].claim # "none"
           /\ Acks(up'[k]) => session'.state = "cancel_requested" /\ down = <<>>
    <3> SUFFICES ASSUME NEW k \in DOMAIN up'
                 PROVE  /\ up'[k].type \in {"progress", "heartbeat", "cancel_ack", "result", "error"}
                        /\ Ends(up'[k]) => p = "said" /\ k = Len(up') /\ up'[k].claim # "none"
                        /\ Acks(up'[k]) => session'.state = "cancel_requested" /\ down = <<>>
      OBVIOUS
    <3>1. k + 1 \in DOMAIN up /\ up'[k] = up[k + 1] /\ k \in Nat
      BY SMT, <1>2, FirstLine, <1>1 DEF ChannelOK
    <3>2. /\ up[k + 1].type \in {"progress", "heartbeat", "cancel_ack", "result", "error"}
          /\ Ends(up[k + 1]) => p = "said" /\ k + 1 = Len(up) /\ up[k + 1].claim # "none"
          /\ Acks(up[k + 1]) => session.state = "cancel_requested" /\ down = <<>>
      BY <3>1, <2>1 DEF ChannelInv, TalkInv
    <3>3. k + 1 = Len(up) => k = Len(up')
      BY SMT, <3>1, <1>2
    <3>4. Acks(up'[k]) => session' = session
      BY <2>3, <2>4
    <3> QED  BY <3>1, <3>2, <3>3, <3>4
  <2>8. \A j, k \in DOMAIN up' : Acks(up'[j]) /\ Acks(up'[k]) => j = k
    <3> SUFFICES ASSUME NEW j \in DOMAIN up', NEW k \in DOMAIN up',
                        Acks(up'[j]), Acks(up'[k])
                 PROVE  j = k
      OBVIOUS
    <3>1. /\ k + 1 \in DOMAIN up /\ up'[k] = up[k + 1] /\ k \in Nat
          /\ j + 1 \in DOMAIN up /\ up'[j] = up[j + 1] /\ j \in Nat
      BY SMT, <1>2, FirstLine, <1>1 DEF ChannelOK
    <3>2. j + 1 = k + 1
      BY <3>1, <2>1 DEF ChannelInv, TalkInv
    <3> QED  BY SMT, <3>1, <3>2
  <2>9. TalkInv(p)'
    <3>1. /\ session'.state \in Started
          /\ session'.state = "terminal" => p = "said" /\ up' = <<>>
          /\ session'.state \in {"running", "cancelling"} => down = <<>>
          /\ down \in {<<>>, <<Cancel>>}
      BY <2>1, <2>3, <1>2 DEF ChannelInv, TalkInv, Started
    <3>2. p = "work" =>
             /\ wsession.state \in {"running", "cancelling"}
             /\ wsession.state = "cancelling" => down = <<>> /\ sup.cancelSent
      BY DEF ChannelInv, TalkInv
    <3>3. p = "work" /\ wsession.state = "running" =>
             ~Acks(m) /\ session.state # "cancelling"
      BY <1>2 DEF ChannelInv, TalkInv
    <3>4. p = "work" /\ wsession.state = "running" =>
             session'.state # "cancelling"
      BY <3>3, <2>3
    <3>5. p = "work" /\ wsession.state = "running" =>
             \A k \in DOMAIN up' : ~Acks(up'[k])
      BY <1>2 DEF ChannelInv, TalkInv
    <3> QED  BY <3>1, <3>2, <3>4, <3>5, <2>7, <2>8, <1>1 DEF TalkInv
  <2> QED  BY <2>5, <2>6, <2>9, <1>1 DEF ChannelInv
<1> QED  BY <1>7, <1>8

\* job_start, and with it the cancel already asked for (_run_protocol_worker).
LEMMA ChannelStarts ==
    ASSUME NEW p, ChannelOK, ChannelInv(p), send_start, UNCHANGED wsession
    PROVE  ChannelInv(p)'
<1>1. CASE ~Running
  <2>1. /\ UNCHANGED <<up, down, session, wsession, reader>>
        /\ sup' = [sup EXCEPT !.at = "raised"]
    BY <1>1 DEF send_start, Goto
  <2>2. sup'.at = "raised" /\ sup'.cancelSent = sup.cancelSent
    BY <2>1 DEF ChannelOK, SupTypeOK
  <2> QED  BY <2>1, <2>2, ChannelFrame
<1>2. CASE Running
  <2> DEFINE s == Advanced(session, Start)
  <2>1. /\ session.state = "awaiting_start" /\ session.terminal = "none"
        /\ session \in Sessions /\ reader.hello /\ ~reader.err
    BY DEF ChannelOK, SupTypeOK, Sessions, ChannelInv, SendInv, send_start
  <2>2. p \in {"boot", "await_start"} /\ down = <<>> /\ up = <<>>
    BY <2>1 DEF ChannelInv, OpeningInv, TalkInv, Phases, Started
  <2>3. s \in Sessions /\ s.state = "running" /\ s.terminal = "none"
    BY SMT, <2>1, AdvancedFields, MessageFields DEF Ends
  <2>4. Advanced(s, Cancel).state = "cancel_requested"
        /\ Advanced(s, Cancel).terminal = "none"
    BY SMT, <2>3, AdvancedFields, MessageFields DEF Ends
  <2>5. /\ session' = IF cancel THEN Advanced(s, Cancel) ELSE s
        /\ down' = down \o <<Start>> \o (IF cancel THEN <<Cancel>> ELSE <<>>)
        /\ sup' = [sup EXCEPT !.at = "watch", !.cancelSent = cancel]
        /\ UNCHANGED <<up, reader, wsession>>
    BY <1>2 DEF send_start, Start, Cancel
  <2>6. sup'.at = "watch" /\ sup'.cancelSent = cancel
    BY <2>5 DEF ChannelOK, SupTypeOK
  <2>7. \/ /\ session'.state = "running" /\ down' = <<Start>>
           /\ session'.terminal = "none"
        \/ /\ session'.state = "cancel_requested" /\ down' = <<Start, Cancel>>
           /\ session'.terminal = "none" /\ sup'.cancelSent
    BY <2>2, <2>3, <2>4, <2>5, <2>6, InputLines
  <2> HIDE DEF s
  <2>8. SendInv'
    BY <2>1, <2>5, <2>6, <2>7 DEF SendInv, Started
  <2>9. OpeningInv(p)'
    BY <2>1, <2>2, <2>5, <2>7 DEF ChannelInv, OpeningInv
  <2>10. TalkInv(p)'
    BY <2>2 DEF TalkInv
  <2>11. down' \in Inputs
    BY <2>7 DEF Inputs
  <2> QED  BY <2>8, <2>9, <2>10, <2>11 DEF ChannelInv
<1> QED  BY <1>1, <1>2

\* The cancel of a running attempt (_send_coordinator).
LEMMA ChannelCancels ==
    ASSUME NEW p, ChannelOK, ChannelInv(p), send_cancel, UNCHANGED wsession
    PROVE  ChannelInv(p)'
<1>0. sup.at = "send" /\ session.state \in Started /\ ~sup.cancelSent
  BY DEF send_cancel, ChannelInv, SendInv
<1>1. CASE session.terminal # "none"
  <2>1. /\ UNCHANGED <<up, down, session, wsession, reader>>
        /\ sup' = [sup EXCEPT !.at = "watch"]
    BY <1>1 DEF send_cancel, Goto
  <2>2. sup'.at = "watch" /\ sup'.cancelSent = sup.cancelSent
    BY <2>1 DEF ChannelOK, SupTypeOK
  <2>3. SendInv'
    BY <1>0, <2>1, <2>2 DEF ChannelInv, SendInv
  <2>4. OpeningInv(p)'
    BY <2>1 DEF ChannelInv, OpeningInv
  <2>5. TalkInv(p)'
    BY <2>1, <2>2 DEF ChannelInv, TalkInv, Ends, Acks
  <2> QED  BY <2>1, <2>3, <2>4, <2>5 DEF ChannelInv
<1>2. CASE session.terminal = "none" /\ ~Running
  <2>1. /\ UNCHANGED <<up, down, session, wsession, reader>>
        /\ sup' = [sup EXCEPT !.at = "raised"]
    BY <1>2 DEF send_cancel, Goto
  <2>2. sup'.at = "raised" /\ sup'.cancelSent = sup.cancelSent
    BY <2>1 DEF ChannelOK, SupTypeOK
  <2> QED  BY <2>1, <2>2, ChannelFrame
<1>3. CASE session.terminal = "none" /\ Running
  <2>1. /\ session' = Advanced(session, Cancel)
        /\ down' = Append(down, Cancel)
        /\ sup' = [sup EXCEPT !.at = "watch", !.cancelSent = TRUE]
        /\ UNCHANGED <<up, reader, wsession>>
    BY <1>3 DEF send_cancel, Cancel
  <2>2. sup'.at = "watch" /\ sup'.cancelSent
    BY <2>1 DEF ChannelOK, SupTypeOK
  <2>3. session.state = "running" /\ session \in Sessions
    BY <1>0, <1>3 DEF ChannelInv, SendInv, Started, ChannelOK, SupTypeOK, Sessions
  <2>4. session'.state = "cancel_requested" /\ session'.terminal = "none"
    BY SMT, <1>3, <2>1, <2>3, AdvancedFields, MessageFields DEF Ends
  <2>5. \/ /\ p \in {"boot", "await_start"} /\ down = <<Start>>
           /\ down' = <<Start, Cancel>> /\ up = <<>>
        \/ /\ p \in {"work", "said"} /\ down = <<>> /\ down' = <<Cancel>>
    BY <2>1, <2>3, InputLines
       DEF ChannelInv, OpeningInv, TalkInv, Phases
  <2>6. SendInv'
    BY <2>1, <2>2, <2>3, <2>4 DEF ChannelInv, SendInv, Started
  <2>7. CASE p \in {"boot", "await_start"}
    <3>1. OpeningInv(p)'
      BY <2>1, <2>3, <2>4, <2>5, <2>7 DEF ChannelInv, OpeningInv
    <3>2. TalkInv(p)'
      BY <2>7 DEF TalkInv
    <3> QED  BY <3>1, <3>2, <2>5, <2>6, <2>7 DEF ChannelInv, Inputs
  <2>8. CASE p \in {"work", "said"}
    <3>1. OpeningInv(p)'
      BY <2>8 DEF OpeningInv
    <3>2. \A k \in DOMAIN up : ~Acks(up[k])
      BY <2>3, <2>8 DEF ChannelInv, TalkInv
    <3>3. p = "work" => wsession.state = "running"
      BY <1>0, <2>8 DEF ChannelInv, TalkInv
    <3>4. \A k \in DOMAIN up :
             /\ up[k].type \in {"progress", "heartbeat", "cancel_ack", "result", "error"}
             /\ Ends(up[k]) => p = "said" /\ k = Len(up) /\ up[k].claim # "none"
      BY <2>8 DEF ChannelInv, TalkInv
    <3>5. TalkInv(p)'
      BY <2>1, <2>4, <2>5, <2>8, <3>2, <3>3, <3>4
         DEF TalkInv, Started, Acks, Ends
    <3> QED  BY <3>1, <3>5, <2>5, <2>6, <2>8 DEF ChannelInv, Inputs
  <2> QED  BY <2>5, <2>7, <2>8
<1> QED  BY <1>1, <1>2, <1>3

\* When the join times out, what the pipe holds is lost.
LEMMA ChannelCloses ==
    ASSUME NEW p, ChannelOK, ChannelInv(p), up' = <<>>,
           UNCHANGED <<down, session, wsession>>,
           reader'.err = reader.err, reader'.hello = reader.hello,
           sup'.at = "judge", sup'.cancelSent = sup.cancelSent
    PROVE  ChannelInv(p)'
<1>1. SendInv'
  BY DEF ChannelInv, SendInv
<1>2. OpeningInv(p)'
  BY DEF ChannelInv, OpeningInv
<1>3. TalkInv(p)'
  <2>1. DOMAIN up' = {}
    BY SMT
  <2> QED  BY <2>1 DEF ChannelInv, TalkInv
<1> QED  BY <1>1, <1>2, <1>3 DEF ChannelInv

\* Every step of the supervising thread (_run_protocol_worker).
LEMMA ChannelSupervised ==
    ASSUME NEW p, ChannelOK, ChannelInv(p), SupervisorNext, UNCHANGED wsession
    PROVE  ChannelInv(p)'
<1> USE DEF Goto, StopFor, processVars, pipeVars
<1>t. /\ DOMAIN sup = {"at", "reason", "cancelSent", "stopped", "waited", "clean", "synthesized"}
      /\ sup.at \in SupSteps
      /\ reader.eof \in BOOLEAN /\ DOMAIN reader = {"hello", "err", "eof"}
  BY DEF ChannelOK, SupTypeOK
<1>1. CASE await_hello
  <2>1. UNCHANGED <<up, down, session, wsession, reader>>
    BY <1>1 DEF await_hello
  <2>2. /\ sup'.cancelSent = sup.cancelSent
        /\ \/ sup'.at = "start" /\ reader.hello
           \/ sup'.at = "stop"
    BY <1>1, <1>t DEF await_hello
  <2>3. CASE sup'.at = "stop"
    BY <2>1, <2>2, <2>3, ChannelFrame
  <2>4. CASE sup'.at = "start" /\ reader.hello
    <3>1. SendInv'
      BY <2>1, <2>2, <2>4, <1>1 DEF ChannelInv, SendInv, await_hello
    <3>2. OpeningInv(p)'
      BY <2>1 DEF ChannelInv, OpeningInv
    <3>3. TalkInv(p)'
      BY <2>1, <2>2 DEF ChannelInv, TalkInv, Acks, Ends
    <3> QED  BY <3>1, <3>2, <3>3, <2>1 DEF ChannelInv
  <2> QED  BY <2>2, <2>3, <2>4
<1>2. CASE send_start
  BY <1>2, ChannelStarts
<1>3. CASE watch
  <2>1. UNCHANGED <<up, down, session, wsession, reader>>
    BY <1>3 DEF watch
  <2>2. /\ sup'.cancelSent = sup.cancelSent
        /\ \/ sup'.at = "send" /\ ~sup.cancelSent
           \/ sup'.at = "stop"
    BY <1>3, <1>t DEF watch
  <2>3. CASE sup'.at = "stop"
    BY <2>1, <2>2, <2>3, ChannelFrame
  <2>4. CASE sup'.at = "send" /\ ~sup.cancelSent
    <3>1. SendInv'
      BY <2>1, <2>2, <2>4, <1>3 DEF ChannelInv, SendInv, watch
    <3>2. OpeningInv(p)'
      BY <2>1 DEF ChannelInv, OpeningInv
    <3>3. TalkInv(p)'
      BY <2>1, <2>2 DEF ChannelInv, TalkInv, Acks, Ends
    <3> QED  BY <3>1, <3>2, <3>3, <2>1 DEF ChannelInv
  <2> QED  BY <2>2, <2>3, <2>4
<1>4. CASE send_cancel
  BY <1>4, ChannelCancels
<1>5. CASE stop_worker \/ await_term \/ await_kill \/ cleanup \/ await_cleanup \/ judge
  <2>1. UNCHANGED <<up, down, session, wsession, reader>>
    BY <1>5 DEF stop_worker, await_term, await_kill, cleanup, await_cleanup, judge
  <2>2. /\ sup'.cancelSent = sup.cancelSent
        /\ sup'.at \in {"term_wait", "cleanup", "kill_wait", "join", "cleanup_wait", "judged"}
    BY <1>5, <1>t DEF stop_worker, await_term, await_kill, cleanup, await_cleanup, judge
  <2> QED  BY <2>1, <2>2, ChannelFrame
<1>6. CASE join_reader
  <2>1. /\ UNCHANGED <<down, session, wsession>>
        /\ sup'.at = "judge" /\ sup'.cancelSent = sup.cancelSent
        /\ reader'.err = reader.err /\ reader'.hello = reader.hello
    BY <1>6, <1>t DEF join_reader
  <2>2. \/ UNCHANGED up
        \/ up' = <<>>
    BY <1>6 DEF join_reader
  <2> QED  BY <2>1, <2>2, ChannelFrame, ChannelCloses
<1> QED  BY <1>1, <1>2, <1>3, <1>4, <1>5, <1>6 DEF SupervisorNext

\* What changes neither pipe nor session nor the supervising thread.
LEMMA ChannelRests ==
    ASSUME NEW p, ChannelOK, ChannelInv(p), reader_eof \/ request_cancel \/ helper_ends,
           UNCHANGED wsession
    PROVE  ChannelInv(p)'
<1>1. /\ UNCHANGED <<up, down, session, wsession, sup>>
      /\ reader'.err = reader.err /\ reader'.hello = reader.hello
  BY DEF reader_eof, request_cancel, helper_ends, pipeVars, ChannelOK, SupTypeOK
<1> QED  BY <1>1, ChannelFrame

\* A cancel that waits for a worker at work is one message, and the worker's
\* session accepts it.
LEMMA CancelIsAccepted ==
    ASSUME ChannelInv("work"), down # <<>>
    PROVE  /\ down = <<Cancel>> /\ Len(down) = 1 /\ Head(down) = Cancel
           /\ wsession.state = "running"
           /\ session.state = "cancel_requested" /\ sup.cancelSent
           /\ Accepts(wsession, Head(down))
<1>1. /\ down = <<Cancel>> /\ wsession.state = "running"
      /\ session.state = "cancel_requested"
  BY DEF ChannelInv, TalkInv, Started
<1>2. sup.cancelSent
  BY <1>1 DEF ChannelInv, SendInv
<1>3. Head(down) = Cancel /\ Cancel.type = "cancel" /\ Len(down) = 1
  BY <1>1, InputLines, MessageFields
<1> QED  BY <1>1, <1>2, <1>3 DEF Accepts, Allowed

\* The worker says hello.
LEMMA ChannelHello ==
    ASSUME ChannelOK, ChannelInv("boot"),
           up' = Append(up, Message("worker_hello")),
           wsession' = Advanced(wsession, Message("worker_hello")),
           UNCHANGED <<down, session, reader, sup>>
    PROVE  ChannelInv("await_start")'
<1>1. up = <<>> /\ session.state = "awaiting_hello" /\ down = <<>>
  BY DEF ChannelInv, OpeningInv
<1>2. up' = <<Message("worker_hello")>>
  BY SMT, <1>1
<1>3. wsession'.state = "awaiting_start"
  <2> DEFINE m == Message("worker_hello")
  <2>1. m \in Messages /\ m.type = "worker_hello"
    BY MessageFields DEF UpTypes
  <2> HIDE DEF m
  <2>2. wsession' = Advanced(wsession, m)
    BY DEF m
  <2> QED  BY ZenonT(40), <2>1, <2>2, AdvancedFields DEF ChannelOK
<1>4. SendInv'
  BY DEF ChannelInv, SendInv
<1>5. OpeningInv("await_start")'
  BY <1>1, <1>2, <1>3 DEF OpeningInv
<1>6. TalkInv("await_start")'
  BY DEF TalkInv
<1> QED  BY <1>1, <1>4, <1>5, <1>6 DEF ChannelInv, Phases

\* The worker reads job_start.
LEMMA ChannelBegins ==
    ASSUME ChannelOK, ChannelInv("await_start"), down # <<>>,
           down' = Tail(down), wsession' = Advanced(wsession, Head(down)),
           UNCHANGED <<up, session, reader, sup>>
    PROVE  ChannelInv("work")'
<1>1. /\ up = <<>>
      /\ \/ session.state = "running" /\ down = <<Start>>
         \/ session.state = "cancel_requested" /\ down = <<Start, Cancel>>
  BY DEF ChannelInv, OpeningInv
<1>2. /\ Head(down) = Start
      /\ \/ session.state = "running" /\ down' = <<>>
         \/ session.state = "cancel_requested" /\ down' = <<Cancel>>
  BY <1>1, InputLines
<1>3. wsession'.state = "running"
  BY <1>2, AdvancedFields, MessageFields DEF ChannelOK
<1>4. SendInv'
  BY DEF ChannelInv, SendInv
<1>5. OpeningInv("work")'
  BY DEF OpeningInv
<1>6. DOMAIN up' = {}
  BY SMT, <1>1
<1>7. TalkInv("work")'
  <2>1. /\ \A k \in DOMAIN up' : FALSE
        /\ session'.state \in {"running", "cancel_requested"}
        /\ down' \in {<<>>, <<Cancel>>}
        /\ session'.state = "running" => down' = <<>>
    BY <1>2, <1>6
  <2> QED  BY <2>1, <1>3 DEF TalkInv, Started
<1>8. down' \in Inputs
  BY <1>2 DEF Inputs
<1> QED  BY <1>4, <1>5, <1>7, <1>8 DEF ChannelInv, Phases

\* Progress and heartbeats.
LEMMA ChannelTalks ==
    ASSUME ChannelOK, ChannelInv("work"),
           NEW t \in {"progress", "heartbeat"},
           up' = Append(up, Message(t)),
           wsession' = Advanced(wsession, Message(t)),
           UNCHANGED <<down, session, reader, sup>>
    PROVE  ChannelInv("work")'
<1> DEFINE m == Message(t)
<1>1. m \in Messages /\ m.type = t
  BY MessageFields DEF UpTypes
<1>2. wsession' = wsession
  BY <1>1, AdvancedFields DEF ChannelOK
<1>3. \A k \in DOMAIN up' : \/ k \in DOMAIN up /\ up'[k] = up[k]
                            \/ up'[k] = m
  BY <1>1, LastLine DEF ChannelOK
<1>4. ~Acks(m) /\ ~Ends(m)
  BY <1>1 DEF Acks, Ends
<1> HIDE DEF m
<1>5. session.state # "terminal"
  BY DEF ChannelInv, TalkInv
<1>6. SendInv'
  BY DEF ChannelInv, SendInv
<1>7. OpeningInv("work")'
  BY DEF OpeningInv
<1>8. \A k \in DOMAIN up :
         /\ up[k].type \in {"progress", "heartbeat", "cancel_ack", "result", "error"}
         /\ ~Ends(up[k])
         /\ Acks(up[k]) => session.state = "cancel_requested" /\ down = <<>>
         /\ wsession.state = "running" => ~Acks(up[k])
  BY DEF ChannelInv, TalkInv
<1>9. \A k \in DOMAIN up' :
         /\ up'[k].type \in {"progress", "heartbeat", "cancel_ack", "result", "error"}
         /\ ~Ends(up'[k])
         /\ Acks(up'[k]) => session.state = "cancel_requested" /\ down = <<>>
         /\ wsession.state = "running" => ~Acks(up'[k])
  BY <1>1, <1>3, <1>4, <1>8
<1>10. \A j, k \in DOMAIN up' : Acks(up'[j]) /\ Acks(up'[k]) => j = k
  <2>1. \A j, k \in DOMAIN up : Acks(up[j]) /\ Acks(up[k]) => j = k
    BY DEF ChannelInv, TalkInv
  <2> QED  BY <2>1, <1>3, <1>4
<1>11. TalkInv("work")'
  BY <1>2, <1>5, <1>9, <1>10 DEF ChannelInv, TalkInv
<1> QED  BY <1>6, <1>7, <1>11 DEF ChannelInv

\* The cancel is read and acknowledged in one go (consume_cancellation, the
\* lock of _read_cancellation).
LEMMA ChannelAcks ==
    ASSUME ChannelOK, ChannelInv("work"), down # <<>>,
           down' = <<>>,
           up' = Append(up, Message("cancel_ack")),
           wsession' = Advanced(Advanced(wsession, Head(down)), Message("cancel_ack")),
           UNCHANGED <<session, reader, sup>>
    PROVE  ChannelInv("work")'
<1> DEFINE m == Message("cancel_ack")
<1>1. m \in Messages /\ m.type = "cancel_ack" /\ Acks(m) /\ ~Ends(m)
  BY MessageFields DEF UpTypes, Acks, Ends
<1>2. /\ session.state = "cancel_requested" /\ sup.cancelSent
      /\ Head(down) = Cancel /\ wsession.state = "running"
  BY CancelIsAccepted
<1>3. wsession'.state = "cancelling"
  BY <1>1, <1>2, AdvancedFields DEF ChannelOK
<1>4. \A k \in DOMAIN up' : \/ k \in DOMAIN up /\ up'[k] = up[k]
                            \/ k = Len(up) + 1 /\ up'[k] = m
  BY <1>1, LastLine DEF ChannelOK
<1> HIDE DEF m
<1>5. \A k \in DOMAIN up :
         /\ up[k].type \in {"progress", "heartbeat", "cancel_ack", "result", "error"}
         /\ ~Ends(up[k])
         /\ ~Acks(up[k])
  BY <1>2 DEF ChannelInv, TalkInv
<1>6. SendInv'
  BY DEF ChannelInv, SendInv
<1>7. OpeningInv("work")'
  BY DEF OpeningInv
<1>8. \A k \in DOMAIN up' :
         /\ up'[k].type \in {"progress", "heartbeat", "cancel_ack", "result", "error"}
         /\ ~Ends(up'[k])
         /\ Acks(up'[k]) => k = Len(up) + 1
  BY <1>1, <1>4, <1>5
<1>9. TalkInv("work")'
  BY ZenonT(40), <1>2, <1>3, <1>8 DEF TalkInv, Started
<1> QED  BY <1>6, <1>7, <1>9 DEF ChannelInv, Inputs

\* The terminal is the worker's last line.
LEMMA ChannelEnds ==
    ASSUME ChannelOK, ChannelInv("work"), NEW c \in Claims,
           up' = Append(up, Terminal(c)),
           UNCHANGED <<down, session, reader, sup>>
    PROVE  ChannelInv("said")'
<1> DEFINE m == Terminal(c)
<1>1. m \in Messages /\ Ends(m) /\ ~Acks(m) /\ m.claim # "none"
  BY MessageFields DEF Acks, Ends, Claims
<1>2. Len(up') = Len(up) + 1
  BY <1>1, LastLine DEF ChannelOK
<1>3. \A k \in DOMAIN up' : \/ k \in DOMAIN up /\ up'[k] = up[k]
                            \/ k = Len(up) + 1 /\ up'[k] = m
  BY <1>1, LastLine DEF ChannelOK
<1> HIDE DEF m
<1>4. SendInv'
  BY DEF ChannelInv, SendInv
<1>5. OpeningInv("said")'
  BY DEF OpeningInv
<1>6. \A k \in DOMAIN up :
         /\ up[k].type \in {"progress", "heartbeat", "cancel_ack", "result", "error"}
         /\ ~Ends(up[k])
         /\ Acks(up[k]) => session.state = "cancel_requested" /\ down = <<>>
  BY DEF ChannelInv, TalkInv
<1>7. \A k \in DOMAIN up' :
         /\ up'[k].type \in {"progress", "heartbeat", "cancel_ack", "result", "error"}
         /\ Ends(up'[k]) => k = Len(up') /\ up'[k].claim # "none"
         /\ Acks(up'[k]) => session.state = "cancel_requested" /\ down = <<>>
  BY <1>1, <1>2, <1>3, <1>6 DEF Ends
<1>8. \A j, k \in DOMAIN up' : Acks(up'[j]) /\ Acks(up'[k]) => j = k
  <2>1. \A j, k \in DOMAIN up : Acks(up[j]) /\ Acks(up[k]) => j = k
    BY DEF ChannelInv, TalkInv
  <2> QED  BY <2>1, <1>1, <1>3
<1>9. session.state # "terminal"
  BY DEF ChannelInv, TalkInv
<1>10. TalkInv("said")'
  BY <1>7, <1>8, <1>9 DEF ChannelInv, TalkInv
<1> QED  BY <1>4, <1>5, <1>10 DEF ChannelInv, Phases

-----------------------------------------------------------------------------
(* The supervising thread *)

\* The supervising thread keeps the types.
LEMMA SupervisedTypes ==
    ASSUME ChannelOK, SupervisorNext, UNCHANGED wsession
    PROVE  ChannelOK'
<1> USE DEF Goto, StopFor, processVars, pipeVars
<1>t. /\ SupTypeOK /\ cancel \in BOOLEAN /\ up \in Seq(Messages) /\ session \in Sessions
      /\ down \in Seq({Start, Cancel})
  BY DEF ChannelOK, SupTypeOK, Sessions
<1>1. CASE await_hello \/ watch
  <2>1. /\ UNCHANGED <<proc, helper, sig, up, down, cancel, session, reader, wsession>>
        /\ \E a \in SupSteps, r \in Reasons : sup' = [sup EXCEPT !.at = a, !.reason = r]
    <3>1. "start" \in SupSteps /\ "stop" \in SupSteps /\ "send" \in SupSteps
      BY DEF SupSteps
    <3>2. /\ {"protocol", "hello_timeout", "completion_timeout", "cancelled",
              "heartbeat_timeout", "process_timeout"} \subseteq Reasons
          /\ sup.reason \in Reasons
      BY <1>t DEF Reasons, SupTypeOK
    <3>3. \A a \in SupSteps :
             [sup EXCEPT !.at = a] = [sup EXCEPT !.at = a, !.reason = sup.reason]
      BY <1>t DEF SupTypeOK
    <3>4. CASE await_hello
      <4>1. \/ sup' \in {[sup EXCEPT !.at = "start"], [sup EXCEPT !.at = "stop"]}
            \/ \E r \in Reasons : sup' = [sup EXCEPT !.at = "stop", !.reason = r]
        BY <3>2, <3>4 DEF await_hello
      <4> QED  BY <4>1, <3>1, <3>2, <3>3, <3>4 DEF await_hello
    <3>5. CASE watch
      <4>1. \/ sup' \in {[sup EXCEPT !.at = "send"], [sup EXCEPT !.at = "stop"]}
            \/ \E r \in Reasons : sup' = [sup EXCEPT !.at = "stop", !.reason = r]
        BY <3>2, <3>5 DEF watch
      <4> QED  BY ZenonT(40), <4>1, <3>1, <3>2, <3>3, <3>5 DEF watch
    <3> QED  BY <1>1, <3>4, <3>5
  <2>2. sup' \in [at : SupSteps, reason : Reasons, cancelSent : BOOLEAN,
                  stopped : BOOLEAN, waited : BOOLEAN, clean : BOOLEAN,
                  synthesized : BOOLEAN]
    BY <2>1, <1>t DEF SupTypeOK
  <2> QED  BY <2>1, <2>2 DEF ChannelOK, SupTypeOK
<1>2. CASE send_start
  <2>1. Advanced(session, Start) \in Sessions
    BY <1>t, AdvancedFields
  <2>2. Advanced(Advanced(session, Start), Cancel) \in Sessions
    BY <2>1, AdvancedFields
  <2>3. session' \in Sessions
    BY <1>2, <1>t, <2>1, <2>2 DEF send_start, Start, Cancel
  <2>4. sup' \in [at : SupSteps, reason : Reasons, cancelSent : BOOLEAN,
                  stopped : BOOLEAN, waited : BOOLEAN, clean : BOOLEAN,
                  synthesized : BOOLEAN]
    BY ZenonT(40), <1>2, <1>t DEF SupTypeOK, send_start, SupSteps
  <2>5. down' \in Seq({Start, Cancel})
    <3>1. \/ UNCHANGED down
          \/ down' = down \o <<Start>> \o <<>>
          \/ down' = down \o <<Start>> \o <<Cancel>>
      BY <1>2 DEF send_start, Start, Cancel
    <3>2. /\ <<Start>> \in Seq({Start, Cancel}) /\ <<>> \in Seq({Start, Cancel})
          /\ <<Cancel>> \in Seq({Start, Cancel})
      BY SMT
    <3>3. down \o <<Start>> \in Seq({Start, Cancel})
      BY <1>t, <3>2, ST!ConcatProperties
    <3>4. /\ down \o <<Start>> \o <<>> \in Seq({Start, Cancel})
          /\ down \o <<Start>> \o <<Cancel>> \in Seq({Start, Cancel})
      BY <3>2, <3>3, ST!ConcatProperties
    <3> QED  BY <1>t, <3>1, <3>4
  <2> QED  BY <1>2, <1>t, <2>3, <2>4, <2>5 DEF ChannelOK, SupTypeOK, send_start, Sessions
<1>3. CASE send_cancel
  <2>1. Advanced(session, Cancel) \in Sessions
    BY <1>t, AdvancedFields
  <2>2. session' \in Sessions
    BY <1>3, <1>t, <2>1 DEF send_cancel, Cancel
  <2>3. sup' \in [at : SupSteps, reason : Reasons, cancelSent : BOOLEAN,
                  stopped : BOOLEAN, waited : BOOLEAN, clean : BOOLEAN,
                  synthesized : BOOLEAN]
    BY ZenonT(40), <1>3, <1>t DEF SupTypeOK, send_cancel, SupSteps
  <2>4. down' \in Seq({Start, Cancel})
    <3>1. UNCHANGED down \/ down' = Append(down, Cancel)
      BY <1>3 DEF send_cancel, Cancel
    <3> QED  BY SMT, <1>t, <3>1
  <2> QED  BY <1>3, <1>t, <2>2, <2>3, <2>4 DEF ChannelOK, SupTypeOK, send_cancel, Sessions
<1>4. CASE stop_worker \/ await_term \/ await_kill
  BY ZenonT(40), <1>4, <1>t
     DEF ChannelOK, SupTypeOK, stop_worker, await_term, await_kill, SupSteps
<1>5. CASE cleanup \/ await_cleanup
  <2>1. TreeGone \in BOOLEAN
    BY DEF TreeGone
  <2> QED  BY ZenonT(40), <1>5, <1>t, <2>1
     DEF ChannelOK, SupTypeOK, cleanup, await_cleanup, SupSteps
<1>6. CASE join_reader
  <2>1. up' \in Seq(Messages)
    BY <1>6, <1>t, ST!EmptySeq DEF join_reader
  <2> QED  BY <1>6, <1>t, <2>1 DEF ChannelOK, SupTypeOK, join_reader, SupSteps
<1>7. CASE judge
  <2>1. FinalReason \in Reasons
    BY <1>t DEF FinalReason, SupTypeOK, Reasons
  <2>2. Synthesized \in BOOLEAN
    <3>1. reader.err \in BOOLEAN
      BY <1>t DEF SupTypeOK
    <3> QED  BY <3>1, Zenon DEF Synthesized
  <2> QED  BY <1>7, <1>t, <2>1, <2>2 DEF ChannelOK, SupTypeOK, judge, SupSteps
<1> QED  BY <1>1, <1>2, <1>3, <1>4, <1>5, <1>6, <1>7 DEF SupervisorNext

\* So do the reader, a cancellation that is asked for and a helper that ends.
LEMMA ReaderTypes ==
    ASSUME ChannelOK, ReaderNext \/ request_cancel \/ helper_ends, UNCHANGED wsession
    PROVE  ChannelOK'
<1> USE DEF processVars, pipeVars
<1>1. CASE read_worker_stdout
  <2>1. up # <<>> /\ up' = Tail(up)
    BY <1>1 DEF read_worker_stdout
  <2>2. Head(up) \in Messages /\ up' \in Seq(Messages)
    BY <2>1, FirstLine DEF ChannelOK
  <2>3. session \in Sessions
    BY DEF ChannelOK, SupTypeOK, Sessions
  <2>4. session' \in Sessions
    BY <1>1, <2>2, <2>3, AdvancedFields DEF read_worker_stdout
  <2>5. reader' \in [hello : BOOLEAN, err : BOOLEAN, eof : BOOLEAN]
    BY <1>1 DEF read_worker_stdout, ChannelOK, SupTypeOK
  <2> QED  BY ZenonT(40), <1>1, <2>2, <2>4, <2>5 DEF read_worker_stdout, ChannelOK, SupTypeOK, Sessions
<1>2. CASE reader_eof \/ request_cancel \/ helper_ends
  BY <1>2 DEF reader_eof, request_cancel, helper_ends, ChannelOK, SupTypeOK
<1> QED  BY <1>1, <1>2 DEF ReaderNext

\* A worker that writes a line, dies or exits keeps the types.
LEMMA WorkerTypes ==
    ASSUME ChannelOK, wsession' \in Sessions,
           proc' \in {"running", "exited", "failed"}, helper' \in BOOLEAN,
           down' \in Seq({Start, Cancel}),
           UNCHANGED <<sig, cancel, session, reader, sup>>,
           \/ UNCHANGED up
           \/ \E m \in Messages : up' = Append(up, m)
    PROVE  ChannelOK'
<1>1. up' \in Seq(Messages)
  BY LastLine DEF ChannelOK
<1> QED  BY ZenonT(40), <1>1 DEF ChannelOK, SupTypeOK

\* Supervision makes no claim of its own: what its session holds is what the
\* worker wrote.
LEMMA ClaimSupervised ==
    ASSUME NEW c, NEW b, ChannelOK, ClaimInv(c, b),
           SupervisorNext \/ ReaderNext \/ request_cancel \/ helper_ends
    PROVE  ClaimInv(c, b)'
<1> USE DEF processVars, pipeVars
<1>t. session \in Sessions /\ up \in Seq(Messages)
  BY DEF ChannelOK, SupTypeOK, Sessions
<1>1. CASE read_worker_stdout
  <2> DEFINE m == Head(up)
  <2>1. /\ up # <<>> /\ up' = Tail(up)
        /\ session' = session \/ session' = Advanced(session, m)
    BY <1>1 DEF read_worker_stdout
  <2>2. /\ m \in Messages /\ m = up[1] /\ 1 \in DOMAIN up
        /\ \A k \in DOMAIN up' : k + 1 \in DOMAIN up /\ up'[k] = up[k + 1]
    BY <2>1, <1>t, FirstLine
  <2>3. session'.terminal \in {m.claim, session.terminal}
    BY SMT, <2>1, <2>2, <1>t, AdvancedFields
  <2> HIDE DEF m
  <2> QED  BY <2>2, <2>3 DEF ClaimInv
<1>2. CASE send_start \/ send_cancel
  <2>1. UNCHANGED up
    BY <1>2 DEF send_start, send_cancel
  <2>2. session'.terminal = session.terminal
    <3> DEFINE s == Advanced(session, Start)
    <3>1. s \in Sessions /\ s.terminal = session.terminal
      BY ZenonT(40), <1>t, AdvancedFields, MessageFields DEF Ends
    <3>2. /\ Advanced(session, Cancel).terminal = session.terminal
          /\ Advanced(s, Cancel).terminal = session.terminal
      BY SMT, <1>t, <3>1, AdvancedFields, MessageFields DEF Ends
    <3>3. session' \in {session, s, Advanced(s, Cancel), Advanced(session, Cancel)}
      BY <1>2 DEF send_start, send_cancel, Start, Cancel
    <3> HIDE DEF s
    <3> QED  BY <3>1, <3>2, <3>3
  <2> QED  BY <2>1, <2>2 DEF ClaimInv
<1>3. CASE join_reader
  <2>1. UNCHANGED session /\ (UNCHANGED up \/ up' = <<>>)
    BY <1>3 DEF join_reader
  <2>2. up' = <<>> => DOMAIN up' = {}
    BY SMT
  <2> QED  BY <2>1, <2>2 DEF ClaimInv
<1>4. CASE \/ await_hello \/ watch \/ stop_worker \/ await_term \/ await_kill
           \/ cleanup \/ await_cleanup \/ judge
  BY <1>4 DEF ClaimInv, await_hello, watch, stop_worker, await_term, await_kill,
              cleanup, await_cleanup, judge
<1>5. CASE reader_eof \/ request_cancel \/ helper_ends
  BY <1>5 DEF ClaimInv, reader_eof, request_cancel, helper_ends
<1> QED  BY <1>1, <1>2, <1>3, <1>4, <1>5 DEF SupervisorNext, ReaderNext

\* A judgement is made when the reader is done, from a terminal that was read.
LEMMA JudgeSupervised ==
    ASSUME ChannelOK, JudgeInv,
           SupervisorNext \/ ReaderNext \/ request_cancel
    PROVE  JudgeInv' /\ (SupervisorNext => sup'.at # "returned")
<1> USE DEF processVars, pipeVars, Goto, StopFor
<1>t. /\ DOMAIN sup = {"at", "reason", "cancelSent", "stopped", "waited", "clean", "synthesized"}
      /\ sup.waited \in BOOLEAN /\ sup.synthesized \in BOOLEAN
      /\ DOMAIN reader = {"hello", "err", "eof"} /\ reader.eof \in BOOLEAN
  BY DEF ChannelOK, SupTypeOK
<1>1. CASE ReaderNext \/ request_cancel
  <2>1. UNCHANGED <<proc, sup>>
    BY <1>1 DEF ReaderNext, request_cancel, read_worker_stdout, reader_eof
  <2>2. reader.eof => UNCHANGED <<reader, session>>
    BY <1>1 DEF ReaderNext, request_cancel, read_worker_stdout, reader_eof
  <2>3. sup.at # "returned" \/ ~SupervisorNext
    BY DEF SupervisorNext, await_hello, send_start, watch, send_cancel, stop_worker,
           await_term, await_kill, cleanup, await_cleanup, join_reader, judge
  <2> QED  BY <2>1, <2>2, <2>3 DEF JudgeInv, Running
<1>2. CASE await_hello \/ watch
  <2>1. /\ UNCHANGED <<proc, session, reader>> /\ sup'.waited = sup.waited
        /\ sup'.at \in {"start", "stop", "send"}
    BY <1>2, <1>t DEF await_hello, watch
  <2> QED  BY <2>1 DEF JudgeInv, Running
<1>3. CASE send_start \/ send_cancel
  <2>1. /\ UNCHANGED proc /\ sup'.waited = sup.waited
        /\ sup'.at \in {"watch", "raised"}
    BY <1>3, <1>t DEF send_start, send_cancel
  <2> QED  BY <2>1 DEF JudgeInv, Running
<1>4. CASE stop_worker \/ await_term \/ await_kill \/ cleanup \/ await_cleanup
  <2>1. /\ UNCHANGED proc /\ (sup'.waited => sup.waited \/ ~Running)
        /\ sup'.at \in {"term_wait", "cleanup", "kill_wait", "join", "cleanup_wait"}
    BY <1>4, <1>t DEF stop_worker, await_term, await_kill, cleanup, await_cleanup
  <2> QED  BY <2>1 DEF JudgeInv, Running
<1>5. CASE join_reader
  <2>1. /\ UNCHANGED <<proc, session>> /\ sup'.waited = sup.waited
        /\ sup'.at = "judge" /\ reader'.eof
    BY <1>5, <1>t DEF join_reader
  <2> QED  BY <2>1 DEF JudgeInv, Running
<1>6. CASE judge
  <2>1. /\ UNCHANGED <<proc, session, reader>> /\ sup'.waited = sup.waited
        /\ sup'.at = "judged" /\ reader.eof
        /\ sup'.synthesized = Synthesized
    BY <1>6, <1>t DEF judge, JudgeInv
  <2>2. session.terminal = "none" => Synthesized
    BY DEF Synthesized
  <2> QED  BY <2>1, <2>2 DEF JudgeInv, Running
<1> QED  BY <1>1, <1>2, <1>3, <1>4, <1>5, <1>6 DEF SupervisorNext

-----------------------------------------------------------------------------
(* The refresh worker *)

\* A worker that has not said its terminal may change its claim and write other
\* lines; one that has, no longer changes it.
LEMMA ClaimWritten ==
    ASSUME NEW c, NEW b \in BOOLEAN, NEW d, NEW e \in BOOLEAN,
           ChannelOK, ClaimInv(c, b), UNCHANGED session,
           b => d = c /\ e,
           \/ UNCHANGED up
           \/ \E m \in Messages : /\ up' = Append(up, m)
                                  /\ m.claim # "none" => m.claim = d /\ e
    PROVE  ClaimInv(d, e)'
<1>1. /\ session.terminal # "none" => session.terminal = d /\ e
      /\ \A k \in DOMAIN up : up[k].claim # "none" => up[k].claim = d /\ e
  BY DEF ClaimInv
<1>2. CASE UNCHANGED up
  BY <1>1, <1>2 DEF ClaimInv
<1>3. CASE \E m \in Messages : /\ up' = Append(up, m)
                               /\ m.claim # "none" => m.claim = d /\ e
  <2>1. PICK m \in Messages : /\ up' = Append(up, m)
                              /\ m.claim # "none" => m.claim = d /\ e
    BY <1>3
  <2>2. \A k \in DOMAIN up' : \/ k \in DOMAIN up /\ up'[k] = up[k]
                              \/ up'[k] = m
    BY <2>1, LastLine DEF ChannelOK
  <2> QED  BY <1>1, <2>1, <2>2 DEF ClaimInv
<1> QED  BY <1>2, <1>3

\* The lines a refresh worker writes before its terminal.
LEMMA RefreshLines ==
    ASSUME ChannelOK, Consumes
    PROVE  /\ \/ UNCHANGED up
              \/ \E m \in Messages : up' = Append(up, m) /\ m.claim = "none"
           /\ wsession' \in Sessions /\ down' \in Seq({Start, Cancel})
<1>1. Message("cancel_ack") \in Messages /\ Message("cancel_ack").claim = "none"
  BY MessageFields DEF UpTypes
<1>2. ASSUME down # <<>>  PROVE wsession' \in Sessions
  <2>1. Head(down) \in {Start, Cancel}
    BY <1>2, ST!HeadTailProperties DEF ChannelOK
  <2>2. Advanced(wsession, Head(down)) \in Sessions
    BY <2>1, AdvancedFields DEF ChannelOK
  <2>3. Advanced(Advanced(wsession, Head(down)), Message("cancel_ack")) \in Sessions
    BY <1>1, <2>2, AdvancedFields
  <2> QED  BY <1>2, <2>3 DEF Consumes
<1>3. ASSUME down = <<>>  PROVE wsession' \in Sessions
  BY <1>3 DEF Consumes, ChannelOK
<1>4. \/ UNCHANGED up
      \/ up' = Append(up, Message("cancel_ack"))
  BY DEF Consumes
<1>5. down' \in Seq({Start, Cancel})
  BY ST!EmptySeq DEF Consumes
<1> QED  BY <1>1, <1>2, <1>3, <1>4, <1>5

\* A line of the worker's, and its session after it.
LEMMA RefreshSays ==
    ASSUME ChannelOK, NEW m \in Messages, Says(m)
    PROVE  wsession' \in Sessions /\ up' = Append(up, m)
BY AdvancedFields DEF ChannelOK, Says

\* Every step of a worker keeps the types (refresh_worker.main).
LEMMA RefreshTypes ==
    ASSUME WorkerTypeOK, ChannelOK,
           WorkerNext \/ leaf_ends \/ worker_dies \/ server_decides \/ stray_output
    PROVE  WorkerTypeOK' /\ ChannelOK'
<1> USE DEF supVars, supPart, storagePart, workerPart, processVars, pipeVars, To, Finish,
            WorkerAt
<1> DEFINE Workers == [at : WorkerSteps, cancel : BOOLEAN, started : BOOLEAN,
                       claim : Claims \cup {"none"}]
           Decisions == {"none", "not_started", "transaction_started", "torn"}
           Finished(c) == [wk EXCEPT !.at = "finishing", !.claim = c]
           Refused == [wk EXCEPT !.at = "finishing", !.cancel = TRUE,
                                 !.claim = "failed_not_started"]
<1>t. /\ wk \in Workers /\ leaf \in {"none", "running", "ended"}
      /\ decision \in Decisions /\ backend \in {"none", "committing"} /\ run \in BOOLEAN
      /\ wsession \in Sessions /\ down \in Seq({Start, Cancel})
      /\ proc \in {"running", "exited", "failed"} /\ helper \in BOOLEAN
  BY DEF WorkerTypeOK, ChannelOK, SupTypeOK
<1>s. /\ "await_start" \in WorkerSteps /\ "first" \in WorkerSteps
      /\ "capture" \in WorkerSteps /\ "staging" \in WorkerSteps
      /\ "checked" \in WorkerSteps /\ "publishing" \in WorkerSteps
      /\ "commit_sent" \in WorkerSteps /\ "unwinding" \in WorkerSteps
      /\ "finishing" \in WorkerSteps /\ "last" \in WorkerSteps
      /\ "said" \in WorkerSteps
      /\ "cancelled" \in Claims /\ "succeeded" \in Claims
      /\ "failed_not_started" \in Claims /\ "failed_rolled_back" \in Claims
      /\ "failed_unknown" \in Claims
  BY DEF WorkerSteps, Handling, Claims
<1>w. /\ \A a \in WorkerSteps : [wk EXCEPT !.at = a] \in Workers
      /\ \A c \in Claims : Finished(c) \in Workers
      /\ Refused \in Workers
      /\ \A a \in WorkerSteps, c \in Claims \cup {"none"}, b \in BOOLEAN :
            [wk EXCEPT !.at = a, !.cancel = b, !.claim = c] \in Workers
      /\ \A a \in WorkerSteps : [wk EXCEPT !.at = a, !.started = TRUE] \in Workers
      /\ wk.claim \in Claims \cup {"none"}
  BY <1>t, <1>s
<1> HIDE DEF Workers, Finished, Refused
<1>m. ASSUME wk' \in Workers, wsession' \in Sessions, leaf' \in {"none", "running", "ended"},
             decision' \in Decisions, backend' \in {"none", "committing"}, run' \in BOOLEAN,
             proc' \in {"running", "exited", "failed"}, down' \in Seq({Start, Cancel}),
             UNCHANGED <<helper, sig, cancel, session, reader, sup, result>>,
             \/ UNCHANGED up
             \/ \E m \in Messages : up' = Append(up, m)
      PROVE  WorkerTypeOK' /\ ChannelOK'
  <2>1. ChannelOK'
    BY <1>m, <1>t, WorkerTypes
  <2> QED  BY <1>m, <2>1 DEF WorkerTypeOK, ChannelOK, Workers, Sessions
<1>1. CASE say_hello
  <2>1. Message("worker_hello") \in Messages
    BY MessageFields DEF UpTypes
  <2>2. wsession' \in Sessions /\ up' = Append(up, Message("worker_hello"))
    BY <1>1, <2>1, RefreshSays DEF say_hello
  <2>3. wk' \in Workers
    BY <1>1, <1>s, <1>w DEF say_hello
  <2> QED  BY <1>1, <1>t, <1>m, <2>1, <2>2, <2>3 DEF say_hello
<1>2. CASE read_start
  <2>1. down # <<>> /\ down' = Tail(down) /\ wsession' = Advanced(wsession, Head(down))
    BY <1>2 DEF read_start
  <2>2. Head(down) \in {Start, Cancel} /\ down' \in Seq({Start, Cancel})
    BY <1>t, <2>1, ST!HeadTailProperties
  <2>3. wsession' \in Sessions
    BY <1>t, <2>1, <2>2, AdvancedFields
  <2>4. wk' \in Workers
    BY <1>2, <1>s, <1>w DEF read_start
  <2> QED  BY <1>2, <1>t, <1>m, <2>2, <2>3, <2>4 DEF read_start
<1>3. CASE first_check \/ check_cancelled \/ last_check
  <2>1. Consumes
    BY <1>3 DEF first_check, check_cancelled, last_check
  <2>2. /\ wsession' \in Sessions /\ down' \in Seq({Start, Cancel})
        /\ UNCHANGED up \/ \E m \in Messages : up' = Append(up, m)
    BY <2>1, RefreshLines
  <2>3. CASE first_check \/ check_cancelled
    <3>1. \/ wk' = [wk EXCEPT !.at = "capture"]
          \/ wk' = [wk EXCEPT !.at = "checked"]
          \/ wk' = Refused
      BY <2>3 DEF Refused, first_check, check_cancelled
    <3>2. wk' \in Workers
      BY <3>1, <1>s, <1>w
    <3> QED  BY <2>3, <3>2, <1>t, <1>m, <2>2 DEF first_check, check_cancelled
  <2>4. CASE last_check
    <3>1. Cancelling \in BOOLEAN
      BY <1>t DEF Cancelling, Workers
    <3>2. PICK c \in Claims \cup {"none"} :
             wk' = [wk EXCEPT !.at = "last", !.cancel = Cancelling, !.claim = c]
      <4>1. PICK c : /\ wk' = [wk EXCEPT !.at = "last", !.cancel = Cancelling, !.claim = c]
                     /\ c \in {"cancelled", wk.claim}
        BY <2>4 DEF last_check
      <4>2. c \in Claims \cup {"none"}
        BY <4>1, <1>s, <1>w
      <4> QED  BY <4>1, <4>2
    <3>3. wk' \in Workers
      BY <1>s, <1>w, <3>1, <3>2
    <3> QED  BY <2>4, <3>3, <1>t, <1>m, <2>2 DEF last_check
  <2> QED  BY <1>3, <2>3, <2>4
<1>4. CASE emit_heartbeat
  <2>1. Message("heartbeat") \in Messages
    BY MessageFields DEF UpTypes
  <2>2. wsession' \in Sessions /\ up' = Append(up, Message("heartbeat"))
    BY <1>4, <2>1, RefreshSays DEF emit_heartbeat
  <2> QED  BY <1>4, <1>t, <1>m, <2>1, <2>2 DEF emit_heartbeat
<1>5. CASE launch_leaf \/ leaf_ends
  BY <1>5, <1>t, <1>m DEF launch_leaf, leaf_ends
<1>6. CASE begin_staging
  <2>1. wk' \in Workers
    BY <1>6, <1>s, <1>w DEF begin_staging
  <2> QED  BY <1>6, <1>t, <1>m, <2>1 DEF begin_staging
<1>7. CASE work_fails \/ final_transaction_fails \/ refresh_returns \/ commit_returns
  <2>1. wk' \in Workers
    <3>1. \/ wk' = [wk EXCEPT !.at = "unwinding"]
          \/ \E c \in {"failed_not_started", "failed_unknown", "succeeded"} :
                wk' = Finished(c)
      BY <1>7 DEF Finished, work_fails, final_transaction_fails, refresh_returns, commit_returns
    <3> QED  BY <3>1, <1>s, <1>w
  <2> QED  BY <1>7, <1>t, <1>m, <2>1
           DEF work_fails, final_transaction_fails, refresh_returns, commit_returns
<1>8. CASE pass_gate \/ request_commit
  <2>1. wk' \in Workers
    BY <1>8, <1>s, <1>w DEF pass_gate, request_commit
  <2> QED  BY <1>8, <1>t, <1>m, <2>1 DEF pass_gate, request_commit
<1>9. CASE interrupted
  <2>1. wk' \in Workers
    <3>1. \E c \in {"failed_rolled_back", "failed_unknown"} :
             wk' = Finished(c)
      BY <1>9 DEF Finished, interrupted
    <3> QED  BY <3>1, <1>s, <1>w
  <2>2. decision' \in Decisions
    BY <1>9, <1>t DEF interrupted
  <2> QED  BY <1>9, <1>t, <1>m, <2>1, <2>2 DEF interrupted
<1>10. CASE say_terminal
  <2>1. Terminal(wk.claim) \in Messages
    <3>1. CASE wk.claim \in Claims
      BY <3>1, MessageFields
    <3>2. CASE wk.claim = "none"
      BY <3>2 DEF Terminal, Messages, UpTypes
    <3> QED  BY <3>1, <3>2, <1>w
  <2>2. wsession' \in Sessions /\ up' = Append(up, Terminal(wk.claim))
    BY <1>10, <2>1, RefreshSays DEF say_terminal
  <2>3. wk' \in Workers
    BY <1>10, <1>s, <1>w DEF say_terminal
  <2> QED  BY <1>10, <1>t, <1>m, <2>1, <2>2, <2>3 DEF say_terminal
<1>11. CASE exit \/ worker_dies
  <2>1. decision' \in Decisions
    BY <1>11, <1>t DEF exit, worker_dies
  <2> QED  BY <1>11, <1>t, <1>m, <2>1 DEF exit, worker_dies
<1>12. CASE server_decides
  BY <1>12, <1>t, <1>m DEF server_decides
<1>13. CASE stray_output
  <2>1. Message("stray") \in Messages
    BY MessageFields DEF UpTypes
  <2> QED  BY <1>13, <1>t, <1>m, <2>1 DEF stray_output
<1> QED
  BY <1>1, <1>2, <1>3, <1>4, <1>5, <1>6, <1>7, <1>8, <1>9, <1>10, <1>11, <1>12, <1>13
     DEF WorkerNext

\* The claim of a worker, its gate file and the final transaction go together,
\* whatever the worker, a signal or the server does (refresh_worker.main,
\* before_publication, _publication_phase).
LEMMA TransactionMoves ==
    ASSUME "late_signal" \notin Faults, WorkerTypeOK, TransactionInv,
           WorkerNext \/ leaf_ends \/ worker_dies \/ server_decides \/ stray_output
    PROVE  TransactionInv' /\ (wk.at = "said" => wk' = wk)
<1> USE DEF supVars, supPart, storagePart, workerPart, To, Finish, WorkerAt
<1>t. /\ DOMAIN wk = {"at", "cancel", "started", "claim"}
      /\ wk.at \in WorkerSteps /\ wk.claim \in Claims \cup {"none"}
      /\ wk.started \in BOOLEAN /\ run \in BOOLEAN /\ backend \in {"none", "committing"}
      /\ decision \in {"none", "not_started", "transaction_started", "torn"}
  BY DEF WorkerTypeOK
<1>1. CASE say_hello \/ read_start \/ begin_staging
  <2>1. /\ UNCHANGED <<run, backend, decision>>
        /\ wk.at \in BeforeGate /\ wk'.at \in BeforeGate
        /\ wk'.claim = wk.claim /\ wk'.started = wk.started
    BY <1>1, <1>t DEF say_hello, read_start, begin_staging, BeforeGate
  <2> QED  BY <2>1, <1>t DEF TransactionInv, ClaimedInv, BeforeGate, ClaimIsTrue
<1>2. CASE first_check \/ check_cancelled
  <2>1. /\ UNCHANGED <<run, backend, decision>> /\ wk.at \in BeforeGate
        /\ wk'.started = wk.started
        /\ \/ wk'.at \in BeforeGate /\ wk'.claim = wk.claim
           \/ wk'.at = "finishing" /\ wk'.claim = "failed_not_started"
    BY <1>2, <1>t DEF first_check, check_cancelled, BeforeGate
  <2> QED  BY <2>1, <1>t DEF TransactionInv, ClaimedInv, BeforeGate, ClaimIsTrue
<1>3. CASE work_fails
  <2>1. /\ UNCHANGED <<run, backend, decision>> /\ wk.at \in BeforeGate
        /\ wk'.started = wk.started
        /\ wk'.at = "finishing" /\ wk'.claim \in {"failed_not_started", "failed_unknown"}
    BY <1>3, <1>t DEF work_fails, BeforeGate
  <2> QED  BY <2>1, <1>t DEF TransactionInv, ClaimedInv, BeforeGate, ClaimIsTrue
<1>4. CASE emit_heartbeat \/ launch_leaf \/ leaf_ends \/ stray_output \/ exit
  <2>1. UNCHANGED <<wk, run, backend, decision>>
    BY <1>4 DEF emit_heartbeat, launch_leaf, leaf_ends, stray_output, exit
  <2> QED  BY <2>1 DEF TransactionInv, ClaimedInv, ClaimIsTrue
<1>5. CASE pass_gate
  <2>1. /\ UNCHANGED <<run, backend>> /\ wk.at = "checked"
        /\ decision' = "transaction_started"
        /\ wk'.at = "publishing" /\ wk'.claim = wk.claim /\ wk'.started
    BY <1>5, <1>t DEF pass_gate
  <2> QED  BY <2>1, <1>t DEF TransactionInv, ClaimedInv, BeforeGate, ClaimIsTrue
<1>6. CASE final_transaction_fails
  <2>1. /\ UNCHANGED <<run, backend, decision>> /\ wk.at = "publishing"
        /\ wk'.started = wk.started
        /\ wk'.at = "finishing" /\ wk'.claim = "failed_not_started"
    BY <1>6, <1>t DEF final_transaction_fails
  <2> QED  BY <2>1, <1>t DEF TransactionInv, ClaimedInv, BeforeGate, ClaimIsTrue
<1>7. CASE request_commit
  <2>1. /\ UNCHANGED <<run, decision>> /\ wk.at = "publishing"
        /\ backend' = "committing"
        /\ wk'.at = "commit_sent" /\ wk'.claim = wk.claim /\ wk'.started = wk.started
    BY <1>7, <1>t DEF request_commit
  <2> QED  BY <2>1, <1>t DEF TransactionInv, ClaimedInv, BeforeGate, ClaimIsTrue
<1>8. CASE server_decides
  <2>1. /\ UNCHANGED <<wk, decision>> /\ backend = "committing" /\ backend' = "none"
        /\ run' \in BOOLEAN
    BY <1>8 DEF server_decides
  <2>2. ~run /\ wk.at # "unwinding" /\ wk.started /\ wk.at # "publishing"
    BY <2>1 DEF TransactionInv, ClaimedInv
  <2>3. wk.claim \notin {"succeeded", "cancelled", "failed_not_started", "failed_rolled_back"}
    BY <2>1, <2>2 DEF TransactionInv, ClaimedInv, ClaimIsTrue
  <2> QED  BY <2>1, <2>2, <2>3 DEF TransactionInv, ClaimedInv, ClaimIsTrue
<1>9. CASE commit_returns
  <2>1. /\ UNCHANGED <<run, backend, decision>> /\ wk.at = "commit_sent"
        /\ wk'.started = wk.started
        /\ \/ run /\ wk'.at = "unwinding" /\ wk'.claim = wk.claim
           \/ wk'.at = "finishing" /\ wk'.claim = "failed_unknown"
    BY <1>9, <1>t DEF commit_returns
  <2> QED  BY <2>1, <1>t DEF TransactionInv, ClaimedInv, BeforeGate, ClaimIsTrue
<1>10. CASE refresh_returns
  <2>1. /\ UNCHANGED <<run, backend, decision>> /\ wk.at = "unwinding"
        /\ wk'.started = wk.started
        /\ wk'.at = "finishing" /\ wk'.claim \in {"succeeded", "failed_unknown"}
    BY <1>10, <1>t DEF refresh_returns
  <2> QED  BY <2>1, <1>t DEF TransactionInv, ClaimedInv, BeforeGate, ClaimIsTrue
<1>11. CASE interrupted
  <2>1. /\ UNCHANGED <<run, backend>> /\ wk'.at = "finishing"
        /\ wk'.started = wk.started
        /\ decision' = decision \/ wk.at = "checked"
        /\ \/ /\ wk.at \in {"staging", "checked", "publishing"}
              /\ wk'.claim = "failed_rolled_back"
           \/ wk.at = "unwinding" /\ wk'.claim = "failed_unknown"
    BY <1>11, <1>t DEF interrupted
  <2> QED  BY <2>1, <1>t DEF TransactionInv, ClaimedInv, BeforeGate, ClaimIsTrue
<1>12. CASE last_check
  <2>1. /\ UNCHANGED <<run, backend, decision>> /\ wk.at = "finishing" /\ wk'.at = "last"
        /\ wk'.started = wk.started
        /\ wk'.claim = wk.claim \/ (wk'.claim = "cancelled" /\ ~wk.started)
    BY <1>12, <1>t DEF last_check
  <2> QED  BY <2>1, <1>t DEF TransactionInv, ClaimedInv, BeforeGate, ClaimIsTrue
<1>13. CASE say_terminal
  <2>1. /\ UNCHANGED <<run, backend, decision>> /\ wk.at = "last" /\ wk'.at = "said"
        /\ wk'.started = wk.started /\ wk'.claim = wk.claim
    BY <1>13, <1>t DEF say_terminal
  <2> QED  BY <2>1, <1>t DEF TransactionInv, ClaimedInv, BeforeGate, ClaimIsTrue
<1>14. CASE worker_dies
  <2>1. /\ UNCHANGED <<run, backend, wk>>
        /\ decision' = decision \/ wk.at = "checked"
    BY <1>14 DEF worker_dies
  <2> QED  BY <2>1, <1>t DEF TransactionInv, ClaimedInv, BeforeGate, ClaimIsTrue
<1> QED
  BY <1>1, <1>2, <1>3, <1>4, <1>5, <1>6, <1>7, <1>8, <1>9, <1>10, <1>11, <1>12,
     <1>13, <1>14 DEF WorkerNext

\* Only the worker's terminal makes a claim, and nothing follows it.
LEMMA ClaimMoves ==
    ASSUME WorkerTypeOK, ChannelOK, TransactionInv, ClaimInv(wk.claim, wk.at = "said"),
           wk.at = "said" => wk' = wk,
           WorkerNext \/ leaf_ends \/ worker_dies \/ server_decides \/ stray_output
    PROVE  ClaimInv(wk.claim, wk.at = "said")'
<1> USE DEF supVars, supPart, storagePart, workerPart, processVars, pipeVars, WorkerAt, Says
<1>a. PICK c, d : c = wk.claim /\ d = wk'.claim
  OBVIOUS
<1>b. PICK b \in BOOLEAN : b <=> wk.at = "said"
  <2>1. CASE wk.at = "said"
    BY <2>1
  <2>2. CASE wk.at # "said"
    BY <2>2
  <2> QED  BY <2>1, <2>2
<1>e. PICK e \in BOOLEAN : e <=> wk'.at = "said"
  <2>1. CASE wk'.at = "said"
    BY <2>1
  <2>2. CASE wk'.at # "said"
    BY <2>2
  <2> QED  BY <2>1, <2>2
<1>0. /\ c = wk.claim /\ (b <=> wk.at = "said")
      /\ d = wk'.claim /\ (e <=> wk'.at = "said")
  BY <1>a, <1>b, <1>e
<1>1. UNCHANGED session
  BY DEF WorkerNext, say_hello, read_start, first_check, emit_heartbeat, launch_leaf,
         begin_staging, work_fails, check_cancelled, pass_gate, final_transaction_fails,
         request_commit, commit_returns, refresh_returns, interrupted, last_check,
         say_terminal, exit, leaf_ends, worker_dies, server_decides, stray_output
<1>2. \/ UNCHANGED up
      \/ \E m \in Messages : /\ up' = Append(up, m)
                             /\ m.claim # "none" => m.claim = d /\ e
  <2>1. CASE say_hello \/ emit_heartbeat \/ stray_output
    <3>1. \E t \in UpTypes : up' = Append(up, Message(t))
      BY <2>1 DEF say_hello, emit_heartbeat, stray_output, UpTypes
    <3> QED  BY <3>1, MessageFields
  <2>2. CASE first_check \/ check_cancelled \/ last_check
    BY <2>2, RefreshLines DEF first_check, check_cancelled, last_check
  <2>3. CASE say_terminal
    <3>1. wk.claim \in Claims
      BY <2>3 DEF say_terminal, WorkerAt, TransactionInv, ClaimedInv, WorkerTypeOK
    <3>2. wk'.claim = wk.claim /\ wk'.at = "said"
      BY <2>3 DEF say_terminal, To, WorkerTypeOK
    <3>3. up' = Append(up, Terminal(wk.claim))
      BY <2>3 DEF say_terminal
    <3> QED  BY <3>1, <3>2, <3>3, <1>0, MessageFields
  <2>4. CASE \/ read_start \/ launch_leaf \/ begin_staging \/ work_fails \/ pass_gate
             \/ final_transaction_fails \/ request_commit \/ commit_returns
             \/ refresh_returns \/ interrupted \/ exit \/ leaf_ends \/ worker_dies
             \/ server_decides
    BY <2>4 DEF read_start, launch_leaf, begin_staging, work_fails, pass_gate,
         final_transaction_fails, request_commit, commit_returns, refresh_returns,
         interrupted, exit, leaf_ends, worker_dies, server_decides
  <2> QED  BY <2>1, <2>2, <2>3, <2>4 DEF WorkerNext
<1>3. b => d = c /\ e
  BY <1>0
<1>4. ClaimInv(c, b)
  BY <1>0 DEF ClaimInv
<1>5. ClaimInv(d, e)'
  BY <1>1, <1>2, <1>3, <1>4, ClaimWritten
<1> QED  BY <1>0, <1>5 DEF ClaimInv

\* What was returned stays true while the worker, or the server, goes on.
LEMMA ReturnedStays ==
    ASSUME WorkerTypeOK, TransactionInv, JudgeInv, ReturnInv,
           wk.at = "said" => wk' = wk,
           WorkerNext \/ leaf_ends \/ worker_dies \/ server_decides \/ stray_output
    PROVE  JudgeInv' /\ ReturnInv'
<1> USE DEF supVars, supPart, storagePart, workerPart, processVars, pipeVars, WorkerAt
<1>1. /\ UNCHANGED <<session, reader, sup, result>>
      /\ proc' = "running" => proc = "running"
  BY DEF WorkerNext, say_hello, read_start, first_check, emit_heartbeat, launch_leaf,
         begin_staging, work_fails, check_cancelled, pass_gate, final_transaction_fails,
         request_commit, commit_returns, refresh_returns, interrupted, last_check,
         say_terminal, exit, leaf_ends, worker_dies, server_decides, stray_output
<1>2. \/ UNCHANGED <<run, backend>>
      \/ backend = "committing" /\ backend' = "none"
      \/ Running /\ wk.at = "publishing" /\ UNCHANGED run
  BY DEF WorkerNext, say_hello, read_start, first_check, emit_heartbeat, launch_leaf,
         begin_staging, work_fails, check_cancelled, pass_gate, final_transaction_fails,
         request_commit, commit_returns, refresh_returns, interrupted, last_check,
         say_terminal, exit, leaf_ends, worker_dies, server_decides, stray_output
<1>3. JudgeInv'
  BY <1>1 DEF JudgeInv, Running
<1>4. run => run'
  BY <1>2 DEF TransactionInv, WorkerTypeOK
<1>5. /\ ~run /\ backend = "none" /\ (~Running \/ wk.at = "said")
      => ~run' /\ backend' = "none" /\ (~Running' \/ wk'.at = "said")
  BY <1>1, <1>2 DEF Running
<1> QED  BY <1>1, <1>3, <1>4, <1>5 DEF ReturnInv

\* What run_refresh_worker returns has its type, whatever the claim.
LEMMA ReturnTypes ==
    ASSUME RefreshOK, return_result
    PROVE  RefreshOK'
<1> USE DEF processVars, pipeVars
<1> DEFINE Results == [status : {"none", "succeeded", "cancelled", "failed"},
                       pub : {"none", "not_started", "rolled_back",
                              "commit_unknown", "committed"},
                       proved : BOOLEAN]
<1>1. /\ sup' = [sup EXCEPT !.at = "returned"]
      /\ UNCHANGED <<proc, helper, sig, down, up, cancel, session, reader, wk, wsession,
                     leaf, backend, run>>
  BY DEF return_result, Goto
<1>2. sup' \in [at : SupSteps, reason : Reasons, cancelSent : BOOLEAN,
                stopped : BOOLEAN, waited : BOOLEAN, clean : BOOLEAN,
                synthesized : BOOLEAN]
  BY <1>1 DEF RefreshOK, ChannelOK, SupTypeOK, SupSteps
<1>3. decision' \in {"none", "not_started", "transaction_started", "torn"}
  BY DEF RefreshOK, WorkerTypeOK, return_result, Closed
<1>4. /\ ClaimedStatus(Effective) \in {"none", "succeeded", "cancelled", "failed"}
      /\ ClaimedState(Effective) \in {"none", "not_started", "rolled_back",
                                      "commit_unknown", "committed"}
  BY DEF ClaimedStatus, ClaimedState
<1>5. result' \in Results
  <2>1. CASE ~Cleaned
    <3>1. result' = [status |-> ClaimedStatus(Effective),
                     pub |-> ClaimedState(Effective), proved |-> FALSE]
      BY <2>1 DEF return_result
    <3> QED  BY <1>4, <3>1
  <2>2. CASE Cleaned
    <3>1. PICK file \in Closed : result' = Mapped(EvidenceOf(file))
      BY <2>2 DEF return_result
    <3>2. PICK state : state = EvidenceOf(file)
      OBVIOUS
    <3>3. state \in {"not_started", "commit_unknown"} /\ result' = Mapped(state)
      BY <3>1, <3>2 DEF EvidenceOf
    <3> QED  BY <3>3, <1>4 DEF Mapped
  <2> QED  BY <2>1, <2>2
<1> QED  BY SMT, <1>1, <1>2, <1>3, <1>5 DEF RefreshOK, WorkerTypeOK, ChannelOK, SupTypeOK

\* What run_refresh_worker returns is true (refresh_adapter): the terminal
\* that counts is the worker's claim, and evidence that nothing was published
\* is only found where the gate was not passed and the worker is gone.
LEMMA ReturnsTruth ==
    ASSUME RefreshInv, return_result
    PROVE  RefreshInv'
<1> USE DEF processVars, pipeVars
<1>t. /\ DOMAIN sup = {"at", "reason", "cancelSent", "stopped", "waited", "clean", "synthesized"}
      /\ decision \in {"none", "not_started", "transaction_started", "torn"}
      /\ session.terminal \in Claims \cup {"none"}
      /\ sup.synthesized \in BOOLEAN
  BY DEF RefreshInv, WorkerTypeOK, SupTypeOK
<1>1. /\ sup.at = "judged" /\ sup' = [sup EXCEPT !.at = "returned"]
      /\ UNCHANGED <<proc, helper, sig, down, up, cancel, session, reader, wk, wsession,
                     leaf, backend, run>>
  BY DEF return_result, Goto
<1>2. sup'.at = "returned" /\ sup'.waited = sup.waited
  BY <1>1, <1>t
<1>3. RefreshOK'
  BY ReturnTypes DEF RefreshInv, RefreshOK
<1>4. wk.started => decision' = "transaction_started"
  BY DEF return_result, Closed, RefreshInv, TransactionInv
<1>5. ~sup.synthesized => /\ session.terminal \in Claims
                          /\ session.terminal = wk.claim /\ wk.at = "said"
                          /\ Effective = session.terminal
  BY <1>1, <1>t DEF RefreshInv, JudgeInv, ClaimInv, Effective
<1>6. Effective = "worker_exit" \/ (~sup.synthesized /\ Effective = session.terminal)
  BY <1>t DEF Effective
<1>7. /\ ClaimedStatus(Effective) = "succeeded" => run
      /\ ClaimedStatus(Effective) = "cancelled" => ClaimedState(Effective) = "not_started"
      /\ ClaimedState(Effective) \in {"not_started", "rolled_back"} =>
            ~run /\ backend = "none" /\ wk.at = "said"
  <2>1. CASE Effective = "worker_exit"
    BY <2>1 DEF ClaimedStatus, ClaimedState
  <2>2. CASE Effective \in Claims /\ Effective = wk.claim /\ wk.at = "said"
    <3>1. ClaimIsTrue(Effective)
      BY <2>2 DEF RefreshInv, TransactionInv
    <3> QED  BY <2>2, <3>1 DEF ClaimedStatus, ClaimedState, Claims, ClaimIsTrue
  <2> QED  BY <2>1, <2>2, <1>5, <1>6
<1>8. ReturnInv'
  <2>1. CASE ~Cleaned
    <3>1. result' = [status |-> ClaimedStatus(Effective),
                     pub |-> ClaimedState(Effective), proved |-> FALSE]
      BY <2>1 DEF return_result
    <3>2. result'.status = ClaimedStatus(Effective) /\ result'.pub = ClaimedState(Effective)
      BY <3>1
    <3> QED  BY <3>1, <3>2, <1>1, <1>7 DEF ReturnInv
  <2>2. CASE Cleaned
    <3>1. PICK file \in Closed : decision' = file /\ result' = Mapped(EvidenceOf(file))
      BY <2>2 DEF return_result
    <3> DEFINE state == EvidenceOf(file)
    <3>2. state \in {"not_started", "commit_unknown"}
      BY DEF EvidenceOf
    <3>3. state = "not_started" => ~run /\ backend = "none" /\ ~Running
      <4>1. state = "not_started" => ~wk.started
        BY <1>4, <3>1 DEF EvidenceOf
      <4>2. ~Running
        BY <2>2 DEF Cleaned, RefreshInv, JudgeInv
      <4>3. ~wk.started => ~run /\ backend = "none"
        BY DEF RefreshInv, TransactionInv, WorkerTypeOK
      <4> QED  BY <4>1, <4>2, <4>3
    <3> HIDE DEF state
    <3>4. \/ /\ result'.status \in {"cancelled", "failed"} /\ result'.pub = state
             /\ result'.status = "cancelled" => state = "not_started"
          \/ /\ result'.status = ClaimedStatus(Effective) /\ Effective # "cancelled"
             /\ \/ result'.pub = ClaimedState(Effective)
                \/ result'.pub = "not_started" /\ state = "not_started"
      <4>0. result' = Mapped(state)
        BY <3>1 DEF state
      <4> QED  BY <4>0 DEF Mapped
    <3>5. ClaimedStatus(Effective) = "cancelled" => Effective = "cancelled"
      BY DEF ClaimedStatus
    <3> QED
      BY <3>2, <3>3, <3>4, <3>5, <1>1, <1>7 DEF ReturnInv, Running
  <2> QED  BY <2>1, <2>2
<1>9. TransactionInv'
  BY <1>1, <1>4 DEF RefreshInv, TransactionInv, ClaimedInv, ClaimIsTrue
<1>10. ClaimInv(wk.claim, wk.at = "said")'
  BY <1>1 DEF RefreshInv, ClaimInv
<1>11. JudgeInv'
  BY <1>1, <1>2 DEF RefreshInv, JudgeInv, Running
<1> QED  BY <1>3, <1>8, <1>9, <1>10, <1>11 DEF RefreshInv, RefreshOK

\* Every step of a refresh worker's run keeps the types, and it has a claim
\* just when its work is over (refresh_worker.main, run_refresh_worker).
LEMMA RefreshKeeps ==
    ASSUME RefreshOK, ClaimedInv, Next
    PROVE  RefreshOK' /\ ClaimedInv'
<1>t. /\ DOMAIN wk = {"at", "cancel", "started", "claim"}
      /\ wk.at \in WorkerSteps
  BY DEF RefreshOK, WorkerTypeOK
<1>1. CASE return_result
  <2>1. UNCHANGED wk
    BY <1>1 DEF return_result
  <2> QED  BY <1>1, <2>1, ReturnTypes DEF ClaimedInv
<1>2. CASE WorkerNext \/ leaf_ends \/ worker_dies \/ server_decides \/ stray_output
  <2> USE DEF supVars, storagePart, workerPart, To, Finish, WorkerAt
  <2> DEFINE Over == {"finishing", "last", "said"}
  <2>1. RefreshOK'
    BY <1>2, RefreshTypes DEF RefreshOK
  <2>2. CASE \/ emit_heartbeat \/ launch_leaf \/ exit \/ leaf_ends \/ worker_dies
             \/ server_decides \/ stray_output
    <3>1. UNCHANGED wk
      BY <2>2 DEF emit_heartbeat, launch_leaf, exit, leaf_ends, worker_dies,
                  server_decides, stray_output
    <3> QED  BY <2>1, <3>1 DEF ClaimedInv
  <2>3. CASE say_hello \/ read_start \/ begin_staging \/ pass_gate \/ request_commit
    <3>1. wk.at \notin Over /\ wk'.at \notin Over /\ wk'.claim = wk.claim
      BY <2>3, <1>t DEF say_hello, read_start, begin_staging, pass_gate, request_commit
    <3> QED  BY <2>1, <3>1 DEF ClaimedInv
  <2>4. CASE \/ first_check \/ check_cancelled \/ work_fails
             \/ final_transaction_fails \/ commit_returns \/ refresh_returns \/ interrupted
    <3>1. /\ wk.at \notin Over
          /\ \/ wk'.at \notin Over /\ wk'.claim = wk.claim
             \/ wk'.at = "finishing" /\ wk'.claim # "none"
      BY <2>4, <1>t DEF first_check, check_cancelled, work_fails, final_transaction_fails,
                        commit_returns, refresh_returns, interrupted, Handling
    <3> QED  BY <2>1, <3>1 DEF ClaimedInv
  <2>5. CASE last_check \/ say_terminal
    <3>1. /\ wk.at \in Over /\ wk'.at \in Over
          /\ wk'.claim # wk.claim => wk'.claim = "cancelled"
      BY <2>5, <1>t DEF last_check, say_terminal
    <3> QED  BY <2>1, <3>1 DEF ClaimedInv
  <2> QED  BY <1>2, <2>1, <2>2, <2>3, <2>4, <2>5 DEF WorkerNext
<1>3. CASE /\ SupervisorNext \/ ReaderNext \/ request_cancel
           /\ UNCHANGED <<workerPart, result>>
  <2>1. UNCHANGED <<wk, wsession, leaf, decision, backend, run, result>>
    BY <1>3 DEF workerPart
  <2>2. ChannelOK'
    BY <1>3, <2>1, SupervisedTypes, ReaderTypes DEF RefreshOK
  <2>3. WorkerTypeOK'
    BY SMT, <2>1, <2>2 DEF RefreshOK, WorkerTypeOK, ChannelOK
  <2> QED  BY <2>1, <2>2, <2>3 DEF RefreshOK, ClaimedInv
<1> QED  BY <1>1, <1>2, <1>3 DEF Next, QuietNext, Supervise

\* Every step of a refresh worker's run keeps the invariant.
LEMMA RefreshSteps ==
    ASSUME "late_signal" \notin Faults, RefreshInv, Next
    PROVE  RefreshInv'
<1>0. RefreshOK'
  BY RefreshKeeps DEF RefreshInv, RefreshOK, TransactionInv
<1>1. CASE return_result
  BY <1>1, ReturnsTruth
<1>2. CASE WorkerNext \/ leaf_ends \/ worker_dies \/ server_decides \/ stray_output
  <2>2. TransactionInv' /\ (wk.at = "said" => wk' = wk)
    BY <1>2, TransactionMoves DEF RefreshInv
  <2>3. ClaimInv(wk.claim, wk.at = "said")'
    BY <1>2, <2>2, ClaimMoves DEF RefreshInv
  <2>4. JudgeInv' /\ ReturnInv'
    BY <1>2, <2>2, ReturnedStays DEF RefreshInv
  <2> QED  BY <1>0, <2>2, <2>3, <2>4 DEF RefreshInv, RefreshOK
<1>3. CASE /\ SupervisorNext \/ ReaderNext \/ request_cancel
           /\ UNCHANGED <<workerPart, result>>
  <2>0. UNCHANGED <<wk, wsession, leaf, decision, backend, run, result>>
    BY <1>3 DEF workerPart
  <2>3. TransactionInv'
    BY <2>0 DEF RefreshInv, TransactionInv, ClaimedInv, ClaimIsTrue
  <2>4. ClaimInv(wk.claim, wk.at = "said")'
    <3>1. PICK c, b : c = wk.claim /\ b = (wk.at = "said")
      OBVIOUS
    <3>2. ClaimInv(c, b)
      BY <3>1 DEF RefreshInv
    <3>3. ClaimInv(c, b)'
      BY <1>3, <3>2, ClaimSupervised DEF RefreshInv
    <3> QED  BY <2>0, <3>1, <3>3 DEF ClaimInv
  <2>5. JudgeInv' /\ (SupervisorNext => sup'.at # "returned")
    BY <1>3, JudgeSupervised DEF RefreshInv
  <2>6. \/ sup'.at # "returned"
        \/ UNCHANGED <<sup, proc>>
    BY <1>3, <2>5 DEF ReaderNext, read_worker_stdout, reader_eof, request_cancel,
                      processVars
  <2>7. ReturnInv'
    BY <2>0, <2>6 DEF RefreshInv, ReturnInv, Running
  <2> QED  BY <1>0, <2>3, <2>4, <2>5, <2>7 DEF RefreshInv, RefreshOK
<1> QED  BY <1>1, <1>2, <1>3 DEF Next, QuietNext, Supervise

\* The sessions and the pipes of a refresh worker agree after each of them.
LEMMA RefreshChannel ==
    ASSUME RefreshOK, ClaimedInv, ChannelInv(RefreshPhase), QuietNext
    PROVE  ChannelInv(RefreshPhase)'
<1> USE DEF supVars, supPart, storagePart, workerPart, processVars, pipeVars, WorkerAt,
            To, Finish, RefreshOK
<1>t. /\ DOMAIN wk = {"at", "cancel", "started", "claim"}
      /\ wk.at \in WorkerSteps
  BY DEF WorkerTypeOK
<1>0. PICK p : p = RefreshPhase
  OBVIOUS
<1>p. ChannelInv(p)
  BY <1>0
<1>q. ASSUME NEW q, q = RefreshPhase', ChannelInv(q)'
      PROVE  ChannelInv(RefreshPhase)'
  BY <1>q DEF ChannelInv, OpeningInv, TalkInv, SendInv
<1>1. CASE /\ SupervisorNext \/ ReaderNext \/ request_cancel
           /\ UNCHANGED <<workerPart, result>>
  <2>1. ChannelInv(p)'
    BY <1>1, <1>p, ChannelSupervised, ChannelReads, ChannelRests DEF ReaderNext
  <2>2. p = RefreshPhase'
    BY <1>0, <1>1 DEF RefreshPhase
  <2> QED  BY <2>1, <2>2, <1>q
<1>2. CASE return_result
  <2>1. /\ UNCHANGED <<up, down, session, wsession, reader, wk>>
        /\ sup'.at = "returned" /\ sup'.cancelSent = sup.cancelSent
    BY <1>2 DEF return_result, Goto, ChannelOK, SupTypeOK
  <2>2. ChannelInv(p)'
    BY <2>1, <1>p, ChannelFrame
  <2>3. p = RefreshPhase'
    BY <1>0, <2>1 DEF RefreshPhase
  <2> QED  BY <2>2, <2>3, <1>q
<1>3. CASE say_hello
  <2>1. wk.at = "boot" /\ wk'.at = "await_start" /\ ChannelInv("boot")
    BY <1>3, <1>t, <1>0, <1>p DEF say_hello, RefreshPhase
  <2>2. ChannelInv("await_start")'
    BY <1>3, <2>1, ChannelHello DEF say_hello, Says
  <2> QED  BY <2>1, <2>2, <1>q DEF RefreshPhase
<1>4. CASE read_start
  <2>1. wk.at = "await_start" /\ wk'.at = "first" /\ ChannelInv("await_start")
    BY <1>4, <1>t, <1>0, <1>p DEF read_start, RefreshPhase
  <2>2. ChannelInv("work")'
    BY <1>4, <2>1, ChannelBegins DEF read_start
  <2> QED  BY <2>1, <2>2, <1>q DEF RefreshPhase
<1>5. CASE first_check \/ check_cancelled \/ last_check
  <2>1. /\ wk.at \in {"first", "staging", "finishing"} /\ ChannelInv("work")
        /\ wk'.at \in {"finishing", "capture", "checked", "last"}
    BY <1>5, <1>t, <1>0, <1>p DEF first_check, check_cancelled, last_check, RefreshPhase
  <2>2. Consumes /\ UNCHANGED <<session, reader, sup>>
    BY <1>5 DEF first_check, check_cancelled, last_check
  <2>3. ChannelInv("work")'
    <3>1. CASE down = <<>>
      <4>1. UNCHANGED <<up, down, session, wsession, reader, sup>>
        BY <2>2, <3>1 DEF Consumes
      <4> QED  BY <2>1, <4>1, ChannelFrame
    <3>2. CASE down # <<>>
      BY <2>1, <2>2, <3>2, ChannelAcks DEF Consumes
    <3> QED  BY <3>1, <3>2
  <2> QED  BY <2>1, <2>3, <1>q DEF RefreshPhase
<1>6. CASE emit_heartbeat
  <2>1. wk' = wk /\ ChannelInv("work") /\ RefreshPhase = "work"
    BY <1>6, <1>0, <1>p DEF emit_heartbeat, RefreshPhase, Handling
  <2>2. ChannelInv("work")'
    BY <1>6, <2>1, ChannelTalks DEF emit_heartbeat, Says
  <2> QED  BY <2>1, <2>2, <1>q DEF RefreshPhase
<1>7. CASE say_terminal
  <2>1. wk.at = "last" /\ wk'.at = "said" /\ ChannelInv("work") /\ wk.claim \in Claims
    BY <1>7, <1>t, <1>0, <1>p DEF say_terminal, RefreshPhase, ClaimedInv, WorkerTypeOK
  <2>2. ChannelInv("said")'
    BY <1>7, <2>1, ChannelEnds DEF say_terminal, Says
  <2> QED  BY <2>1, <2>2, <1>q DEF RefreshPhase
<1>8. CASE \/ launch_leaf \/ begin_staging \/ work_fails \/ pass_gate
           \/ final_transaction_fails \/ request_commit \/ commit_returns
           \/ refresh_returns \/ interrupted \/ exit
           \/ leaf_ends \/ worker_dies \/ server_decides
  <2>1. UNCHANGED <<up, down, session, wsession, reader, sup>>
    BY <1>8 DEF launch_leaf, begin_staging, work_fails, pass_gate,
         final_transaction_fails, request_commit, commit_returns, refresh_returns,
         interrupted, exit, leaf_ends, worker_dies, server_decides
  <2>2. \/ wk' = wk
        \/ /\ wk.at \in Handling \cup {"capture"}
           /\ wk'.at \in Handling \cup {"finishing"}
    BY <1>8, <1>t DEF launch_leaf, begin_staging, work_fails, pass_gate,
         final_transaction_fails, request_commit, commit_returns, refresh_returns,
         interrupted, exit, leaf_ends, worker_dies, server_decides, Handling
  <2>3. p = RefreshPhase'
    BY <1>0, <2>2 DEF RefreshPhase, Handling
  <2>4. ChannelInv(p)'
    BY <1>p, <2>1, ChannelFrame
  <2> QED  BY <2>3, <2>4, <1>q
<1> QED  BY <1>1, <1>2, <1>3, <1>4, <1>5, <1>6, <1>7, <1>8 DEF QuietNext, Supervise, WorkerNext

-----------------------------------------------------------------------------
(* The portable worker *)

\* The supervising thread signals the group only of a worker that it stops or
\* that has failed, and judges a success only by a clean end (cleanup,
\* abnormal_completion).
LEMMA GroupSupervised ==
    ASSUME ChannelOK, GroupInv, ~(helper /\ proc = "exited"), UNCHANGED captured,
           SupervisorNext \/ ReaderNext \/ request_cancel \/ helper_ends
    PROVE  GroupInv'
<1> USE DEF processVars, pipeVars, Goto, StopFor
<1>t. /\ DOMAIN sup = {"at", "reason", "cancelSent", "stopped", "waited", "clean", "synthesized"}
      /\ sup.waited \in BOOLEAN /\ sup.stopped \in BOOLEAN /\ sup.synthesized \in BOOLEAN
      /\ DOMAIN reader = {"hello", "err", "eof"} /\ reader.eof \in BOOLEAN
      /\ helper \in BOOLEAN /\ proc \in {"running", "exited", "failed"}
  BY DEF ChannelOK, SupTypeOK
<1>1. CASE ReaderNext \/ request_cancel \/ helper_ends
  <2>1. UNCHANGED <<proc, sig, sup>>
    BY <1>1 DEF ReaderNext, request_cancel, helper_ends, read_worker_stdout, reader_eof
  <2>2. reader.eof => UNCHANGED <<reader, session>>
    BY <1>1 DEF ReaderNext, request_cancel, helper_ends, read_worker_stdout, reader_eof
  <2> QED  BY <2>1, <2>2 DEF GroupInv, Running
<1>2. CASE await_hello \/ watch
  <2>1. /\ UNCHANGED <<proc, sig, session, reader>>
        /\ sup'.waited = sup.waited /\ sup'.stopped = sup.stopped
        /\ sup.at \in {"hello", "watch"} /\ sup'.at \in {"start", "stop", "send"}
    BY <1>2, <1>t DEF await_hello, watch
  <2> QED  BY <2>1 DEF GroupInv, Running
<1>3. CASE send_start \/ send_cancel
  <2>1. /\ UNCHANGED <<proc, sig>>
        /\ sup'.waited = sup.waited /\ sup'.stopped = sup.stopped
        /\ sup.at \in {"start", "send"} /\ sup'.at \in {"watch", "raised"}
    BY <1>3, <1>t DEF send_start, send_cancel
  <2> QED  BY <2>1 DEF GroupInv, Running
<1>4. CASE stop_worker
  <2>1. /\ UNCHANGED <<proc, session, reader>> /\ sup.at = "stop"
        /\ \/ /\ Running /\ sup'.at = "term_wait" /\ sup'.stopped
              /\ sup'.waited = sup.waited
           \/ /\ ~Running /\ sup'.at = "cleanup" /\ sup'.waited
              /\ sup'.stopped = sup.stopped /\ UNCHANGED sig
    BY <1>4, <1>t DEF stop_worker
  <2> QED  BY <2>1 DEF GroupInv, Running
<1>5. CASE await_term \/ await_kill
  <2>1. /\ UNCHANGED <<proc, session, reader>> /\ sup.at \in {"term_wait", "kill_wait"}
        /\ sup'.at \in {"kill_wait", "cleanup"} /\ sup'.stopped = sup.stopped
        /\ sup'.waited => sup.waited \/ ~Running
    BY <1>5, <1>t DEF await_term, await_kill
  <2> QED  BY <2>1 DEF GroupInv, Running
<1>6. CASE cleanup
  <2>1. /\ UNCHANGED <<proc, session, reader>> /\ sup.at = "cleanup"
        /\ sup'.at \in {"join", "cleanup_wait"}
        /\ sup'.stopped = sup.stopped /\ sup'.waited = sup.waited
        /\ UNCHANGED sig \/ ~TreeGone
    BY <1>6, <1>t DEF cleanup
  <2>2. ~TreeGone => sup.stopped \/ proc = "failed"
    BY <2>1, <1>t DEF GroupInv, TreeGone, Running
  <2> QED  BY <2>1, <2>2 DEF GroupInv, Running
<1>7. CASE await_cleanup
  <2>1. /\ UNCHANGED <<proc, sig, session, reader>> /\ sup.at = "cleanup_wait"
        /\ sup'.at = "join"
        /\ sup'.stopped = sup.stopped /\ sup'.waited = sup.waited
    BY <1>7, <1>t DEF await_cleanup
  <2> QED  BY <2>1 DEF GroupInv, Running
<1>8. CASE join_reader
  <2>1. /\ UNCHANGED <<proc, sig, session>> /\ sup.at = "join"
        /\ sup'.at = "judge" /\ reader'.eof
        /\ sup'.stopped = sup.stopped /\ sup'.waited = sup.waited
    BY <1>8, <1>t DEF join_reader
  <2> QED  BY <2>1 DEF GroupInv, Running
<1>9. CASE judge
  <2>1. /\ UNCHANGED <<proc, sig, session, reader>> /\ sup.at = "judge"
        /\ sup'.at = "judged" /\ sup'.synthesized = Synthesized
        /\ sup'.stopped = sup.stopped /\ sup'.waited = sup.waited
    BY <1>9, <1>t DEF judge
  <2>2. ~Synthesized /\ session.terminal = "succeeded" =>
           FinalReason = "none" /\ ~sup.stopped
    BY DEF Synthesized
  <2>3. FinalReason = "none" => proc = "exited"
    BY DEF FinalReason
  <2> QED  BY <2>1, <2>2, <2>3 DEF GroupInv, Running
<1> QED
  BY <1>1, <1>2, <1>3, <1>4, <1>5, <1>6, <1>7, <1>8, <1>9 DEF SupervisorNext

\* The steps of the portable worker's own threads.
PortableWork ==
    \/ portable_hello \/ portable_start \/ emit_progress
    \/ start_helper \/ work_ends \/ settle
    \/ emit_terminal \/ portable_exit \/ portable_dies
    \/ heartbeat \/ read_cancellation

\* Its threads keep their accounts: a cancel is accepted only while the main
\* thread still waits for them, and it decides the terminal (settle).
LEMMA ThreadsMove ==
    ASSUME PortableTypeOK, ChannelOK, ThreadsInv, PortableWork
    PROVE  ThreadsInv' /\ (pw.at = "said" => pw' = pw)
<1> USE DEF MainAt, Running, threadPart, supVars,
            pipeVars, processVars
<1>t. /\ DOMAIN pw = {"at", "beating", "reading", "stop", "cancel", "claim"}
      /\ pw.at \in {"boot", "await_start", "work", "settle", "emit", "said"}
      /\ pw.beating \in BOOLEAN /\ pw.reading \in BOOLEAN /\ pw.stop \in BOOLEAN
      /\ pw.cancel \in BOOLEAN /\ helper \in BOOLEAN
  BY DEF PortableTypeOK, ChannelOK, SupTypeOK
<1>1. CASE portable_hello
  <2>1. /\ UNCHANGED <<proc, helper>> /\ Running /\ pw.at = "boot"
        /\ pw' = [pw EXCEPT !.at = "await_start"]
    BY <1>1 DEF portable_hello, Running
  <2> QED  BY <2>1, <1>t DEF ThreadsInv, Running
<1>2. CASE portable_start
  <2>1. /\ UNCHANGED <<proc, helper>> /\ Running /\ pw.at = "await_start"
        /\ \/ pw' = [pw EXCEPT !.at = "emit", !.claim = "failed_not_started"]
           \/ pw' = [pw EXCEPT !.at = "work", !.beating = TRUE, !.reading = TRUE]
    BY <1>2 DEF portable_start, Running
  <2> QED  BY <2>1, <1>t DEF ThreadsInv, Running
<1>3. CASE emit_progress
  BY <1>3 DEF emit_progress, ThreadsInv
<1>4. CASE start_helper
  BY <1>4 DEF start_helper, ThreadsInv
<1>5. CASE work_ends
  <2>1. PICK claim \in {"succeeded", "cancelled", "failed_not_started"} :
           pw' = [pw EXCEPT !.at = "settle", !.claim = claim, !.stop = TRUE]
    BY <1>5 DEF work_ends
  <2>2. UNCHANGED <<proc, helper>> /\ Running /\ pw.at = "work" /\ ~helper
    BY <1>5 DEF work_ends, Running
  <2> QED  BY <2>1, <2>2, <1>t DEF ThreadsInv, Running
<1>6. CASE settle
  <2>1. /\ UNCHANGED <<proc, helper>> /\ Running /\ pw.at = "settle"
        /\ ~pw.beating /\ ~pw.reading
        /\ pw' = [pw EXCEPT !.at = "emit",
                            !.claim = IF pw.cancel THEN "cancelled" ELSE pw.claim]
    BY <1>6, <1>t DEF settle, Running
  <2> QED  BY <2>1, <1>t DEF ThreadsInv, Running
<1>7. CASE emit_terminal
  <2>1. /\ UNCHANGED <<proc, helper>> /\ Running /\ pw.at = "emit"
        /\ pw' = [pw EXCEPT !.at = "said"]
    BY <1>7 DEF emit_terminal, Running
  <2> QED  BY <2>1, <1>t DEF ThreadsInv, Running
<1>8. CASE portable_exit \/ portable_dies
  BY SMT, <1>8 DEF portable_exit, portable_dies, ThreadsInv
<1>9. CASE heartbeat
  <2>1. /\ UNCHANGED <<proc, helper>> /\ Running
        /\ \/ UNCHANGED pw
           \/ pw.beating /\ pw' = [pw EXCEPT !.beating = FALSE]
    BY <1>9 DEF heartbeat, Running
  <2> QED  BY <2>1, <1>t DEF ThreadsInv, Running
<1>10. CASE read_cancellation
  <2>1. /\ UNCHANGED <<proc, helper>> /\ Running /\ pw.reading
        /\ \/ pw' = [pw EXCEPT !.reading = FALSE, !.cancel = TRUE]
           \/ pw' = [pw EXCEPT !.reading = FALSE]
    BY <1>10 DEF read_cancellation, Running
  <2> QED  BY <2>1, <1>t DEF ThreadsInv, Running
<1> QED
  BY <1>1, <1>2, <1>3, <1>4, <1>5, <1>6, <1>7, <1>8, <1>9, <1>10 DEF PortableWork

\* The rows of its threads.
Threads == [at : {"boot", "await_start", "work", "settle", "emit", "said"},
            beating : BOOLEAN, reading : BOOLEAN, stop : BOOLEAN,
            cancel : BOOLEAN, claim : Claims \cup {"none"}]

\* What a step of its threads may write: lines without a claim, and the terminal
\* once (emit, _emit_terminal).
PortableLines ==
    /\ wsession' \in Sessions /\ down' \in Seq({Start, Cancel})
    /\ \/ UNCHANGED up
       \/ \E m \in Messages : /\ up' = Append(up, m)
                              /\ m.claim # "none" => m.claim = pw'.claim /\ pw'.at = "said"

\* And what it leaves alone.
PortableFrame ==
    /\ UNCHANGED <<sig, cancel, session, reader, sup, captured>>
    /\ \/ proc' = proc
       \/ Running /\ proc' \in {"exited", "failed"}
    /\ helper' \in BOOLEAN

\* The steps of its threads write that.
LEMMA PortableWrites ==
    ASSUME PortableTypeOK, ChannelOK, ThreadsInv, PortableWork
    PROVE  PortableLines
<1> USE DEF MainAt, threadPart, supVars, pipeVars
<1>t. /\ wsession \in Sessions /\ down \in Seq({Start, Cancel}) /\ pw \in Threads
  BY DEF PortableTypeOK, ChannelOK, Threads, Sessions
<1>d. DOMAIN pw = {"at", "beating", "reading", "stop", "cancel", "claim"}
  BY <1>t DEF Threads
<1>m. ASSUME NEW m \in Messages, Says(m)
      PROVE  wsession' \in Sessions /\ up' = Append(up, m)
  BY <1>t, <1>m, AdvancedFields DEF Says
<1>h. down # <<>> => Head(down) \in {Start, Cancel} /\ Tail(down) \in Seq({Start, Cancel})
  BY <1>t, ST!HeadTailProperties
<1>1. CASE \/ portable_hello
           \/ emit_progress
           \/ heartbeat /\ Says(Message("heartbeat"))
  <2>1. /\ \E t \in {"worker_hello", "progress", "heartbeat"} : Says(Message(t))
        /\ UNCHANGED down
    BY <1>1 DEF portable_hello, emit_progress, heartbeat
  <2>2. PICK t \in {"worker_hello", "progress", "heartbeat"} : Says(Message(t))
    BY <2>1
  <2>3. Message(t) \in Messages /\ Message(t).claim = "none"
    BY MessageFields DEF UpTypes
  <2>4. wsession' \in Sessions /\ up' = Append(up, Message(t))
    BY <1>m, <2>2, <2>3
  <2> QED  BY <1>t, <2>1, <2>3, <2>4 DEF PortableLines
<1>2. CASE emit_terminal
  <2>1. /\ Says(Terminal(pw.claim)) /\ UNCHANGED down
        /\ pw.at = "emit" /\ pw' = [pw EXCEPT !.at = "said"]
    BY <1>2 DEF emit_terminal
  <2>2. pw.claim \in Claims /\ pw'.claim = pw.claim /\ pw'.at = "said"
    BY <1>t, <1>d, <2>1 DEF ThreadsInv, Threads
  <2>3. Terminal(pw.claim) \in Messages /\ Terminal(pw.claim).claim = pw.claim
    BY <2>2, MessageFields
  <2>4. wsession' \in Sessions /\ up' = Append(up, Terminal(pw.claim))
    BY <1>m, <2>1, <2>3
  <2> QED  BY <1>t, <2>1, <2>2, <2>3, <2>4 DEF PortableLines
<1>3. CASE portable_start
  <2>1. /\ down # <<>> /\ wsession' = Advanced(wsession, Head(down))
        /\ down' = Tail(down) /\ UNCHANGED up
    BY <1>3 DEF portable_start
  <2>2. wsession' \in Sessions
    BY <1>t, <1>h, <2>1, AdvancedFields
  <2> QED  BY <1>h, <2>1, <2>2 DEF PortableLines
<1>4. CASE read_cancellation /\ down # <<>>
  <2>1. /\ down' = Tail(down) /\ up' = Append(up, Message("cancel_ack"))
        /\ wsession' = Advanced(Advanced(wsession, Head(down)), Message("cancel_ack"))
    BY <1>4 DEF read_cancellation
  <2>2. Message("cancel_ack") \in Messages /\ Message("cancel_ack").claim = "none"
    BY MessageFields DEF UpTypes
  <2>3. Advanced(wsession, Head(down)) \in Sessions
    BY <1>t, <1>h, <1>4, AdvancedFields
  <2>4. wsession' \in Sessions
    BY <2>1, <2>2, <2>3, AdvancedFields
  <2> QED  BY <1>h, <1>4, <2>1, <2>2, <2>4 DEF PortableLines
<1>5. CASE UNCHANGED <<down, up, wsession>>
  BY <1>5, <1>t DEF PortableLines
<1>6. heartbeat => \/ Says(Message("heartbeat"))
                            \/ UNCHANGED <<down, up, wsession>>
  BY DEF heartbeat
<1>7. read_cancellation => down # <<>> \/ UNCHANGED <<down, up, wsession>>
  BY DEF read_cancellation
<1>8. (\/ start_helper \/ work_ends \/ settle
       \/ portable_exit \/ portable_dies) => UNCHANGED <<down, up, wsession>>
  BY DEF start_helper, work_ends, settle, portable_exit,
         portable_dies
<1> QED  BY <1>1, <1>2, <1>3, <1>4, <1>5, <1>6, <1>7, <1>8 DEF PortableWork

\* They leave the supervising thread alone, and end the process once.
LEMMA PortableKeeps ==
    ASSUME ChannelOK, PortableWork
    PROVE  PortableFrame
<1> USE DEF MainAt, Running, threadPart, supVars,
            pipeVars
<1>t. helper \in BOOLEAN
  BY DEF ChannelOK, SupTypeOK
<1>1. CASE portable_exit \/ portable_dies
  BY <1>1, <1>t DEF portable_exit, portable_dies, PortableFrame, Running
<1>2. CASE start_helper
  BY <1>2 DEF start_helper, PortableFrame
<1>3. CASE \/ portable_hello \/ portable_start \/ emit_progress
           \/ emit_terminal
  BY <1>3, <1>t DEF portable_hello, portable_start, emit_progress,
                    emit_terminal, PortableFrame
<1>4. CASE work_ends \/ settle
  BY <1>4, <1>t DEF work_ends, settle, PortableFrame
<1>5. CASE heartbeat \/ read_cancellation
  BY <1>5, <1>t DEF heartbeat, read_cancellation, PortableFrame
<1> QED  BY <1>1, <1>2, <1>3, <1>4, <1>5 DEF PortableWork

\* The rows of the threads keep their types.
LEMMA ThreadsTypes ==
    ASSUME pw \in Threads, PortableWork
    PROVE  pw' \in Threads
<1> USE DEF supVars
<1> DEFINE Ended(c) == [pw EXCEPT !.at = "settle", !.claim = c, !.stop = TRUE]
           Decided(c) == [pw EXCEPT !.at = "emit", !.claim = c]
           Begun == [pw EXCEPT !.at = "work", !.beating = TRUE, !.reading = TRUE]
           Acked == [pw EXCEPT !.reading = FALSE, !.cancel = TRUE]
<1>1. /\ \A a \in {"await_start", "said"} : [pw EXCEPT !.at = a] \in Threads
      /\ [pw EXCEPT !.beating = FALSE] \in Threads
      /\ [pw EXCEPT !.reading = FALSE] \in Threads
  BY DEF Threads
<1>2. \A c \in Claims : Ended(c) \in Threads
  BY DEF Threads
<1>3. \A c \in Claims \cup {"none"} : Decided(c) \in Threads
  BY DEF Threads
<1>4. Begun \in Threads /\ Acked \in Threads
  BY DEF Threads
<1>5. /\ "succeeded" \in Claims /\ "cancelled" \in Claims /\ "failed_not_started" \in Claims
      /\ pw.claim \in Claims \cup {"none"}
  BY DEF Threads, Claims
<1>6. CASE portable_hello \/ emit_terminal \/ heartbeat
  BY <1>1, <1>6 DEF portable_hello, emit_terminal, heartbeat
<1>7. CASE portable_start
  <2>1. pw' \in {Decided("failed_not_started"), Begun}
    BY <1>7 DEF portable_start
  <2> QED  BY <2>1, <1>3, <1>4, <1>5
<1>8. CASE work_ends
  <2>1. \E c \in {"succeeded", "cancelled", "failed_not_started"} : pw' = Ended(c)
    BY <1>8 DEF work_ends
  <2> QED  BY ZenonT(40), <2>1, <1>2, <1>5
<1>9. CASE settle
  <2>1. pw' = Decided(IF pw.cancel THEN "cancelled" ELSE pw.claim)
    BY <1>9 DEF settle
  <2> QED  BY <2>1, <1>3, <1>5
<1>10. CASE read_cancellation
  <2>1. pw' = Acked \/ pw' = [pw EXCEPT !.reading = FALSE]
    BY <1>10 DEF read_cancellation
  <2> QED  BY <2>1, <1>1, <1>4
<1>11. CASE \/ emit_progress \/ start_helper \/ portable_exit
            \/ portable_dies
  BY <1>11 DEF emit_progress, start_helper, portable_exit,
               portable_dies
<1> QED  BY <1>6, <1>7, <1>8, <1>9, <1>10, <1>11 DEF PortableWork

\* The types of PortableWorker in those of the channel.
LEMMA PortableTypes ==
    PortableTypeOK /\ ChannelOK <=>
        /\ ChannelOK /\ pw \in Threads /\ captured \in {"none", "candidate", "refused"}
<1>1. Claims = Claims /\ SessionStates = SessionStates
  BY DEF Claims, Claims, SessionStates, SessionStates
<1> QED
  BY <1>1 DEF PortableTypeOK, ChannelOK, Threads, Sessions

\* A step of the worker's threads keeps the invariant of the portable worker.
LEMMA PortableMoves ==
    ASSUME PortableInv, PortableWork
    PROVE  PortableInv'
<1>1. PortableLines /\ PortableFrame
  BY PortableWrites, PortableKeeps DEF PortableInv
<1>2. ThreadsInv' /\ (pw.at = "said" => pw' = pw)
  BY ThreadsMove DEF PortableInv
<1>3. pw \in Threads /\ captured \in {"none", "candidate", "refused"} /\ ChannelOK
  BY PortableTypes DEF PortableInv
<1>4. ChannelOK'
  <2>1. proc' \in {"running", "exited", "failed"}
    BY <1>1, <1>3 DEF PortableFrame, ChannelOK, SupTypeOK
  <2> QED  BY <1>1, <1>3, <2>1, WorkerTypes DEF PortableFrame, PortableLines
<1>5. PortableTypeOK'
  <2>1. pw' \in Threads
    BY <1>3, ThreadsTypes
  <2>2. captured' \in {"none", "candidate", "refused"}
    BY <1>1, <1>3 DEF PortableFrame
  <2>3. (PortableTypeOK /\ ChannelOK)' <=>
           (ChannelOK /\ pw \in Threads /\ captured \in {"none", "candidate", "refused"})'
    BY PortableTypes, PTL
  <2>4. Threads' = Threads
    BY DEF Threads, Claims
  <2> QED  BY <1>4, <2>1, <2>2, <2>3, <2>4
<1>6. ClaimInv(pw.claim, pw.at = "said")'
  <2>a. PICK c, d : c = pw.claim /\ d = pw'.claim
    OBVIOUS
  <2>b. PICK b \in BOOLEAN : b <=> pw.at = "said"
    <3>1. CASE pw.at = "said"
      BY <3>1
    <3>2. CASE pw.at # "said"
      BY <3>2
    <3> QED  BY <3>1, <3>2
  <2>e. PICK e \in BOOLEAN : e <=> pw'.at = "said"
    <3>1. CASE pw'.at = "said"
      BY <3>1
    <3>2. CASE pw'.at # "said"
      BY <3>2
    <3> QED  BY <3>1, <3>2
  <2>0. /\ c = pw.claim /\ (b <=> pw.at = "said")
        /\ d = pw'.claim /\ (e <=> pw'.at = "said")
    BY <2>a, <2>b, <2>e
  <2>1. ClaimInv(c, b)
    BY <2>0 DEF PortableInv, ClaimInv
  <2>2. b => d = c /\ e
    BY <1>2, <2>0
  <2>3. UNCHANGED session
    BY <1>1 DEF PortableFrame
  <2>4. \/ UNCHANGED up
        \/ \E m \in Messages : /\ up' = Append(up, m)
                               /\ m.claim # "none" => m.claim = d /\ e
    BY <1>1, <2>0 DEF PortableLines
  <2>5. ClaimInv(d, e)'
    BY <1>3, <2>1, <2>2, <2>3, <2>4, ClaimWritten
  <2> QED  BY <2>0, <2>5 DEF ClaimInv
<1>7. GroupInv'
  BY <1>1 DEF PortableFrame, PortableInv, GroupInv, Running
<1> QED  BY <1>2, <1>4, <1>5, <1>6, <1>7 DEF PortableInv

\* So does every step of its supervision.
LEMMA PortableSupervised ==
    ASSUME PortableInv, SupervisorNext \/ ReaderNext \/ request_cancel \/ helper_ends,
           UNCHANGED <<pw, wsession, captured>>
    PROVE  PortableInv'
<1>1. proc' = proc /\ (helper' => helper)
  BY SMT DEF SupervisorNext, ReaderNext, request_cancel, helper_ends, processVars,
         await_hello, send_start, watch, send_cancel, stop_worker, await_term, await_kill,
         cleanup, await_cleanup, join_reader, judge, read_worker_stdout, reader_eof
<1>2. pw \in Threads /\ captured \in {"none", "candidate", "refused"} /\ ChannelOK
  BY PortableTypes DEF PortableInv
<1>3. ChannelOK'
  BY <1>2, SupervisedTypes, ReaderTypes
<1>4. PortableTypeOK'
  <2>1. (PortableTypeOK /\ ChannelOK)' <=>
           (ChannelOK /\ pw \in Threads /\ captured \in {"none", "candidate", "refused"})'
    BY PortableTypes, PTL
  <2>2. Threads' = Threads
    BY DEF Threads, Claims
  <2> QED  BY <1>2, <1>3, <2>1, <2>2
<1>5. ThreadsInv'
  BY <1>1 DEF PortableInv, ThreadsInv
<1>6. ClaimInv(pw.claim, pw.at = "said")'
  <2>1. PICK c, b : c = pw.claim /\ b = (pw.at = "said")
    OBVIOUS
  <2>2. ClaimInv(c, b)
    BY <2>1 DEF PortableInv
  <2>3. ClaimInv(c, b)'
    BY <1>2, <2>2, ClaimSupervised
  <2> QED  BY <2>1, <2>3 DEF ClaimInv
<1>7. GroupInv'
  <2>1. ~(helper /\ proc = "exited")
    BY DEF PortableInv, ThreadsInv
  <2> QED  BY <1>2, <2>1, GroupSupervised DEF PortableInv
<1> QED  BY <1>3, <1>4, <1>5, <1>6, <1>7 DEF PortableInv

\* The launcher takes a candidate only from a judged, clean success
\* (_worker_references).
LEMMA PortableReturns ==
    ASSUME PortableInv, portable_result
    PROVE  PortableInv'
<1> USE DEF processVars, pipeVars, Goto
<1>1. /\ UNCHANGED <<proc, helper, sig, down, up, cancel, session, reader, pw, wsession>>
      /\ sup.at = "judged" /\ sup' = [sup EXCEPT !.at = "returned"]
  BY DEF portable_result
<1>2. /\ captured' \in {"candidate", "refused"}
      /\ captured' = "candidate" => Effective = "succeeded"
  BY DEF portable_result, Taken
<1>3. pw \in Threads /\ ChannelOK
  BY PortableTypes DEF PortableInv
<1>4. /\ sup' \in [at : SupSteps, reason : Reasons, cancelSent : BOOLEAN,
                   stopped : BOOLEAN, waited : BOOLEAN, clean : BOOLEAN,
                   synthesized : BOOLEAN]
      /\ sup'.at = "returned" /\ sup'.waited = sup.waited /\ sup'.stopped = sup.stopped
  BY <1>1, <1>3 DEF ChannelOK, SupTypeOK, SupSteps
<1>5. ChannelOK'
  BY <1>1, <1>3, <1>4 DEF ChannelOK, SupTypeOK
<1>6. PortableTypeOK'
  <2>1. (PortableTypeOK /\ ChannelOK)' <=>
           (ChannelOK /\ pw \in Threads /\ captured \in {"none", "candidate", "refused"})'
    BY PortableTypes, PTL
  <2>2. Threads' = Threads
    BY DEF Threads, Claims
  <2> QED  BY <1>1, <1>2, <1>3, <1>5, <2>1, <2>2
<1>7. ThreadsInv'
  BY <1>1 DEF PortableInv, ThreadsInv
<1>8. ClaimInv(pw.claim, pw.at = "said")'
  BY <1>1 DEF PortableInv, ClaimInv
<1>9. GroupInv'
  <2>1. Effective = "succeeded" => ~sup.synthesized /\ session.terminal = "succeeded"
    BY DEF Effective
  <2> QED  BY <1>1, <1>2, <1>4, <2>1 DEF PortableInv, GroupInv, Running
<1> QED  BY <1>5, <1>6, <1>7, <1>8, <1>9 DEF PortableInv

\* The sessions and the pipes of a portable worker agree after every step.
LEMMA PortableChannel ==
    ASSUME PortableInv, ChannelInv(PortablePhase), PortableWork
    PROVE  ChannelInv(PortablePhase)'
<1> USE DEF MainAt, Running, threadPart, supVars,
            pipeVars, Says
<1>t. pw \in Threads /\ ChannelOK
  BY PortableTypes DEF PortableInv
<1>d. /\ DOMAIN pw = {"at", "beating", "reading", "stop", "cancel", "claim"}
      /\ pw.at \in {"boot", "await_start", "work", "settle", "emit", "said"}
  BY <1>t DEF Threads
<1>f. UNCHANGED <<session, reader, sup>>
  BY <1>t, PortableKeeps DEF PortableFrame
<1>0. PICK p : p = PortablePhase
  OBVIOUS
<1>p. ChannelInv(p)
  BY <1>0
<1>q. ASSUME NEW q, q = PortablePhase', ChannelInv(q)'
      PROVE  ChannelInv(PortablePhase)'
  BY <1>q DEF ChannelInv, OpeningInv, TalkInv, SendInv
<1>1. CASE portable_hello
  <2>1. pw.at = "boot" /\ pw'.at = "await_start" /\ ChannelInv("boot")
    BY <1>1, <1>d, <1>0, <1>p DEF portable_hello, PortablePhase
  <2>2. ChannelInv("await_start")'
    BY <1>1, <1>t, <1>f, <2>1, ChannelHello DEF portable_hello
  <2> QED  BY <2>1, <2>2, <1>q DEF PortablePhase
<1>2. CASE portable_start
  <2>1. pw.at = "await_start" /\ pw'.at \in {"work", "emit"} /\ ChannelInv("await_start")
    BY <1>2, <1>d, <1>0, <1>p DEF portable_start, PortablePhase
  <2>2. ChannelInv("work")'
    BY <1>2, <1>t, <1>f, <2>1, ChannelBegins DEF portable_start
  <2> QED  BY <2>1, <2>2, <1>q DEF PortablePhase
<1>3. CASE emit_progress
  <2>1. pw.at = "work" /\ pw' = pw /\ ChannelInv("work")
    BY <1>3, <1>0, <1>p DEF emit_progress, PortablePhase
  <2>2. ChannelInv("work")'
    BY <1>3, <1>t, <1>f, <2>1, ChannelTalks DEF emit_progress
  <2> QED  BY <2>1, <2>2, <1>q DEF PortablePhase
<1>4. CASE heartbeat /\ ~pw.stop
  <2>1. pw.at \in {"work", "settle"} /\ pw' = pw
    BY <1>4 DEF heartbeat, PortableInv, ThreadsInv
  <2>2. ChannelInv("work")
    BY <2>1, <1>0, <1>p DEF PortablePhase
  <2>3. ChannelInv("work")'
    BY <1>4, <1>t, <1>f, <2>2, ChannelTalks DEF heartbeat
  <2> QED  BY <2>1, <2>3, <1>q DEF PortablePhase
<1>5. CASE read_cancellation /\ down # <<>>
  <2>1. /\ pw.at \in {"work", "settle"} /\ pw'.at = pw.at
    BY <1>5, <1>d DEF read_cancellation, PortableInv, ThreadsInv
  <2>2. ChannelInv("work")
    BY <2>1, <1>0, <1>p DEF PortablePhase
  <2>3. down = <<Cancel>> /\ Tail(down) = <<>>
    BY <1>5, <2>2, CancelIsAccepted, InputLines
  <2>4. /\ down' = <<>> /\ up' = Append(up, Message("cancel_ack"))
        /\ wsession' = Advanced(Advanced(wsession, Head(down)), Message("cancel_ack"))
    BY <1>5, <2>3 DEF read_cancellation
  <2>5. ChannelInv("work")'
    BY <1>5, <1>t, <1>f, <2>2, <2>4, ChannelAcks
  <2> QED  BY <2>1, <2>5, <1>q DEF PortablePhase
<1>6. CASE emit_terminal
  <2>1. /\ pw.at = "emit" /\ pw'.at = "said" /\ ChannelInv("work") /\ pw.claim \in Claims
    BY <1>6, <1>d, <1>t, <1>0, <1>p
       DEF emit_terminal, PortablePhase, PortableInv, ThreadsInv, Threads
  <2>2. ChannelInv("said")'
    BY <1>6, <1>t, <1>f, <2>1, ChannelEnds DEF emit_terminal
  <2> QED  BY <2>1, <2>2, <1>q DEF PortablePhase
<1>7. CASE /\ UNCHANGED <<up, down, wsession>>
           /\ \/ pw'.at = pw.at
              \/ pw.at \in {"work", "settle"} /\ pw'.at \in {"settle", "emit"}
  <2>1. p = PortablePhase'
    BY <1>7, <1>0 DEF PortablePhase
  <2>2. ChannelInv(p)'
    BY <1>7, <1>f, <1>p, ChannelFrame
  <2> QED  BY <2>1, <2>2, <1>q
<1>8. CASE \/ start_helper \/ work_ends \/ settle
           \/ portable_exit \/ portable_dies
  BY <1>8, <1>7, <1>d DEF start_helper, work_ends, settle,
     portable_exit, portable_dies
<1>9. CASE heartbeat /\ pw.stop
  BY <1>9, <1>7, <1>d DEF heartbeat
<1>10. CASE read_cancellation /\ down = <<>>
  BY <1>10, <1>7, <1>d DEF read_cancellation
<1> QED
  BY <1>1, <1>2, <1>3, <1>4, <1>5, <1>6, <1>8, <1>9, <1>10 DEF PortableWork

\* Every step of a portable worker's run keeps its invariants.
LEMMA PortableSteps ==
    ASSUME PortableInv, ChannelInv(PortablePhase), PortableNext
    PROVE  PortableInv' /\ ChannelInv(PortablePhase)'
<1>0. PICK p : p = PortablePhase
  OBVIOUS
<1>p. ChannelInv(p)
  BY <1>0
<1>q. ASSUME NEW q, q = PortablePhase', ChannelInv(q)'
      PROVE  ChannelInv(PortablePhase)'
  BY <1>q DEF ChannelInv, OpeningInv, TalkInv, SendInv
<1>1. CASE PortableWork
  BY <1>1, PortableMoves, PortableChannel
<1>2. CASE portable_result
  <2>1. PortableInv'
    BY <1>2, PortableReturns
  <2>2. /\ UNCHANGED <<up, down, session, wsession, reader, pw>>
        /\ sup' = [sup EXCEPT !.at = "returned"]
    BY <1>2 DEF portable_result, Goto, pipeVars
  <2>3. sup'.at = "returned" /\ sup'.cancelSent = sup.cancelSent
    BY <2>2 DEF PortableInv, ChannelOK, SupTypeOK
  <2>4. ChannelInv(p)'
    BY <2>2, <2>3, <1>p, ChannelFrame
  <2>5. p = PortablePhase'
    BY <1>0, <2>2 DEF PortablePhase
  <2> QED  BY <2>1, <2>4, <2>5, <1>q
<1>3. CASE /\ SupervisorNext \/ ReaderNext \/ request_cancel \/ helper_ends
           /\ UNCHANGED <<pw, wsession, captured>>
  <2>1. PortableInv'
    BY <1>3, PortableSupervised
  <2>2. ChannelInv(p)'
    BY <1>3, <1>p, ChannelSupervised, ChannelReads, ChannelRests DEF ReaderNext, PortableInv
  <2>3. p = PortablePhase'
    BY <1>0, <1>3 DEF PortablePhase
  <2> QED  BY <2>1, <2>2, <2>3, <1>q
<1> QED
  BY <1>1, <1>2, <1>3 DEF PortableNext, PortableSupervise, PortableWork

-----------------------------------------------------------------------------
(* The kinds *)

\* The first states satisfy the invariants.
LEMMA WorkersStart ==
    ASSUME WorkersInit
    PROVE  /\ RefreshInv /\ ChannelInv(RefreshPhase)
           /\ PortableInv /\ ChannelInv(PortablePhase)
           /\ result = NoResult
<1>1. /\ Init /\ pw = [at |-> "boot", beating |-> FALSE, reading |-> FALSE,
                       stop |-> FALSE, cancel |-> FALSE, claim |-> "none"]
      /\ captured = "none"
  BY DEF WorkersInit, PortableInit
<1>2. /\ proc = "running" /\ helper = FALSE /\ sig = "none" /\ down = <<>> /\ up = <<>>
      /\ cancel = FALSE /\ session = NewSession /\ wsession = NewSession
      /\ reader = [hello |-> FALSE, err |-> FALSE, eof |-> FALSE]
      /\ sup.at = "hello" /\ ~sup.waited /\ ~sup.stopped /\ ~sup.cancelSent
      /\ result = NoResult
  BY <1>1 DEF Init, SupInit
<1>3. /\ wk.at = "boot" /\ ~wk.started /\ wk.claim = "none"
      /\ backend = "none" /\ run = FALSE /\ decision = "none"
  BY <1>1 DEF Init
<1>4. SupTypeOK
  BY <1>1 DEF Init, SupInit, SupTypeOK, NewSession, SessionStates, SupSteps, Reasons
<1>5. ChannelOK
  <2>1. wsession \in Sessions
    BY <1>2 DEF NewSession, Sessions, SessionStates
  <2>2. down \in Seq({Start, Cancel}) /\ up \in Seq(Messages)
    BY <1>2, ST!EmptySeq
  <2> QED  BY <1>2, <1>4, <2>1, <2>2 DEF ChannelOK
<1>6. WorkerTypeOK
  <2>1. /\ wk \in [at : WorkerSteps, cancel : BOOLEAN, started : BOOLEAN,
                   claim : Claims \cup {"none"}]
        /\ leaf \in {"none", "running", "ended"}
    BY <1>1 DEF Init, WorkerSteps
  <2>2. result \in [status : {"none", "succeeded", "cancelled", "failed"},
                    pub : {"none", "not_started", "rolled_back",
                           "commit_unknown", "committed"},
                    proved : BOOLEAN]
    BY <1>2 DEF NoResult
  <2> QED  BY <1>3, <1>4, <1>5, <2>1, <2>2 DEF WorkerTypeOK, ChannelOK, Sessions
<1>7. ASSUME NEW phase, phase = "boot"  PROVE ChannelInv(phase)
  <2>1. NewSession.state = "awaiting_hello" /\ NewSession.terminal = "none"
    BY DEF NewSession
  <2>2. SendInv
    BY <1>2, <2>1 DEF SendInv
  <2>3. OpeningInv("boot") /\ TalkInv("boot") /\ down \in Inputs
    BY <1>2, <2>1 DEF OpeningInv, TalkInv, Inputs
  <2> QED  BY <1>7, <2>2, <2>3 DEF ChannelInv, Phases
<1>8. ASSUME NEW c, NEW b  PROVE ClaimInv(c, b)
  <2>1. DOMAIN up = {} /\ session.terminal = "none"
    BY SMT, <1>2 DEF NewSession
  <2> QED  BY <2>1 DEF ClaimInv
<1>9. RefreshPhase = "boot" /\ PortablePhase = "boot"
  BY <1>1, <1>3 DEF RefreshPhase, PortablePhase
<1>10. RefreshInv
  <2>1. TransactionInv
    BY <1>3 DEF TransactionInv, ClaimedInv, ClaimIsTrue
  <2>2. JudgeInv /\ ReturnInv
    BY <1>2 DEF JudgeInv, ReturnInv
  <2> QED  BY <1>5, <1>6, <1>8, <2>1, <2>2 DEF RefreshInv
<1>11. PortableInv
  <2>1. PortableTypeOK
    <3>1. pw \in Threads
      BY <1>1 DEF Threads
    <3> QED  BY <1>1, <1>5, <3>1, PortableTypes
  <2>2. ThreadsInv
    BY <1>1, <1>2 DEF ThreadsInv
  <2>3. GroupInv
    BY <1>1, <1>2 DEF GroupInv
  <2> QED  BY <1>5, <1>8, <2>1, <2>2, <2>3 DEF PortableInv
<1> QED  BY <1>2, <1>7, <1>9, <1>10, <1>11

\* A step that changes nothing keeps them.
LEMMA WorkersRest ==
    ASSUME UNCHANGED workersVars
    PROVE  /\ RefreshOK /\ ClaimedInv => RefreshOK' /\ ClaimedInv'
           /\ RefreshInv => RefreshInv'
           /\ ChannelInv(RefreshPhase) => ChannelInv(RefreshPhase)'
           /\ PortableInv => PortableInv'
           /\ ChannelInv(PortablePhase) => ChannelInv(PortablePhase)'
<1>1. /\ UNCHANGED <<proc, helper, sig, down, up, cancel, session, reader, sup, wk, wsession,
                     leaf, decision, backend, run, result, kind, pw, captured>>
  BY DEF workersVars, vars, supVars, portablePart
<1>2. (SupTypeOK => SupTypeOK') /\ (ChannelOK => ChannelOK') /\ (WorkerTypeOK => WorkerTypeOK')
  BY SMT, <1>1 DEF SupTypeOK, ChannelOK, WorkerTypeOK
<1>3. \A c, b : ClaimInv(c, b) => ClaimInv(c, b)'
  BY <1>1 DEF ClaimInv
<1>4. RefreshOK /\ ClaimedInv => RefreshOK' /\ ClaimedInv'
  BY <1>1, <1>2 DEF RefreshOK, ClaimedInv
<1>5. RefreshInv => RefreshInv'
  <2>1. /\ TransactionInv => TransactionInv'
        /\ ClaimInv(wk.claim, wk.at = "said") => ClaimInv(wk.claim, wk.at = "said")'
        /\ JudgeInv => JudgeInv'
        /\ ReturnInv => ReturnInv'
    BY <1>1 DEF TransactionInv, ClaimedInv, ClaimIsTrue, ClaimInv, JudgeInv, ReturnInv,
                Running
  <2> QED  BY <1>2, <2>1 DEF RefreshInv
<1>6. PortableInv => PortableInv'
  <2>1. /\ ThreadsInv => ThreadsInv'
        /\ ClaimInv(pw.claim, pw.at = "said") => ClaimInv(pw.claim, pw.at = "said")'
        /\ GroupInv => GroupInv'
    BY <1>1 DEF ThreadsInv, ClaimInv, GroupInv, Running
  <2>2. PortableTypeOK => PortableTypeOK'
    BY <1>1, <1>2 DEF PortableTypeOK
  <2> QED  BY <1>2, <2>1, <2>2 DEF PortableInv
<1>7. ASSUME NEW p, ChannelInv(p)  PROVE ChannelInv(p)'
  BY <1>1, <1>7, ChannelFrame
<1>8. ChannelInv(RefreshPhase) => ChannelInv(RefreshPhase)'
  <2>1. PICK p : p = RefreshPhase
    OBVIOUS
  <2>2. p = RefreshPhase'
    BY <1>1, <2>1 DEF RefreshPhase
  <2> QED  BY ZenonT(40), <1>7, <2>1, <2>2 DEF ChannelInv, OpeningInv, TalkInv, SendInv
<1>9. ChannelInv(PortablePhase) => ChannelInv(PortablePhase)'
  <2>1. PICK p : p = PortablePhase
    OBVIOUS
  <2>2. p = PortablePhase'
    BY <1>1, <2>1 DEF PortablePhase
  <2> QED  BY <1>7, <2>1, <2>2 DEF ChannelInv, OpeningInv, TalkInv, SendInv
<1> QED  BY <1>4, <1>5, <1>6, <1>8, <1>9

-----------------------------------------------------------------------------
(* The theorems *)

\* A refresh worker that alone writes to its standard output keeps its
\* sessions, its pipes and its claims in agreement (refresh_worker.main,
\* _run_protocol_worker).
THEOREM QuietWorkers == WorkersSpec => []QuietInv
<1>1. WorkersInit => QuietInv
  BY WorkersStart DEF QuietInv, RefreshInv, RefreshOK, TransactionInv
<1>2. QuietInv /\ [WorkersNext]_workersVars => QuietInv'
  <2> SUFFICES ASSUME QuietInv, [WorkersNext]_workersVars, kind' = "quiet"
               PROVE  RefreshOK' /\ ClaimedInv' /\ ChannelInv(RefreshPhase)'
    BY DEF QuietInv
  <2>1. CASE UNCHANGED workersVars
    <3>1. kind = "quiet"
      BY <2>1 DEF workersVars
    <3> QED  BY <2>1, <3>1, WorkersRest DEF QuietInv
  <2>2. CASE WorkersNext
    <3>1. kind = "quiet" /\ QuietNext /\ Next
      BY <2>2 DEF WorkersNext, Next
    <3>2. RefreshOK /\ ClaimedInv /\ ChannelInv(RefreshPhase)
      BY <3>1 DEF QuietInv
    <3>3. RefreshOK' /\ ClaimedInv'
      BY <3>1, <3>2, RefreshKeeps
    <3>4. ChannelInv(RefreshPhase)'
      BY <3>1, <3>2, RefreshChannel
    <3> QED  BY <3>3, <3>4
  <2> QED  BY <2>1, <2>2
<1> QED  BY <1>1, <1>2, PTL DEF WorkersSpec

\* A portable worker keeps its sessions, its threads, its process group and
\* what was captured of it in agreement (portable_worker, ManagedProcess).
THEOREM PortableWorkers == WorkersSpec => []PortableKindInv
<1>1. WorkersInit => PortableKindInv
  BY WorkersStart DEF PortableKindInv
<1>2. PortableKindInv /\ [WorkersNext]_workersVars
        => PortableKindInv'
  <2> SUFFICES ASSUME PortableKindInv,
                      [WorkersNext]_workersVars,
                      kind' = "portable"
               PROVE  PortableInv' /\ ChannelInv(PortablePhase)' /\ result' = NoResult
    BY DEF PortableKindInv, NoResult
  <2>1. CASE UNCHANGED workersVars
    BY <2>1, WorkersRest DEF PortableKindInv, workersVars, vars
  <2>2. CASE WorkersNext
    <3>1. kind = "portable" /\ PortableNext /\ result' = result
      BY <2>2 DEF WorkersNext, refreshPart
    <3>2. PortableInv /\ ChannelInv(PortablePhase) /\ result = NoResult
      BY <3>1 DEF PortableKindInv
    <3> QED  BY <3>1, <3>2, PortableSteps
  <2> QED  BY <2>1, <2>2
<1> QED  BY <1>1, <1>2, PTL DEF WorkersSpec

\* A refresh worker claims nothing false, even if a library prints into its
\* output, unless SIGTERM comes late (_publication_phase).
LEMMA TruthfulWorkers ==
    ASSUME "late_signal" \notin Faults
    PROVE  WorkersSpec => []TruthInv
<1>1. WorkersInit => TruthInv
  BY WorkersStart DEF TruthInv
<1>2. TruthInv /\ [WorkersNext]_workersVars => TruthInv'
  <2> SUFFICES ASSUME TruthInv, [WorkersNext]_workersVars, kind' \in {"quiet", "noisy"}
               PROVE  RefreshInv'
    BY DEF TruthInv
  <2>1. CASE UNCHANGED workersVars
    <3>1. kind \in {"quiet", "noisy"}
      BY <2>1 DEF workersVars
    <3> QED  BY <2>1, <3>1, WorkersRest DEF TruthInv
  <2>2. CASE WorkersNext
    <3>1. kind \in {"quiet", "noisy"} /\ Next
      BY <2>2 DEF WorkersNext, Next
    <3>2. RefreshInv
      BY <3>1 DEF TruthInv
    <3> QED  BY <3>1, <3>2, RefreshSteps
  <2> QED  BY <2>1, <2>2
<1> QED  BY <1>1, <1>2, PTL DEF WorkersSpec

KindOK == kind \in Kinds

\* The kind of a worker is what it was launched as.
LEMMA WorkersKinds == WorkersSpec => []KindOK
<1>1. WorkersInit => KindOK
  BY DEF WorkersInit, KindOK
<1>2. KindOK /\ [WorkersNext]_workersVars => KindOK'
  BY DEF WorkersNext, workersVars, KindOK
<1> QED  BY <1>1, <1>2, PTL DEF WorkersSpec

\* No session ever refuses a message of the other end, for pipes of any length
\* and whatever order threads, cancel and terminal write in (_validate_order,
\* consume_cancellation, the lock of emit).
THEOREM NoMessageIsRefused == WorkersSpec => []NoMessageRefused
<1>1. QuietInv /\ PortableKindInv => NoMessageRefused
  <2> SUFFICES ASSUME QuietInv, PortableKindInv  PROVE NoMessageRefused
    OBVIOUS
  <2>1. ASSUME kind = "quiet"  PROVE SessionsAgree
    <3>1. ChannelInv(RefreshPhase)
      BY <2>1 DEF QuietInv
    <3>2. ~reader.err
      BY <3>1 DEF ChannelInv, SendInv
    <3>3. ASSUME wk.at \in {"first", "staging", "finishing"}, down # <<>>
          PROVE  Len(down) = 1 /\ Accepts(wsession, Head(down))
      <4>1. RefreshPhase = "work"
        BY <3>3 DEF RefreshPhase
      <4> QED  BY <3>1, <3>3, <4>1, CancelIsAccepted
    <3> QED  BY <3>2, <3>3 DEF SessionsAgree
  <2>2. ASSUME kind = "portable"  PROVE PortableSessionsAgree
    <3>1. PortableInv /\ ChannelInv(PortablePhase)
      BY <2>2 DEF PortableKindInv
    <3>2. ~reader.err
      BY <3>1 DEF ChannelInv, SendInv
    <3>3. ASSUME pw.reading, down # <<>>
          PROVE  Len(down) = 1 /\ Accepts(wsession, Head(down))
      <4>1. PortablePhase = "work"
        BY <3>1, <3>3 DEF PortableInv, ThreadsInv, PortablePhase
      <4> QED  BY <3>1, <3>3, <4>1, CancelIsAccepted
    <3> QED  BY <3>2, <3>3 DEF PortableSessionsAgree
  <2> QED  BY <2>1, <2>2 DEF NoMessageRefused
<1> QED  BY <1>1, QuietWorkers, PortableWorkers, PTL

\* An acknowledged cancel decides the portable worker's terminal, and a
\* candidate is taken only from a clean end (_read_cancellation, settle,
\* process_group_cleaned, abnormal_completion).
THEOREM PortableStaysTrue == WorkersSpec => []PortableResultIsTrue
<1>1. PortableKindInv => PortableResultIsTrue
  <2> SUFFICES ASSUME PortableKindInv, kind = "portable"
               PROVE  AcknowledgedIsCancelled /\ CandidateOfCleanEnd
    BY DEF PortableResultIsTrue
  <2>1. ThreadsInv /\ ClaimInv(pw.claim, pw.at = "said") /\ GroupInv /\ ChannelOK
    BY DEF PortableKindInv, PortableInv
  <2>2. AcknowledgedIsCancelled
    BY <2>1 DEF AcknowledgedIsCancelled, ThreadsInv, ClaimInv
  <2>3. captured = "candidate" => proc = "exited" /\ ~sup.stopped
    BY <2>1 DEF GroupInv
  <2>4. captured = "candidate" => ~helper
    BY <2>1, <2>3 DEF ThreadsInv
  <2>5. captured = "candidate" => sig = "none"
    BY <2>1, <2>3 DEF GroupInv
  <2> QED  BY <2>2, <2>3, <2>4, <2>5 DEF CandidateOfCleanEnd
<1> QED  BY <1>1, PortableWorkers, PTL

\* What run_refresh_worker returns is true of the graph and stays true, unless
\* SIGTERM hits the worker between its commit and the restored signal handlers
\* (refresh_adapter, _publication_phase).
THEOREM ResultStaysTrue ==
    ASSUME "late_signal" \notin Faults
    PROVE  WorkersSpec => []ResultIsTrue
<1>1. TruthInv /\ PortableKindInv /\ KindOK => ResultIsTrue
  <2> SUFFICES ASSUME TruthInv, PortableKindInv, KindOK
               PROVE  ResultIsTrue
    OBVIOUS
  <2>1. CASE kind \in {"quiet", "noisy"}
    BY SMT, <2>1 DEF TruthInv, RefreshInv, ReturnInv, ResultIsTrue
  <2>2. CASE kind = "portable"
    BY SMT, <2>2 DEF PortableKindInv, NoResult, ResultIsTrue
  <2> QED  BY <2>1, <2>2 DEF KindOK, Kinds
<1> QED  BY <1>1, TruthfulWorkers, PortableWorkers, WorkersKinds, PTL
=============================================================================
