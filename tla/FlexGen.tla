------------------------------ MODULE FlexGen ------------------------------
(* FlexGen generates ExecGenLen tokens for every batch, in one process or in *)
(* a ring of them.  A process runs its program; its streams and copy threads run    *)
(* what it left to them; and the first unmatched send of a rank meets the    *)
(* first unmatched receive of the next.                                      *)
EXTENDS FlexGenLoops

vars == <<c, proc>>

FirstStep(r) == IF Program(r, 0) = <<>> THEN 1 ELSE 0
Start(r) ==
    [step |-> FirstStep(r), prog |-> Program(r, FirstStep(r)),
     queue |-> [q \in Streams |-> <<>>], copying |-> {},
     held |-> <<>>, ws |-> 0, fault |-> "none",
     mem |-> IF c.weights = "gpu"
             THEN [cell \in {WeightBuf(j) : j \in 0 .. NumLayers(r) - 1} |-> Loaded] ELSE <<>>,
     out |-> <<>>, sends |-> <<>>, recvs |-> <<>>]

Init == c \in Configs /\ proc = [r \in Ranks |-> Start(r)]

Set(r, s) == proc' = [proc EXCEPT ![r] = s] /\ UNCHANGED c

(* The thread runs a command, once it may, and then the next one or the next *)
(* step of its loop.                                                         *)
Host(r) ==
    LET s == proc[r]
        x == Head(s.prog)
        rest == Tail(s.prog)
    IN  /\ s.fault = "none" /\ s.prog # <<>> /\ Ready(r, s, x)
        /\ Set(r, IF rest # <<>> THEN [Exec(r, s, x) EXCEPT !.prog = rest]
                  ELSE [Exec(r, s, x) EXCEPT !.step = @ + 1, !.prog = Program(r, s.step + 1)])

(* Every sequence of the batch has met the stop token.                       *)
Stop(r) ==
    LET s == proc[r]
    IN  /\ s.fault = "none" /\ s.prog # <<>> /\ s.prog[1].op = "may_stop"
        /\ Set(r, [s EXCEPT !.step = NumSteps + 1, !.prog = <<>>])

Stream(r, q) ==
    LET s == proc[r]
    IN  /\ s.queue[q] # <<>>
        /\ Set(r, [s EXCEPT !.queue[q] = Tail(@), !.mem = Perform(r, @, Head(s.queue[q]))])

CopyThread(r) ==
    LET s == proc[r]
    IN  \E job \in s.copying :
            Set(r, [s EXCEPT !.copying = @ \ {job}, !.mem = Perform(r, @, job)])

Match(r) ==
    LET next == (r + 1) % c.stages
        from == proc[r]
        to == proc[next]
    IN  /\ c.stages > 1 /\ from.sends # <<>> /\ to.recvs # <<>>
        /\ proc' = [proc EXCEPT
              ![r].sends = Tail(@),
              ![next].recvs = Tail(@),
              ![next].mem = (Act(Head(to.recvs)) :> Get(from.mem, Act(Head(from.sends)))) @@ @]
        /\ UNCHANGED c

Step(r) == Host(r) \/ Stop(r) \/ (\E q \in Streams : Stream(r, q)) \/ CopyThread(r) \/ Match(r)
Next == \E r \in Ranks : Step(r)

(* The threads run on, the GPUs work and posted messages are exchanged.      *)
(* Every step uses up a command, a job or a message, so what can go on is    *)
(* not put off for ever as long as something goes on.                        *)
Spec == Init /\ [][Next]_vars /\ WF_vars(Next)

-----------------------------------------------------------------------------
(* Properties.                                                               *)

(* No two uses of a buffer race: jobs in flight on different streams or copy *)
(* threads touch different cells unless both only read, and the Python       *)
(* thread never reads or writes itself what a job in flight uses.            *)
RaceFree ==
    \A r \in Ranks :
        LET s == proc[r]
            lanes == {Range(s.queue[q]) : q \in Streams} \union {{job} : job \in s.copying}
        IN  /\ s.fault # "race"
            /\ \A a, b \in lanes : a # b => \A m \in a, n \in b : ~Conflict(r, m, n)

(* Every token written out is the right one of its batch, in order: it went  *)
(* through all layers with their weights, over the cache and the mask of its *)
(* own step.  A run that comes to its end has written them all, unless it is *)
(* a debug loop or all sequences had stopped.                                *)
Finished(r) == proc[r].prog = <<>>
TokensRight ==
    /\ \A r \in Ranks : \A slot \in DOMAIN proc[r].out : proc[r].out[slot] >= 0
    /\ (\A r \in Ranks : Finished(r)) /\ ~Debug /\ ~c.stop =>
          \A b \in 0 .. c.R - 1, t \in Inner, k \in Batches :
              OutLen(proc[c.stages - 1], [b |-> b, t |-> t, k |-> k]) = ExecGenLen

(* Generation comes to its end on every rank: no holder is found full or     *)
(* empty when it should not be, and no rank waits for another for ever.      *)
GenerationEnds == <>(\A r \in Ranks : Finished(r) /\ proc[r].fault = "none")

(* "so we only need one workspace instead of two": the workspace a batch is  *)
(* loaded into is not given to another before it has been attended to.       *)
WorkspacesDistinct ==
    \A r \in Ranks : \A g, h \in DOMAIN proc[r].held :
        g # h /\ proc[r].held[g] = proc[r].held[h] => proc[r].held[g][1] # "workspace"
=============================================================================
