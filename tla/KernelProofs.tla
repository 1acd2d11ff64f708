------------------------------ MODULE KernelProofs ------------------------------
(***************************************************************************)
(* One thread block of the fused kernel keeps its buffers apart, reads     *)
(* what it is meant to, and computes TileAttention: for every number of    *)
(* tiles, chunks and Q tiles, and every order in which TMA completes.      *)
(*                                                                         *)
(* Thread 0 and the consumer are always in the same tile.  How many items  *)
(* of a pipeline each has been through in it tells, by Ahead, which stages *)
(* are occupied, and from that all phase bits: nothing here counts over    *)
(* more than one tile.                                                     *)
(***************************************************************************)
EXTENDS KernelPipeline, SequenceTheorems, TLAPS

USE PipelineAssumption DEF PipelineAssumption

--------------------------------------------------------------------------------
(* The inductive invariant.                                                *)

Bit == {0, 1}
ProdAts == {"load", "wait", "x", "syncA", "store", "q", "drain", "syncB", "done"}
ConsAts == {"wait", "x", "write", "syncA", "q", "pv", "syncB", "done"}

TypeOK ==
  /\ prod \in [at : ProdAts, n : 0 .. Past + New, i : Nat]
  /\ cons \in [at : ConsAts, n : 0 .. Past + New, i : Nat]
  /\ wr \in [Pipes -> [i : Stages, ph : Bit]]
  /\ rd \in [Pipes -> [i : Stages, ph : Bit]]
  /\ full \in [Pipes -> [Stages -> Bit]]
  /\ empty \in [Pipes -> [Stages -> Bit]]
  /\ kvBar \in Bit
  /\ kvPhase \in [{"prod", "cons"} -> Bit]
  /\ \A l \in loads : /\ l.pipe \in Pipes /\ l.stage \in Stages
                      /\ l = [pipe |-> l.pipe, stage |-> l.stage, val |-> l.val]
  /\ fetches \in SUBSET [part : Parts, n : Tiles]
  /\ stores \in SUBSET [part : Parts, n : Tiles]
  /\ DOMAIN buf = Stages
  /\ tile \in [Parts -> Int] /\ view \in [Parts -> Int]
  /\ host \in [Parts -> [Tiles -> Int]]
  /\ acc \in BOOLEAN /\ score \in BOOLEAN
  /\ DOMAIN out = Qs

\* Where the two can be together: barrier A is passed by both at once, and a
\* past tile has neither projection nor write-back.
Together ==
  /\ prod.n = cons.n
  /\ prod.at = "done" <=> prod.n = Past + New
  /\ cons.at = "done" <=> prod.n = Past + New
  /\ IsPast(prod.n) => /\ prod.at \in {"load", "wait", "q", "syncB"}
                       /\ cons.at \in {"wait", "q", "pv", "syncB"}
  /\ ~IsPast(prod.n) => prod.at \notin {"load", "wait"} /\ cons.at # "wait"
  /\ prod.at \in {"x", "syncA"} <=> cons.at \in {"x", "write", "syncA"}
  /\ prod.i \in (IF prod.at = "x" THEN 0 .. Chunks - 1
                 ELSE IF prod.at = "q" THEN Qs ELSE {0})
  /\ cons.i \in (IF cons.at = "x" THEN 0 .. Chunks - 1
                 ELSE IF cons.at \in {"q", "pv"} THEN Qs ELSE {0})

\* Items of a pipeline that thread 0 has issued, and that the consumer has
\* released, for the tile they are in.
Made(pipe) ==
  IF pipe = "x"
  THEN IF prod.at = "x" THEN prod.i
       ELSE IF prod.at = "done" \/ IsPast(prod.n) THEN 0 ELSE Chunks
  ELSE IF prod.at = "q" THEN prod.i
       ELSE IF prod.at \in {"drain", "syncB"} THEN QTiles ELSE 0
Taken(pipe) ==
  IF pipe = "x"
  THEN IF cons.at = "x" THEN cons.i
       ELSE IF cons.at = "done" \/ IsPast(cons.n) THEN 0 ELSE Chunks
  ELSE IF cons.at = "q" THEN cons.i
       ELSE IF cons.at = "pv" THEN cons.i + 1
       ELSE IF cons.at = "syncB" THEN QTiles ELSE 0
Ahead(pipe) == Made(pipe) - Taken(pipe)

\* The parity that is waited for at stage s when the state comes to it next.
Phase(st, s) == IF s < st.i THEN 1 - st.ph ELSE st.ph

Occupied(pipe, s) == Ahead(pipe) = 2 \/ (Ahead(pipe) = 1 /\ s = rd[pipe].i)

\* What the consumer takes for the content of stage s when it gets there.
Item(pipe, s) ==
  LET i == Taken(pipe) + (IF s = rd[pipe].i THEN 0 ELSE 1) IN
  IF pipe = "x" THEN XChunk(cons.n - Past, i) ELSE QTile(i)

StageOK(pipe, s) ==
  /\ empty[pipe][s] = Phase(rd[pipe], s)
  /\ Phase(wr[pipe], s) = (IF Occupied(pipe, s) THEN Phase(rd[pipe], s) ELSE 1 - Phase(rd[pipe], s))
  /\ Occupied(pipe, s) <=> Filling(pipe, s) \/ Filled(pipe, s)
  /\ ~(Filling(pipe, s) /\ Filled(pipe, s))
  /\ Filled(pipe, s) => buf[s] = Item(pipe, s)

PipeOK(pipe) ==
  /\ Ahead(pipe) \in 0 .. 2
  /\ wr[pipe].i = (IF Ahead(pipe) = 1 THEN 1 - rd[pipe].i ELSE rd[pipe].i)
  /\ \A s \in Stages : StageOK(pipe, s)
  /\ \A l \in loads : l.pipe = pipe => l.val = Item(pipe, l.stage)

\* Who has still to see that the past tile has arrived.
TileArrives ==
  /\ \A f \in fetches : f.n = prod.n
  /\ fetches # {} => prod.at = "wait" /\ cons.at = "wait"
  /\ prod.at = "load" => cons.at = "wait"
  /\ kvBar # kvPhase["prod"] <=> prod.at = "wait" /\ fetches = {}
  /\ kvBar # kvPhase["cons"] <=> cons.at = "wait" /\ prod.at # "load" /\ fetches = {}

\* What is in sKbuf and sVbuf, and what has been computed from them.
Operands ==
  /\ IsPast(prod.n) /\ prod.at # "load" =>
       \A part \in Parts : \/ [part |-> part, n |-> prod.n] \in fetches
                           \/ tile[part] = prod.n /\ view[part] = prod.n
  /\ ~IsPast(prod.n) /\ cons.at \in {"syncA", "q", "pv", "syncB"} =>
       \A part \in Parts : tile[part] = prod.n
  /\ ~IsPast(prod.n) /\ prod.at \in {"q", "drain", "syncB"} =>
       \A part \in Parts : view[part] = prod.n
  /\ cons.at = "write" \/ (cons.at = "x" /\ cons.i > 0) => acc
  /\ cons.at = "pv" => score

\* Part of tile n is in host memory, or its write-back is in flight.
Saved(part, n) ==
  \/ n < prod.n
  \/ IsPast(n)
  \/ /\ n = prod.n /\ prod.at \in {"q", "drain", "syncB"}
     /\ [part |-> part, n |-> n] \notin stores
WrittenBack ==
  /\ \A st \in stores : st.n = prod.n /\ ~IsPast(prod.n)
  /\ stores # {} => prod.at \in {"q", "drain"}
  /\ \A part \in Parts, n \in Tiles : host[part][n] = IF Saved(part, n) THEN n ELSE NoTile

\* The tiles before k, in order.
Upto(k) == [j \in 1 .. k |-> j - 1]
Merged(q) ==
  cons.n + (IF cons.at = "syncB" \/ (cons.at \in {"q", "pv"} /\ q < cons.i) THEN 1 ELSE 0)
OutputsOK == \A q \in Qs : out[q] = Upto(Merged(q))

KInv ==
  /\ TypeOK
  /\ Together
  /\ \A pipe \in Pipes : PipeOK(pipe)
  /\ TileArrives
  /\ Operands
  /\ WrittenBack
  /\ OutputsOK

LEMMA KernelInit == Init => KInv
<1> SUFFICES ASSUME Init PROVE KInv
  OBVIOUS
<1>1. TypeOK
  <2>1. /\ prod \in [at : ProdAts, n : 0 .. Past + New, i : Nat]
        /\ cons \in [at : ConsAts, n : 0 .. Past + New, i : Nat]
    BY DEF Init, ProdAts, ConsAts, IsPast
  <2>2. /\ wr \in [Pipes -> [i : Stages, ph : Bit]]
        /\ rd \in [Pipes -> [i : Stages, ph : Bit]]
        /\ full \in [Pipes -> [Stages -> Bit]]
        /\ empty \in [Pipes -> [Stages -> Bit]]
        /\ kvBar \in Bit
        /\ kvPhase \in [{"prod", "cons"} -> Bit]
    BY DEF Init, Stages, Bit
  <2>3. host \in [Parts -> [Tiles -> Int]]
    BY DEF Init, Tiles, NoTile
  <2>4. /\ loads = {} /\ fetches = {} /\ stores = {}
        /\ DOMAIN buf = Stages /\ DOMAIN out = Qs
        /\ tile \in [Parts -> Int] /\ view \in [Parts -> Int]
    BY DEF Init, NoTile
  <2>5. acc \in BOOLEAN /\ score \in BOOLEAN
    BY Zenon DEF Init
  <2>6. QED
    BY <2>1, <2>2, <2>3, <2>4, <2>5 DEF TypeOK
<1>2. Together
  BY DEF Init, Together, IsPast, Qs
<1>3. ASSUME NEW pipe \in Pipes
      PROVE  PipeOK(pipe)
  <2>1. Made(pipe) = 0 /\ Taken(pipe) = 0
    BY DEF Init, Made, Taken, IsPast
  <2>2. Ahead(pipe) = 0
    BY <2>1 DEF Ahead
  <2>3. \A s \in Stages : StageOK(pipe, s)
    BY <1>3, <2>2 DEF Init, StageOK, Phase, Occupied, Filling, Filled, Stages
  <2>4. QED
    BY <1>3, <2>2, <2>3 DEF Init, PipeOK
<1>4. TileArrives
  BY DEF Init, TileArrives
<1>5. Operands
  BY DEF Init, Operands, IsPast
<1>6. WrittenBack
  BY DEF Init, WrittenBack, Saved, IsPast, Tiles
<1>7. OutputsOK
  BY DEF Init, OutputsOK, Merged, Upto
<1>8. QED
  BY <1>1, <1>2, <1>3, <1>4, <1>5, <1>6, <1>7 DEF KInv

--------------------------------------------------------------------------------
(* Types, and where the two are.                                           *)

LEMMA AdvanceType ==
  ASSUME NEW st \in [i : Stages, ph : Bit]
  PROVE  Advance(st) \in [i : Stages, ph : Bit]
BY DEF Advance, Stages, Bit

\* One stage's bit of one pipeline changes.
LEMMA FlipType ==
  ASSUME NEW bits \in [Pipes -> [Stages -> Bit]], NEW pipe \in Pipes, NEW s \in Stages
  PROVE  [bits EXCEPT ![pipe][s] = 1 - @] \in [Pipes -> [Stages -> Bit]]
<1>1. bits[pipe] \in [Stages -> Bit] /\ 1 - bits[pipe][s] \in Bit
  BY DEF Bit
<1>2. QED
  BY <1>1

LEMMA FlipAt ==
  ASSUME NEW bits \in [Pipes -> [Stages -> Bit]], NEW pipe \in Pipes, NEW s \in Stages,
         NEW p \in Pipes, NEW t \in Stages
  PROVE  [bits EXCEPT ![pipe][s] = 1 - @][p][t]
           = IF p = pipe /\ t = s THEN 1 - bits[p][t] ELSE bits[p][t]
OBVIOUS

LEMMA StepType ==
  ASSUME NEW A, NEW N, NEW p \in [at : A, n : N, i : Nat], NEW last, NEW after \in A
  PROVE  Step(p, last, after) \in [at : A, n : N, i : Nat]
<1>1. [p EXCEPT !.i = @ + 1] \in [at : A, n : N, i : Nat]
  OBVIOUS
<1>2. [p EXCEPT !.i = 0, !.at = after] \in [at : A, n : N, i : Nat]
  OBVIOUS
<1>3. QED
  BY <1>1, <1>2 DEF Step

LEMMA Fields ==
  ASSUME TypeOK
  PROVE  /\ prod.at \in ProdAts /\ prod.n \in 0 .. Past + New /\ prod.i \in Nat
         /\ cons.at \in ConsAts /\ cons.n \in 0 .. Past + New /\ cons.i \in Nat
         /\ prod = [at |-> prod.at, n |-> prod.n, i |-> prod.i]
         /\ cons = [at |-> cons.at, n |-> cons.n, i |-> cons.i]
<1>1. /\ prod \in [at : ProdAts, n : 0 .. Past + New, i : Nat]
      /\ cons \in [at : ConsAts, n : 0 .. Past + New, i : Nat]
  BY DEF TypeOK
<1>2. QED
  BY <1>1

\* Both parts of a tile.
LEMMA PartsType ==
  ASSUME NEW n \in Tiles
  PROVE  {[part |-> part, n |-> n] : part \in Parts} \in SUBSET [part : Parts, n : Tiles]
OBVIOUS

LEMMA TypesStep ==
  ASSUME KInv, Next
  PROVE  TypeOK'
<1> USE DEF ProdAts, ConsAts, IsPast, smem, sync
<1>0. TypeOK /\ Together
  BY DEF KInv
<1>1. CASE LoadTile
  <2>1. prod.n \in Tiles
    <3>1. prod.n # Past + New
      BY <1>0, <1>1 DEF LoadTile, Together
    <3>2. QED
      BY <1>0, <3>1, Fields DEF Tiles
  <2>2. prod' \in [at : ProdAts, n : 0 .. Past + New, i : Nat]
    BY <1>0, <1>1 DEF LoadTile, TypeOK
  <2>3. fetches' \in SUBSET [part : Parts, n : Tiles]
    BY <1>0, <1>1, <2>1, PartsType DEF LoadTile, TypeOK
  <2>4. QED
    BY <1>0, <1>1, <2>1, <2>2, <2>3 DEF LoadTile, TypeOK
<1>2. CASE ProducerTileReady
  BY <1>0, <1>2 DEF ProducerTileReady, TypeOK, Bit
<1>3. ASSUME NEW pipe \in Pipes, NEW val, Fill(pipe, val)
      PROVE  /\ wr' \in [Pipes -> [i : Stages, ph : Bit]]
             /\ \A l \in loads' : /\ l.pipe \in Pipes /\ l.stage \in Stages
                                  /\ l = [pipe |-> l.pipe, stage |-> l.stage, val |-> l.val]
  BY <1>0, <1>3, AdvanceType DEF Fill, TypeOK
<1>4. CASE LoadChunk
  <2>1. "x" \in Pipes
    BY DEF Pipes
  <2>2. prod' \in [at : ProdAts, n : 0 .. Past + New, i : Nat]
    <3>1. prod \in [at : ProdAts, n : 0 .. Past + New, i : Nat] /\ "syncA" \in ProdAts
      BY <1>0 DEF TypeOK
    <3>2. prod' = Step(prod, Chunks, "syncA")
      BY <1>4 DEF LoadChunk
    <3> HIDE DEF ProdAts
    <3>3. QED
      BY <3>1, <3>2, StepType
  <2>3. QED
    BY <1>0, <1>3, <1>4, <2>1, <2>2 DEF LoadChunk, Fill, TypeOK
<1>5. CASE StoreTile
  <2>1. prod.n \in Tiles
    <3>1. prod.n # Past + New
      BY <1>0, <1>5 DEF StoreTile, Together
    <3>2. QED
      BY <1>0, <3>1, Fields DEF Tiles
  <2>2. prod' \in [at : ProdAts, n : 0 .. Past + New, i : Nat]
    BY <1>0, <1>5 DEF StoreTile, TypeOK
  <2>3. stores' \in SUBSET [part : Parts, n : Tiles]
    BY <1>0, <1>5, <2>1, PartsType DEF StoreTile, TypeOK
  <2>4. QED
    BY <1>0, <1>5, <2>1, <2>2, <2>3 DEF StoreTile, TypeOK
<1>6. CASE LoadQ
  <2>1. "q" \in Pipes
    BY DEF Pipes
  <2>2. prod' \in [at : ProdAts, n : 0 .. Past + New, i : Nat]
    <3>1. /\ prod \in [at : ProdAts, n : 0 .. Past + New, i : Nat]
          /\ "syncB" \in ProdAts /\ "drain" \in ProdAts
      BY <1>0 DEF TypeOK
    <3>2. PICK after \in {"syncB", "drain"} : prod' = Step(prod, QTiles, after)
      BY <1>6 DEF LoadQ
    <3> HIDE DEF ProdAts
    <3>3. after \in ProdAts
      BY <3>1
    <3>4. QED
      BY <3>1, <3>2, <3>3, StepType
  <2>3. QED
    BY <1>0, <1>3, <1>6, <2>1, <2>2 DEF LoadQ, Fill, TypeOK
<1>7. CASE Drain
  BY <1>0, <1>7 DEF Drain, TypeOK
<1>8. CASE ConsumerTileReady
  BY <1>0, <1>8 DEF ConsumerTileReady, TypeOK, Bit
<1>9. ASSUME NEW pipe \in Pipes, Release(pipe)
      PROVE  /\ empty' \in [Pipes -> [Stages -> Bit]] /\ full' = full /\ kvBar' = kvBar
             /\ rd' \in [Pipes -> [i : Stages, ph : Bit]]
  <2>1. rd[pipe] \in [i : Stages, ph : Bit] /\ empty[pipe] \in [Stages -> Bit]
    BY <1>0 DEF TypeOK
  <2>2. rd' \in [Pipes -> [i : Stages, ph : Bit]]
    BY <1>0, <1>9, <2>1, AdvanceType DEF Release, TypeOK
  <2>3. rd[pipe].i \in Stages /\ empty \in [Pipes -> [Stages -> Bit]]
    BY <1>0, <2>1 DEF TypeOK
  <2>4. empty' = [empty EXCEPT ![pipe][rd[pipe].i] = 1 - @]
    BY <1>9 DEF Release
  <2>5. empty' \in [Pipes -> [Stages -> Bit]]
    BY <2>3, <2>4, FlipType
  <2>6. QED
    BY <1>9, <2>2, <2>5 DEF Release
<1>10. CASE Project
  <2>1. "x" \in Pipes
    BY DEF Pipes
  <2>2. /\ acc' \in BOOLEAN
        /\ cons' \in [at : ConsAts, n : 0 .. Past + New, i : Nat]
    <3>1. cons \in [at : ConsAts, n : 0 .. Past + New, i : Nat] /\ "write" \in ConsAts
      BY <1>0 DEF TypeOK
    <3>2. cons' = Step(cons, Chunks, "write")
      BY <1>10 DEF Project
    <3>3. acc' \in BOOLEAN
      BY <1>10 DEF Project
    <3> HIDE DEF ConsAts
    <3>4. QED
      BY <3>1, <3>2, <3>3, StepType
  <2>3. QED
    BY <1>0, <1>9, <1>10, <2>1, <2>2 DEF Project, TypeOK
<1>11. CASE WriteTile
  <2>1. tile' \in [Parts -> Int] /\ view' \in [Parts -> Int]
    BY <1>0, <1>11 DEF WriteTile, TypeOK, NoTile
  <2>2. QED
    BY <1>0, <1>11, <2>1 DEF WriteTile, TypeOK
<1>12. CASE Qk
  <2>1. "q" \in Pipes
    BY DEF Pipes
  <2>2. /\ score' \in BOOLEAN
        /\ cons' \in [at : ConsAts, n : 0 .. Past + New, i : Nat]
    BY <1>0, <1>12 DEF Qk, TypeOK
  <2>3. QED
    BY <1>0, <1>9, <1>12, <2>1, <2>2 DEF Qk, TypeOK
<1>13. CASE Merge
  <2>1. cons' \in [at : ConsAts, n : 0 .. Past + New, i : Nat]
    <3>1. /\ [cons EXCEPT !.at = "q"] \in [at : ConsAts, n : 0 .. Past + New, i : Nat]
          /\ "syncB" \in ConsAts
      BY <1>0 DEF TypeOK
    <3>2. cons' = Step([cons EXCEPT !.at = "q"], QTiles, "syncB")
      BY <1>13 DEF Merge
    <3> HIDE DEF ConsAts
    <3>3. QED
      BY <3>1, <3>2, StepType
  <2>2. QED
    BY <1>0, <1>13, <2>1 DEF Merge, TypeOK
<1>14. CASE SyncA
  BY <1>0, <1>14 DEF SyncA, TypeOK
<1>15. CASE SyncB
  <2>1. prod.n + 1 \in 0 .. Past + New
    <3>1. prod.n # Past + New
      BY <1>0, <1>15 DEF SyncB, Together
    <3>2. QED
      BY <1>0, <3>1, Fields
  <2>2. QED
    BY <1>0, <1>15, <2>1 DEF SyncB, TypeOK
<1>16. ASSUME NEW l \in loads, BufferLoaded(l)
       PROVE  TypeOK'
  <2>1. l.pipe \in Pipes /\ l.stage \in Stages /\ full \in [Pipes -> [Stages -> Bit]]
    BY <1>0 DEF TypeOK
  <2>2. full' = [full EXCEPT ![l.pipe][l.stage] = 1 - @]
    BY <1>16 DEF BufferLoaded
  <2>3. full' \in [Pipes -> [Stages -> Bit]]
    BY <2>1, <2>2, FlipType
  <2>4. QED
    BY <1>0, <1>16, <2>3 DEF BufferLoaded, TypeOK
<1>17. ASSUME NEW f \in fetches, TileLoaded(f)
       PROVE  TypeOK'
  BY <1>0, <1>17 DEF TileLoaded, TypeOK, Bit
<1>18. ASSUME NEW st \in stores, TileStored(st)
       PROVE  TypeOK'
  BY <1>0, <1>18 DEF TileStored, TypeOK
<1>19. CASE Finished
  BY <1>0, <1>19 DEF Finished, TypeOK, vars
<1>20. QED
  BY <1>1, <1>2, <1>4, <1>5, <1>6, <1>7, <1>8, <1>10, <1>11, <1>12, <1>13, <1>14, <1>15,
     <1>16, <1>17, <1>18, <1>19 DEF Next, Producer, Consumer, Sync, Tma

LEMMA TogetherStep ==
  ASSUME KInv, Next
  PROVE  Together'
<1> USE DEF ProdAts, ConsAts, IsPast, Qs
<1>0. TypeOK /\ Together /\ TileArrives
  BY DEF KInv
<1>1. CASE LoadTile
  BY <1>0, <1>1 DEF LoadTile, TypeOK, Together
<1>2. CASE ProducerTileReady
  BY <1>0, <1>2 DEF ProducerTileReady, TypeOK, Together
<1>3. CASE LoadChunk
  BY <1>0, <1>3 DEF LoadChunk, Step, TypeOK, Together
<1>4. CASE StoreTile
  BY <1>0, <1>4 DEF StoreTile, TypeOK, Together
<1>5. CASE LoadQ
  BY <1>0, <1>5 DEF LoadQ, Step, TypeOK, Together
<1>6. CASE Drain
  BY <1>0, <1>6 DEF Drain, TypeOK, Together
<1>7. CASE ConsumerTileReady
  BY <1>0, <1>7 DEF ConsumerTileReady, TypeOK, Together
<1>8. CASE Project
  BY <1>0, <1>8 DEF Project, Step, TypeOK, Together
<1>9. CASE WriteTile
  BY <1>0, <1>9 DEF WriteTile, TypeOK, Together
<1>10. CASE Qk
  BY <1>0, <1>10 DEF Qk, TypeOK, Together
<1>11. CASE Merge
  BY <1>0, <1>11 DEF Merge, Step, TypeOK, Together
<1>12. CASE SyncA
  BY <1>0, <1>12 DEF SyncA, TypeOK, Together
<1>13. CASE SyncB
  BY <1>0, <1>13 DEF SyncB, TypeOK, Together
<1>14. CASE Tma \/ Finished
  BY <1>0, <1>14 DEF Tma, BufferLoaded, TileLoaded, TileStored, Finished, vars, Together
<1>15. QED
  BY <1>1, <1>2, <1>3, <1>4, <1>5, <1>6, <1>7, <1>8, <1>9, <1>10, <1>11, <1>12, <1>13,
     <1>14 DEF Next, Producer, Consumer, Sync

--------------------------------------------------------------------------------
(* The pipelines: each step of the two and of TMA on one of them.          *)

LEMMA PhaseAdvance ==
  ASSUME NEW st \in [i : Stages, ph : Bit], NEW s \in Stages
  PROVE  /\ Phase(st, s) \in Bit
         /\ Advance(st).i = 1 - st.i
         /\ Phase(Advance(st), s) = IF s = st.i THEN 1 - Phase(st, s) ELSE Phase(st, s)
BY DEF Phase, Advance, Stages, Bit

\* What is known of one pipeline.
LEMMA PipeTypes ==
  ASSUME KInv, NEW pipe \in Pipes
  PROVE  /\ PipeOK(pipe)
         /\ rd[pipe] \in [i : Stages, ph : Bit] /\ wr[pipe] \in [i : Stages, ph : Bit]
         /\ rd[pipe].i \in Stages /\ wr[pipe].i \in Stages
         /\ Made(pipe) \in Nat /\ Taken(pipe) \in Nat
         /\ full \in [Pipes -> [Stages -> Bit]] /\ empty \in [Pipes -> [Stages -> Bit]]
<1>1. TypeOK /\ PipeOK(pipe)
  BY DEF KInv
<1>2. Made(pipe) \in Nat /\ Taken(pipe) \in Nat
  BY <1>1, Fields DEF Made, Taken
<1>3. rd[pipe] \in [i : Stages, ph : Bit] /\ wr[pipe] \in [i : Stages, ph : Bit]
  BY <1>1 DEF TypeOK
<1>4. rd[pipe].i \in Stages /\ wr[pipe].i \in Stages
  BY <1>3
<1>5. QED
  BY <1>1, <1>2, <1>3, <1>4 DEF TypeOK

(* Nothing of the pipeline changes, and no buffer that is full in it.      *)
LEMMA SamePipe ==
  ASSUME KInv, NEW pipe \in Pipes,
         Made(pipe)' = Made(pipe), Taken(pipe)' = Taken(pipe), cons'.n = cons.n,
         rd'[pipe] = rd[pipe], wr'[pipe] = wr[pipe],
         full'[pipe] = full[pipe], empty'[pipe] = empty[pipe],
         \A l : l.pipe = pipe => (l \in loads' <=> l \in loads),
         \A s \in Stages : Filled(pipe, s) => buf'[s] = buf[s]
  PROVE  PipeOK(pipe)'
<1>1. PipeOK(pipe)
  BY PipeTypes
<1>2. Ahead(pipe)' = Ahead(pipe)
  BY DEF Ahead
<1>3. ASSUME NEW s \in Stages
      PROVE  /\ Occupied(pipe, s)' <=> Occupied(pipe, s)
             /\ Filling(pipe, s)' <=> Filling(pipe, s)
             /\ Filled(pipe, s)' <=> Filled(pipe, s)
             /\ Item(pipe, s)' = Item(pipe, s)
  <2>1. Occupied(pipe, s)' <=> Occupied(pipe, s)
    BY <1>2 DEF Occupied
  <2>2. Filling(pipe, s)' <=> Filling(pipe, s)
    BY DEF Filling
  <2>3. Filled(pipe, s)' <=> Filled(pipe, s)
    BY DEF Filled
  <2>4. Item(pipe, s)' = Item(pipe, s)
    BY DEF Item
  <2>5. QED
    BY <2>1, <2>2, <2>3, <2>4
<1>4. \A s \in Stages : StageOK(pipe, s)'
  BY <1>1, <1>3 DEF PipeOK, StageOK
<1>5. \A l \in loads' : l.pipe = pipe => l.val = Item(pipe, l.stage)'
  <2>1. \A l \in loads' : l.pipe = pipe => l \in loads /\ l.val = Item(pipe, l.stage)
    BY <1>1 DEF PipeOK
  <2>2. \A s : Item(pipe, s)' = Item(pipe, s)
    BY DEF Item
  <2>3. QED
    BY <2>1, <2>2
<1>6. QED
  BY <1>1, <1>2, <1>4, <1>5 DEF PipeOK

(* Thread 0 finds the next stage free and puts the next item under way.    *)
LEMMA FillPipe ==
  ASSUME KInv, NEW pipe \in Pipes, NEW val, Fill(pipe, val),
         Made(pipe)' = Made(pipe) + 1, Taken(pipe)' = Taken(pipe), cons' = cons,
         UNCHANGED <<rd, full, empty, buf>>,
         val = IF pipe = "x" THEN XChunk(cons.n - Past, Made(pipe)) ELSE QTile(Made(pipe))
  PROVE  PipeOK(pipe)'
<1> DEFINE w == wr[pipe].i
<1>1. /\ PipeOK(pipe) /\ w \in Stages
      /\ \A s \in Stages : StageOK(pipe, s)
      /\ wr[pipe] \in [i : Stages, ph : Bit] /\ rd[pipe] \in [i : Stages, ph : Bit]
      /\ rd[pipe].i \in Stages /\ Made(pipe) \in Nat /\ Taken(pipe) \in Nat
  BY PipeTypes DEF PipeOK
<1>2. wr'[pipe] = Advance(wr[pipe])
  <2>1. wr \in [Pipes -> [i : Stages, ph : Bit]]
    BY DEF KInv, TypeOK
  <2>2. QED
    BY <2>1 DEF Fill
<1>3. ~ Occupied(pipe, w)
  <2>1. empty[pipe][w] # Phase(wr[pipe], w)
    BY <1>1 DEF Fill, CanFill, Phase, Stages
  <2>2. QED
    BY <1>1, <2>1 DEF StageOK
<1>4. /\ Ahead(pipe) \in {0, 1} /\ Ahead(pipe)' = Ahead(pipe) + 1
      /\ w = IF Ahead(pipe) = 1 THEN 1 - rd[pipe].i ELSE rd[pipe].i
      /\ Ahead(pipe) = Made(pipe) - Taken(pipe)
  BY <1>1, <1>3 DEF PipeOK, Occupied, Ahead
<1> HIDE DEF w
<1>5. val = Item(pipe, w)
  <2>1. Made(pipe) = Taken(pipe) + (IF w = rd[pipe].i THEN 0 ELSE 1)
    BY <1>1, <1>4 DEF Stages
  <2>2. QED
    BY <2>1 DEF Item
<1>6. loads' = loads \union {[pipe |-> pipe, stage |-> w, val |-> val]}
  BY DEF Fill, w
<1>7. ASSUME NEW s \in Stages
      PROVE  /\ Occupied(pipe, s)' <=> Occupied(pipe, s) \/ s = w
             /\ Filling(pipe, s)' <=> Filling(pipe, s) \/ s = w
             /\ Filled(pipe, s)' <=> Filled(pipe, s)
             /\ Item(pipe, s)' = Item(pipe, s)
             /\ Phase(rd[pipe], s)' = Phase(rd[pipe], s)
             /\ Phase(wr[pipe], s)' = IF s = w THEN 1 - Phase(wr[pipe], s) ELSE Phase(wr[pipe], s)
  <2>1. Occupied(pipe, s)' <=> Occupied(pipe, s) \/ s = w
    BY <1>1, <1>4 DEF Occupied, Stages
  <2>2. Filling(pipe, s)' <=> Filling(pipe, s) \/ s = w
    <3> DEFINE new == [pipe |-> pipe, stage |-> w, val |-> val]
    <3>1. new.pipe = pipe /\ new.stage = w
      OBVIOUS
    <3>2. \A l : l \in loads' <=> l \in loads \/ l = new
      BY <1>6
    <3> HIDE DEF new
    <3>3. QED
      BY <3>1, <3>2 DEF Filling
  <2>3. Filled(pipe, s)' <=> Filled(pipe, s)
    BY DEF Filled
  <2>4. Item(pipe, s)' = Item(pipe, s)
    BY DEF Item
  <2>5. Phase(wr[pipe], s)' = IF s = w THEN 1 - Phase(wr[pipe], s) ELSE Phase(wr[pipe], s)
    <3>1. Phase(wr[pipe], s)' = Phase(Advance(wr[pipe]), s)
      BY <1>2 DEF Phase
    <3>2. QED
      BY <1>1, <3>1, PhaseAdvance DEF w
  <2>6. QED
    BY <2>1, <2>2, <2>3, <2>4, <2>5 DEF Phase
<1>8. ASSUME NEW s \in Stages
      PROVE  StageOK(pipe, s)'
  <2>1. StageOK(pipe, s) /\ Phase(rd[pipe], s) \in Bit /\ Phase(wr[pipe], s) \in Bit
    BY <1>1, PhaseAdvance
  <2>2. s = w => ~ Filling(pipe, s) /\ ~ Filled(pipe, s)
    BY <1>3, <2>1 DEF StageOK
  <2>3. empty'[pipe][s] = Phase(rd[pipe], s)'
    BY <1>7, <2>1 DEF StageOK
  <2>4. Phase(wr[pipe], s)' = IF Occupied(pipe, s)' THEN Phase(rd[pipe], s)' ELSE 1 - Phase(rd[pipe], s)'
    <3>1. CASE s = w
      BY <1>3, <1>7, <2>1, <3>1 DEF StageOK, Bit
    <3>2. CASE s # w
      BY <1>7, <2>1, <3>2 DEF StageOK
    <3>3. QED
      BY <3>1, <3>2
  <2>5. QED
    BY <1>7, <2>1, <2>2, <2>3, <2>4 DEF StageOK
<1>9. wr'[pipe].i = IF Ahead(pipe)' = 1 THEN 1 - rd'[pipe].i ELSE rd'[pipe].i
  BY <1>1, <1>2, <1>4, PhaseAdvance DEF w, Stages
<1>10. \A l \in loads' : l.pipe = pipe => l.val = Item(pipe, l.stage)'
  <2>1. \A s : Item(pipe, s)' = Item(pipe, s)
    BY DEF Item
  <2>2. \A l \in loads' : l.pipe = pipe => l.val = Item(pipe, l.stage)
    BY <1>1, <1>5, <1>6 DEF PipeOK
  <2>3. QED
    BY <2>1, <2>2
<1>11. QED
  BY <1>4, <1>8, <1>9, <1>10 DEF PipeOK

(* The consumer finds the item it waits for and gives the stage back.      *)
LEMMA TakePipe ==
  ASSUME KInv, NEW pipe \in Pipes, CanTake(pipe), Release(pipe),
         Made(pipe)' = Made(pipe), Taken(pipe)' = Taken(pipe) + 1, cons'.n = cons.n,
         UNCHANGED <<wr, loads, buf>>
  PROVE  PipeOK(pipe)'
<1> DEFINE r == rd[pipe].i
<1>1. /\ PipeOK(pipe) /\ r \in Stages
      /\ \A s \in Stages : StageOK(pipe, s)
      /\ wr[pipe] \in [i : Stages, ph : Bit] /\ rd[pipe] \in [i : Stages, ph : Bit]
      /\ Made(pipe) \in Nat /\ Taken(pipe) \in Nat
      /\ empty \in [Pipes -> [Stages -> Bit]]
  BY PipeTypes DEF PipeOK
<1>2. /\ rd'[pipe] = Advance(rd[pipe]) /\ full' = full
      /\ \A s \in Stages : empty'[pipe][s] = IF s = r THEN 1 - empty[pipe][s] ELSE empty[pipe][s]
  <2>1. rd \in [Pipes -> [i : Stages, ph : Bit]]
    BY DEF KInv, TypeOK
  <2>2. empty' = [empty EXCEPT ![pipe][r] = 1 - @]
    BY DEF Release
  <2> HIDE DEF r
  <2>3. \A s \in Stages : empty'[pipe][s] = IF s = r THEN 1 - empty[pipe][s] ELSE empty[pipe][s]
    BY <1>1, <2>2, FlipAt
  <2>4. QED
    BY <2>1, <2>3 DEF Release
<1>3. Filled(pipe, r) /\ Occupied(pipe, r)
  <2>1. Filled(pipe, r)
    BY <1>1 DEF CanTake, Filled, Stages
  <2>2. QED
    BY <1>1, <2>1 DEF StageOK
<1>4. /\ Ahead(pipe) \in {1, 2} /\ Ahead(pipe)' = Ahead(pipe) - 1
      /\ Ahead(pipe) = Made(pipe) - Taken(pipe)
  BY <1>1, <1>3 DEF PipeOK, Occupied, Ahead
<1>5. rd'[pipe].i = 1 - r
  BY <1>1, <1>2, PhaseAdvance
<1>6. ASSUME NEW s \in Stages
      PROVE  /\ Occupied(pipe, s)' <=> Occupied(pipe, s) /\ s # r
             /\ Filling(pipe, s)' <=> Filling(pipe, s)
             /\ Filled(pipe, s)' <=> Filled(pipe, s) /\ s # r
             /\ s # r => Item(pipe, s)' = Item(pipe, s)
             /\ Phase(rd[pipe], s)' = IF s = r THEN 1 - Phase(rd[pipe], s) ELSE Phase(rd[pipe], s)
             /\ Phase(wr[pipe], s)' = Phase(wr[pipe], s)
  <2>1. Occupied(pipe, s)' <=> Occupied(pipe, s) /\ s # r
    BY <1>1, <1>4, <1>5 DEF Occupied, Stages
  <2>2. Phase(rd[pipe], s)' = IF s = r THEN 1 - Phase(rd[pipe], s) ELSE Phase(rd[pipe], s)
    <3>1. Phase(rd[pipe], s)' = Phase(Advance(rd[pipe]), s)
      BY <1>2 DEF Phase
    <3>2. QED
      BY <1>1, <3>1, PhaseAdvance
  <2>3. \A t \in Stages : /\ Filled(pipe, t) <=> full[pipe][t] # Phase(rd[pipe], t)
                          /\ Filled(pipe, t)' <=> full'[pipe][t] # Phase(rd[pipe], t)'
    BY DEF Filled, Phase
  <2>4. full[pipe][s] \in Bit /\ Phase(rd[pipe], s) \in Bit
    BY <1>1, PipeTypes, PhaseAdvance
  <2>5. Filled(pipe, s)' <=> Filled(pipe, s) /\ s # r
    BY <1>2, <1>3, <2>2, <2>3, <2>4 DEF Bit
  <2>6. s # r => Item(pipe, s)' = Item(pipe, s)
    <3>1. ASSUME s # r
          PROVE  /\ Taken(pipe)' + (IF s = rd'[pipe].i THEN 0 ELSE 1)
                      = Taken(pipe) + (IF s = r THEN 0 ELSE 1)
      BY <1>1, <1>5, <3>1 DEF Stages
    <3>2. QED
      BY <3>1 DEF Item
  <2>7. QED
    BY <2>1, <2>2, <2>5, <2>6 DEF Filling, Phase
<1>7. ASSUME NEW s \in Stages
      PROVE  StageOK(pipe, s)'
  <2>1. StageOK(pipe, s) /\ Phase(rd[pipe], s) \in Bit /\ Phase(wr[pipe], s) \in Bit
    BY <1>1, PhaseAdvance
  <2>2. empty'[pipe][s] = Phase(rd[pipe], s)'
    BY <1>2, <1>6, <2>1 DEF StageOK
  <2>3. Phase(wr[pipe], s)' = IF Occupied(pipe, s)' THEN Phase(rd[pipe], s)' ELSE 1 - Phase(rd[pipe], s)'
    <3>1. CASE s = r
      BY <1>3, <1>6, <2>1, <3>1 DEF StageOK, Bit
    <3>2. CASE s # r
      BY <1>6, <2>1, <3>2 DEF StageOK
    <3>3. QED
      BY <3>1, <3>2
  <2>4. s = r => ~ Filling(pipe, s)
    BY <1>3, <2>1 DEF StageOK
  <2>5. QED
    BY <1>6, <2>1, <2>2, <2>3, <2>4 DEF StageOK
<1>8. wr'[pipe].i = IF Ahead(pipe)' = 1 THEN 1 - rd'[pipe].i ELSE rd'[pipe].i
  BY <1>1, <1>4, <1>5 DEF PipeOK, Stages
<1>9. ASSUME NEW l \in loads', l.pipe = pipe
      PROVE  l.val = Item(pipe, l.stage)'
  <2>1. l \in loads /\ l.stage \in Stages
    BY DEF KInv, TypeOK
  <2>2. Filling(pipe, l.stage)
    BY <1>9, <2>1 DEF Filling
  <2>3. l.stage # r
    BY <1>1, <1>3, <2>2 DEF StageOK
  <2>4. Item(pipe, l.stage)' = Item(pipe, l.stage)
    BY <1>6, <2>1, <2>3
  <2>5. QED
    BY <1>1, <1>9, <2>1, <2>4 DEF PipeOK
<1>10. QED
  BY <1>4, <1>7, <1>8, <1>9 DEF PipeOK

(* Only one of the two pipelines has anything in the buffers.              *)
LEMMA OneInUse ==
  ASSUME TypeOK, Together
  PROVE  Ahead("x") <= 0 \/ Ahead("q") <= 0
BY Fields DEF Together, Ahead, Made, Taken, ProdAts, ConsAts, IsPast, Qs

\* A stage of a pipeline that is loaded, or being loaded, is occupied.
LEMMA InUse ==
  ASSUME KInv, NEW pipe \in Pipes, NEW s \in Stages, Filling(pipe, s) \/ Filled(pipe, s)
  PROVE  Ahead(pipe) > 0
BY PipeTypes DEF PipeOK, StageOK, Occupied

(* A load completes.                                                       *)
LEMMA LoadedPipe ==
  ASSUME KInv, NEW l \in loads, BufferLoaded(l), NEW pipe \in Pipes
  PROVE  PipeOK(pipe)'
<1> DEFINE t == l.stage
<1>1. /\ PipeOK(pipe) /\ \A s \in Stages : StageOK(pipe, s)
      /\ \A k \in loads : k.pipe = pipe => k.val = Item(pipe, k.stage)
      /\ full \in [Pipes -> [Stages -> Bit]]
      /\ rd[pipe] \in [i : Stages, ph : Bit]
  BY PipeTypes DEF PipeOK
<1>2. /\ \A k \in loads : k = [pipe |-> k.pipe, stage |-> k.stage, val |-> k.val]
      /\ l.pipe \in Pipes /\ t \in Stages /\ DOMAIN buf = Stages
  BY DEF KInv, TypeOK
<1>3. /\ Made(pipe)' = Made(pipe) /\ Taken(pipe)' = Taken(pipe) /\ cons' = cons
      /\ rd' = rd /\ wr' = wr /\ empty' = empty /\ loads' = loads \ {l}
      /\ \A s \in Stages : buf'[s] = IF s = t THEN l.val ELSE buf[s]
      /\ \A s \in Stages : full'[pipe][s] =
           IF pipe = l.pipe /\ s = t THEN 1 - full[pipe][s] ELSE full[pipe][s]
  <2>1. full' = [full EXCEPT ![l.pipe][t] = 1 - @]
    BY DEF BufferLoaded
  <2>2. \A s \in Stages : buf'[s] = IF s = t THEN l.val ELSE buf[s]
    BY <1>2 DEF BufferLoaded
  <2>3. Made(pipe)' = Made(pipe) /\ Taken(pipe)' = Taken(pipe)
    BY DEF BufferLoaded, Made, Taken
  <2> HIDE DEF t
  <2>4. \A s \in Stages : full'[pipe][s] =
           IF pipe = l.pipe /\ s = t THEN 1 - full[pipe][s] ELSE full[pipe][s]
    BY <1>1, <1>2, <2>1, FlipAt
  <2>5. QED
    BY <2>2, <2>3, <2>4 DEF BufferLoaded
<1>4. Filling(l.pipe, t)
  BY DEF Filling
<1>5. CASE pipe # l.pipe
  <2>1. ~ Filled(pipe, t)
    <3>1. TypeOK /\ Together
      BY DEF KInv
    <3>2. Ahead(l.pipe) > 0
      BY <1>2, <1>4, InUse
    <3>3. Filled(pipe, t) => Ahead(pipe) > 0
      BY <1>2, InUse
    <3>4. {pipe, l.pipe} = {"x", "q"}
      BY <1>2, <1>5 DEF Pipes
    <3>5. Made("x") \in Nat /\ Taken("x") \in Nat /\ Made("q") \in Nat /\ Taken("q") \in Nat
      BY PipeTypes DEF Pipes
    <3>6. Ahead("x") \in Int /\ Ahead("q") \in Int
      BY <3>5 DEF Ahead
    <3>7. ~ (Ahead("x") > 0 /\ Ahead("q") > 0)
      BY <3>1, <3>6, OneInUse
    <3>8. QED
      BY <1>2, <1>5, <3>2, <3>3, <3>7 DEF Pipes
  <2>2. \A s \in Stages : Filled(pipe, s) => buf'[s] = buf[s]
    BY <1>3, <2>1
  <2>3. full'[pipe] = full[pipe]
    <3>1. full' = [full EXCEPT ![l.pipe][t] = 1 - @]
      BY DEF BufferLoaded
    <3>2. QED
      BY <1>1, <1>5, <3>1
  <2>4. \A k : k.pipe = pipe => (k \in loads' <=> k \in loads)
    BY <1>3, <1>5
  <2>5. QED
    BY <1>3, <2>2, <2>3, <2>4, SamePipe
<1>6. CASE pipe = l.pipe
  <2>1. ~ Filled(pipe, t)
    BY <1>1, <1>2, <1>4, <1>6 DEF StageOK
  <2>2. ASSUME NEW s \in Stages
        PROVE  /\ Occupied(pipe, s)' <=> Occupied(pipe, s)
               /\ Filling(pipe, s)' <=> Filling(pipe, s) /\ s # t
               /\ Filled(pipe, s)' <=> Filled(pipe, s) \/ s = t
               /\ Item(pipe, s)' = Item(pipe, s)
               /\ Phase(rd[pipe], s)' = Phase(rd[pipe], s)
               /\ Phase(wr[pipe], s)' = Phase(wr[pipe], s)
    <3>1. Occupied(pipe, s)' <=> Occupied(pipe, s)
      BY <1>3 DEF Occupied, Ahead
    <3>2. Filling(pipe, s)' <=> Filling(pipe, s) /\ s # t
      <4>1. \A k \in loads : k.pipe = pipe /\ k.stage = t => k = l
        BY <1>1, <1>2, <1>6
      <4>2. QED
        BY <1>3, <1>6, <4>1 DEF Filling
    <3>3. /\ Filled(pipe, s) <=> full[pipe][s] # Phase(rd[pipe], s)
          /\ Filled(pipe, s)' <=> full'[pipe][s] # Phase(rd[pipe], s)
      BY <1>3 DEF Filled, Phase
    <3>4. full[pipe][s] \in Bit /\ Phase(rd[pipe], s) \in Bit
      BY <1>1, PhaseAdvance
    <3>5. Filled(pipe, s)' <=> Filled(pipe, s) \/ s = t
      BY <1>3, <1>6, <2>1, <3>3, <3>4 DEF Bit
    <3>6. QED
      BY <1>3, <3>1, <3>2, <3>5 DEF Item, Phase
  <2>3. ASSUME NEW s \in Stages
        PROVE  StageOK(pipe, s)'
    <3>1. StageOK(pipe, s)
      BY <1>1
    <3>2. s = t => Filling(pipe, s) /\ buf'[s] = Item(pipe, s)
      BY <1>1, <1>3, <1>4, <1>6
    <3>3. s # t => buf'[s] = buf[s]
      BY <1>3
    <3>4. QED
      BY <1>3, <2>2, <3>1, <3>2, <3>3 DEF StageOK
  <2>4. \A k \in loads' : k.pipe = pipe => k.val = Item(pipe, k.stage)'
    <3>1. \A s : Item(pipe, s)' = Item(pipe, s)
      BY <1>3 DEF Item
    <3>2. QED
      BY <1>1, <1>3, <3>1
  <2>5. Ahead(pipe)' = Ahead(pipe)
    BY <1>3 DEF Ahead
  <2>6. QED
    BY <1>1, <1>3, <2>3, <2>4, <2>5 DEF PipeOK
<1>7. QED
  BY <1>5, <1>6

(* With nothing in it, a pipeline is as good in the next tile.             *)
LEMMA EmptyPipe ==
  ASSUME KInv, NEW pipe \in Pipes, Ahead(pipe) = 0, Ahead(pipe)' = 0,
         UNCHANGED <<rd, wr, full, empty, loads, buf>>
  PROVE  PipeOK(pipe)'
<1>1. /\ PipeOK(pipe) /\ \A s \in Stages : StageOK(pipe, s)
  BY PipeTypes DEF PipeOK
<1>2. \A s \in Stages : /\ ~ Occupied(pipe, s) /\ ~ Occupied(pipe, s)'
                        /\ ~ Filling(pipe, s) /\ ~ Filled(pipe, s)
                        /\ ~ Filling(pipe, s)' /\ ~ Filled(pipe, s)'
  <2>1. \A s \in Stages : ~ Occupied(pipe, s) /\ ~ Occupied(pipe, s)'
    BY DEF Occupied
  <2>2. \A s \in Stages : ~ Filling(pipe, s) /\ ~ Filled(pipe, s)
    BY <1>1, <2>1 DEF StageOK
  <2>3. QED
    BY <2>1, <2>2 DEF Filling, Filled
<1>3. \A s \in Stages : StageOK(pipe, s)'
  BY <1>1, <1>2 DEF StageOK, Phase
<1>4. \A l \in loads : l.pipe # pipe
  BY <1>2 DEF Filling, KInv, TypeOK
<1>5. QED
  BY <1>1, <1>3, <1>4 DEF PipeOK

\* No step on the pipelines: both stay as they are.
LEMMA QuietPipes ==
  ASSUME KInv, \A pipe \in Pipes : Made(pipe)' = Made(pipe) /\ Taken(pipe)' = Taken(pipe),
         cons'.n = cons.n, UNCHANGED <<rd, wr, full, empty, loads, buf>>
  PROVE  \A pipe \in Pipes : PipeOK(pipe)'
BY SamePipe

LEMMA PipesStep ==
  ASSUME KInv, Next
  PROVE  \A pipe \in Pipes : PipeOK(pipe)'
<1> USE DEF smem, sync
<1>0. TypeOK /\ Together
  BY DEF KInv
<1>1. ASSUME LoadTile \/ ProducerTileReady \/ StoreTile \/ Drain \/ ConsumerTileReady
               \/ WriteTile \/ Merge \/ SyncA
      PROVE  /\ \A pipe \in Pipes : Made(pipe)' = Made(pipe) /\ Taken(pipe)' = Taken(pipe)
             /\ cons'.n = cons.n /\ UNCHANGED <<rd, wr, full, empty, loads, buf>>
  <2>1. CASE LoadTile
    BY <1>0, <2>1, Fields DEF LoadTile, Made, Taken, Together, IsPast
  <2>2. CASE ProducerTileReady
    BY <1>0, <2>2, Fields DEF ProducerTileReady, Made, Taken, Together, IsPast
  <2>3. CASE StoreTile
    BY <1>0, <2>3, Fields DEF StoreTile, Made, Taken, Together, IsPast
  <2>4. CASE Drain
    BY <1>0, <2>4, Fields DEF Drain, Made, Taken, Together, IsPast
  <2>5. CASE ConsumerTileReady
    BY <1>0, <2>5, Fields DEF ConsumerTileReady, Made, Taken, Together, IsPast
  <2>6. CASE WriteTile
    BY <1>0, <2>6, Fields DEF WriteTile, Made, Taken, Together, IsPast
  <2>7. CASE Merge
    BY <1>0, <2>7, Fields DEF Merge, Step, Made, Taken, Together, IsPast, Qs
  <2>8. CASE SyncA
    BY <1>0, <2>8, Fields DEF SyncA, Made, Taken, Together, IsPast
  <2>9. QED
    BY <1>1, <2>1, <2>2, <2>3, <2>4, <2>5, <2>6, <2>7, <2>8
<1>2. ASSUME NEW pipe \in Pipes, NEW other \in Pipes, pipe # other, NEW val, Fill(pipe, val),
             Made(other)' = Made(other), Taken(other)' = Taken(other),
             cons' = cons, UNCHANGED <<rd, full, empty, buf>>
      PROVE  PipeOK(other)'
  <2>1. wr'[other] = wr[other] /\ rd'[other] = rd[other]
    BY <1>0, <1>2 DEF Fill, TypeOK
  <2>2. \A l : l.pipe = other => (l \in loads' <=> l \in loads)
    BY <1>2 DEF Fill
  <2>3. QED
    BY <1>2, <2>1, <2>2, SamePipe
<1>3. CASE LoadChunk
  <2>1. /\ Made("x")' = Made("x") + 1 /\ Made("q")' = Made("q")
        /\ Taken("x")' = Taken("x") /\ Taken("q")' = Taken("q")
        /\ cons' = cons /\ UNCHANGED <<rd, full, empty, buf>>
    BY <1>0, <1>3, Fields DEF LoadChunk, Step, Made, Taken, Together, IsPast, Fill
  <2>2. prod.n = cons.n /\ prod.i = Made("x") /\ Fill("x", XChunk(prod.n - Past, prod.i))
    BY <1>0, <1>3 DEF LoadChunk, Made, Together
  <2>3. PipeOK("x")'
    BY <2>1, <2>2, FillPipe DEF Pipes
  <2>4. PipeOK("q")'
    BY <1>2, <2>1, <2>2 DEF Pipes
  <2>5. QED
    BY <2>3, <2>4 DEF Pipes
<1>4. CASE LoadQ
  <2>1. /\ Made("q")' = Made("q") + 1 /\ Made("x")' = Made("x")
        /\ Taken("x")' = Taken("x") /\ Taken("q")' = Taken("q")
        /\ cons' = cons /\ UNCHANGED <<rd, full, empty, buf>>
    BY <1>0, <1>4, Fields DEF LoadQ, Step, Made, Taken, Together, IsPast, Fill, Qs
  <2>2. prod.i = Made("q") /\ Fill("q", QTile(prod.i))
    BY <1>0, <1>4 DEF LoadQ, Made
  <2>3. PipeOK("q")'
    BY <2>1, <2>2, FillPipe DEF Pipes
  <2>4. PipeOK("x")'
    BY <1>2, <2>1, <2>2 DEF Pipes
  <2>5. QED
    BY <2>3, <2>4 DEF Pipes
<1>5. ASSUME NEW pipe \in Pipes, NEW other \in Pipes, pipe # other, Release(pipe),
             Made(other)' = Made(other), Taken(other)' = Taken(other),
             cons'.n = cons.n, UNCHANGED <<wr, loads, buf>>
      PROVE  PipeOK(other)'
  <2>1. rd'[other] = rd[other] /\ empty'[other] = empty[other] /\ full' = full
    BY <1>0, <1>5 DEF Release, TypeOK
  <2>2. QED
    BY <1>5, <2>1, SamePipe
<1>6. CASE Project
  <2>1. /\ Taken("x")' = Taken("x") + 1 /\ Taken("q")' = Taken("q")
        /\ Made("x")' = Made("x") /\ Made("q")' = Made("q")
        /\ cons'.n = cons.n /\ UNCHANGED <<wr, loads, buf>>
    BY <1>0, <1>6, Fields DEF Project, Step, Made, Taken, Together, IsPast
  <2>2. CanTake("x") /\ Release("x")
    BY <1>6 DEF Project
  <2>3. PipeOK("x")'
    BY <2>1, <2>2, TakePipe DEF Pipes
  <2>4. PipeOK("q")'
    BY <1>5, <2>1, <2>2 DEF Pipes
  <2>5. QED
    BY <2>3, <2>4 DEF Pipes
<1>7. CASE Qk
  <2>1. /\ Taken("q")' = Taken("q") + 1 /\ Taken("x")' = Taken("x")
        /\ Made("x")' = Made("x") /\ Made("q")' = Made("q")
        /\ cons'.n = cons.n /\ UNCHANGED <<wr, loads, buf>>
    BY <1>0, <1>7, Fields DEF Qk, Made, Taken, Together, IsPast, Qs
  <2>2. CanTake("q") /\ Release("q")
    BY <1>7 DEF Qk
  <2>3. PipeOK("q")'
    BY <2>1, <2>2, TakePipe DEF Pipes
  <2>4. PipeOK("x")'
    BY <1>5, <2>1, <2>2 DEF Pipes
  <2>5. QED
    BY <2>3, <2>4 DEF Pipes
<1>8. CASE SyncB
  <2>1. \A pipe \in Pipes : Ahead(pipe) = 0 /\ Ahead(pipe)' = 0
    BY <1>0, <1>8, Fields DEF SyncB, Ahead, Made, Taken, Together, IsPast, Pipes
  <2>2. QED
    BY <1>8, <2>1, EmptyPipe DEF SyncB
<1>9. ASSUME NEW l \in loads, BufferLoaded(l)
      PROVE  \A pipe \in Pipes : PipeOK(pipe)'
  BY <1>9, LoadedPipe
<1>10. ASSUME (\E f \in fetches : TileLoaded(f)) \/ (\E st \in stores : TileStored(st)) \/ Finished
       PROVE  \A pipe \in Pipes : PipeOK(pipe)'
  <2>1. UNCHANGED <<prod, cons, rd, wr, full, empty, loads, buf>>
    BY <1>10 DEF TileLoaded, TileStored, Finished, vars
  <2>2. \A pipe \in Pipes : Made(pipe)' = Made(pipe) /\ Taken(pipe)' = Taken(pipe)
    BY <2>1 DEF Made, Taken
  <2>3. QED
    BY <2>1, <2>2, QuietPipes
<1>11. ASSUME LoadTile \/ ProducerTileReady \/ StoreTile \/ Drain \/ ConsumerTileReady
                \/ WriteTile \/ Merge \/ SyncA
       PROVE  \A pipe \in Pipes : PipeOK(pipe)'
  BY <1>1, <1>11, QuietPipes
<1>12. QED
  BY <1>3, <1>4, <1>6, <1>7, <1>8, <1>9, <1>10, <1>11
     DEF Next, Producer, Consumer, Sync, Tma

--------------------------------------------------------------------------------
(* Tiles: how they arrive, what is computed from them, how they are saved. *)

LEMMA ArrivesStep ==
  ASSUME KInv, Next
  PROVE  TileArrives'
<1> USE DEF smem, sync, IsPast
<1>0. TypeOK /\ Together /\ TileArrives
  BY DEF KInv
<1>1. CASE LoadTile
  <2>1. /\ fetches' = {[part |-> part, n |-> prod.n] : part \in Parts}
        /\ prod'.at = "wait" /\ prod'.n = prod.n /\ cons' = cons /\ cons.at = "wait"
    BY <1>0, <1>1, Fields DEF LoadTile, TileArrives
  <2>2. fetches' # {} /\ \A f \in fetches' : f.n = prod.n
    <3>1. [part |-> "k", n |-> prod.n] \in fetches'
      BY <2>1 DEF Parts
    <3>2. \A f \in fetches' : \E part \in Parts : f = [part |-> part, n |-> prod.n]
      BY <2>1
    <3>3. QED
      BY <3>1, <3>2
  <2>3. UNCHANGED <<kvBar, kvPhase>>
    BY <1>1 DEF LoadTile
  <2>4. QED
    BY <1>0, <1>1, <2>1, <2>2, <2>3 DEF LoadTile, TileArrives
<1>2. CASE ProducerTileReady
  <2>1. /\ kvPhase'["prod"] = 1 - kvPhase["prod"] /\ kvPhase'["cons"] = kvPhase["cons"]
        /\ kvBar' = kvBar /\ kvBar # kvPhase["prod"]
        /\ prod'.at = "q" /\ prod'.n = prod.n /\ UNCHANGED <<cons, fetches>>
    BY <1>0, <1>2, Fields DEF ProducerTileReady, TypeOK
  <2>2. kvBar \in {0, 1} /\ kvPhase["prod"] \in {0, 1}
    BY <1>0 DEF TypeOK, Bit
  <2>3. kvBar' = kvPhase'["prod"]
    BY <2>1, <2>2
  <2>4. QED
    BY <1>0, <1>2, <2>1, <2>3 DEF ProducerTileReady, TileArrives
<1>3. CASE ConsumerTileReady
  <2>1. /\ kvPhase'["cons"] = 1 - kvPhase["cons"] /\ kvPhase'["prod"] = kvPhase["prod"]
        /\ kvBar' = kvBar /\ kvBar # kvPhase["cons"]
        /\ cons'.at = "q" /\ UNCHANGED <<prod, fetches>>
    BY <1>0, <1>3, Fields DEF ConsumerTileReady, TypeOK
  <2>2. kvBar \in {0, 1} /\ kvPhase["cons"] \in {0, 1}
    BY <1>0 DEF TypeOK, Bit
  <2>3. kvBar' = kvPhase'["cons"]
    BY <2>1, <2>2
  <2>4. QED
    BY <1>0, <1>3, <2>1, <2>3 DEF ConsumerTileReady, TileArrives
<1>4. ASSUME UNCHANGED <<kvBar, kvPhase, fetches>>, prod'.n = prod.n,
             prod.at \notin {"load", "wait"}, prod'.at \notin {"load", "wait"},
             cons.at = "wait" <=> cons'.at = "wait"
      PROVE  TileArrives'
  BY <1>0, <1>4 DEF TileArrives
<1>5. CASE LoadChunk
  BY <1>0, <1>4, <1>5, Fields DEF LoadChunk, Fill, Step
<1>6. CASE StoreTile
  BY <1>0, <1>4, <1>6, Fields DEF StoreTile
<1>7. CASE LoadQ
  BY <1>0, <1>4, <1>7, Fields DEF LoadQ, Fill, Step
<1>8. CASE Drain
  BY <1>0, <1>4, <1>8, Fields DEF Drain
<1>9. ASSUME UNCHANGED <<kvBar, kvPhase, fetches, prod>>, cons.at # "wait", cons'.at # "wait"
      PROVE  TileArrives'
  BY <1>0, <1>9 DEF TileArrives
<1>10. CASE Project
  BY <1>0, <1>9, <1>10, Fields DEF Project, Release, Step
<1>11. CASE WriteTile
  BY <1>0, <1>9, <1>11, Fields DEF WriteTile
<1>12. CASE Qk
  BY <1>0, <1>9, <1>12, Fields DEF Qk, Release
<1>13. CASE Merge
  BY <1>0, <1>9, <1>13, Fields DEF Merge, Step
<1>14. CASE SyncA
  BY <1>0, <1>4, <1>14, Fields DEF SyncA
<1>15. CASE SyncB
  <2>1. fetches = {} /\ kvBar = kvPhase["prod"] /\ kvBar = kvPhase["cons"]
    BY <1>0, <1>15 DEF SyncB, TileArrives
  <2>2. /\ UNCHANGED <<kvBar, kvPhase, fetches>>
        /\ prod'.at # "wait" /\ (prod'.at = "load" <=> cons'.at = "wait")
    BY <1>15 DEF SyncB
  <2>3. QED
    BY <1>0, <2>1, <2>2 DEF TileArrives
<1>16. ASSUME NEW f \in fetches, TileLoaded(f)
       PROVE  TileArrives'
  <2>1. /\ prod.at = "wait" /\ cons.at = "wait"
        /\ kvBar = kvPhase["prod"] /\ kvBar = kvPhase["cons"]
        /\ UNCHANGED <<prod, cons, kvPhase>> /\ fetches' = fetches \ {f}
    BY <1>0, <1>16 DEF TileLoaded, TileArrives
  <2>2. fetches' = {} <=> fetches = {f}
    BY <2>1
  <2>3. kvBar' # kvBar <=> fetches' = {}
    BY <1>0, <1>16, <2>2 DEF TileLoaded, TypeOK, Bit
  <2>4. QED
    BY <1>0, <2>1, <2>3 DEF TileArrives
<1>17. CASE (\E l \in loads : BufferLoaded(l)) \/ (\E st \in stores : TileStored(st)) \/ Finished
  BY <1>0, <1>17 DEF BufferLoaded, TileStored, Finished, vars, TileArrives
<1>18. QED
  BY <1>1, <1>2, <1>3, <1>5, <1>6, <1>7, <1>8, <1>10, <1>11, <1>12, <1>13, <1>14, <1>15,
     <1>16, <1>17 DEF Next, Producer, Consumer, Sync, Tma

\* A stage the consumer is let in to holds the item it takes it for.
LEMMA TakenIsItem ==
  ASSUME KInv, NEW pipe \in Pipes, CanTake(pipe)
  PROVE  Ahead(pipe) > 0 /\ buf[rd[pipe].i] = Item(pipe, rd[pipe].i)
<1>1. rd[pipe].i \in Stages /\ Filled(pipe, rd[pipe].i)
  BY PipeTypes DEF CanTake, Filled, Stages
<1>2. QED
  BY <1>1, PipeTypes, InUse DEF PipeOK, StageOK

\* Who attends has its K and V in sight.
LEMMA TileInSight ==
  ASSUME KInv, cons.at = "pv" \/ (cons.at = "q" /\ Ahead("q") > 0)
  PROVE  \A part \in Parts : tile[part] = cons.n /\ view[part] = cons.n
<1>1. TypeOK /\ Together /\ TileArrives /\ Operands /\ PipeOK("q")
  BY DEF KInv, Pipes
<1>2. Made("q") > 0
  <2>1. Ahead("q") >= 0 /\ (cons.at = "pv" => Taken("q") > 0)
    BY <1>1, Fields DEF PipeOK, Taken, Together, Qs
  <2>2. Made("q") \in Nat /\ Taken("q") \in Nat
    BY PipeTypes DEF Pipes
  <2>3. QED
    BY <2>1, <2>2 DEF Ahead
<1>3. prod.at \in {"q", "drain", "syncB"}
  BY <1>2 DEF Made
<1>4. fetches = {}
  BY <1>1, <1>3 DEF TileArrives
<1>5. QED
  BY <1>1, <1>3, <1>4 DEF Operands, Together

LEMMA OperandsStep ==
  ASSUME KInv, Next
  PROVE  Operands'
<1> USE DEF smem, sync, IsPast
<1>0. TypeOK /\ Together /\ TileArrives /\ Operands /\ WrittenBack
  BY DEF KInv
<1>1. CASE LoadTile
  <2>1. \A part \in Parts : [part |-> part, n |-> prod.n] \in fetches'
    BY <1>1 DEF LoadTile
  <2>2. prod'.n = prod.n /\ prod'.at = "wait" /\ UNCHANGED <<cons, acc, score>>
    BY <1>0, <1>1, Fields DEF LoadTile
  <2>3. cons.at = "wait" /\ prod.n < Past
    BY <1>0, <1>1 DEF LoadTile, TileArrives, Together
  <2>4. QED
    BY <2>1, <2>2, <2>3 DEF Operands
<1>2. ASSUME UNCHANGED <<cons, fetches, tile, view, acc, score>>, prod'.n = prod.n,
             prod.at # "load", prod.at \notin {"q", "drain", "syncB"} => ~ (prod.n >= Past /\ prod'.at \in {"q", "drain", "syncB"})
      PROVE  Operands'
  BY <1>0, <1>2, Fields DEF Operands
<1>3. CASE ProducerTileReady
  BY <1>0, <1>2, <1>3, Fields DEF ProducerTileReady, Together
<1>4. CASE LoadChunk
  BY <1>0, <1>2, <1>4, Fields DEF LoadChunk, Fill, Step
<1>5. CASE StoreTile
  <2>1. prod.n >= Past /\ cons.at \in {"q", "pv", "syncB"}
    BY <1>0, <1>5, Fields DEF StoreTile, Together, ConsAts
  <2>2. \A part \in Parts : tile[part] = prod.n /\ view'[part] = prod.n
    BY <1>0, <1>5, <2>1, Fields DEF StoreTile, Operands
  <2>3. prod'.n = prod.n /\ UNCHANGED <<cons, tile, acc, score>>
    BY <1>0, <1>5, Fields DEF StoreTile
  <2>4. QED
    BY <1>0, <2>1, <2>2, <2>3, Fields DEF Operands
<1>6. CASE LoadQ
  BY <1>0, <1>2, <1>6, Fields DEF LoadQ, Fill, Step
<1>7. CASE Drain
  BY <1>0, <1>2, <1>7, Fields DEF Drain
<1>8. CASE ConsumerTileReady
  BY <1>0, <1>8, Fields DEF ConsumerTileReady, Operands, Together
<1>9. CASE Project
  <2>1. acc'
    <3>1. cons.i = 0 \/ acc
      BY <1>0, <1>9, Fields DEF Project, Operands, Together
    <3>2. buf[rd["x"].i] = Item("x", rd["x"].i)
      BY <1>9, TakenIsItem DEF Project, Pipes
    <3>3. Item("x", rd["x"].i) = XChunk(cons.n - Past, cons.i)
      BY <1>0, <1>9, Fields DEF Project, Item, Taken
    <3>4. QED
      BY <1>9, <3>1, <3>2, <3>3 DEF Project
  <2>2. /\ cons'.at \in {"x", "write"} /\ cons.at = "x"
        /\ UNCHANGED <<prod, fetches, tile, view, score>>
    BY <1>0, <1>9, Fields DEF Project, Step
  <2>3. QED
    BY <1>0, <2>1, <2>2 DEF Operands
<1>10. CASE WriteTile
  <2>1. prod.n >= Past /\ prod.at \in {"x", "syncA"} /\ acc /\ prod.n = cons.n
    BY <1>0, <1>10, Fields DEF WriteTile, Together, Operands
  <2>2. \A part \in Parts : tile'[part] = cons.n
    BY <1>10, <2>1 DEF WriteTile
  <2>3. cons'.at = "syncA" /\ UNCHANGED prod
    BY <1>0, <1>10, Fields DEF WriteTile
  <2>4. QED
    BY <1>0, <2>1, <2>2, <2>3, Fields DEF Operands
<1>11. CASE Qk
  <2>1. /\ buf[rd["q"].i] = Item("q", rd["q"].i)
        /\ \A part \in Parts : tile[part] = cons.n /\ view[part] = cons.n
    BY <1>11, TakenIsItem, TileInSight DEF Qk, Pipes
  <2>2. Item("q", rd["q"].i) = QTile(cons.i)
    BY <1>0, <1>11, Fields DEF Qk, Item, Taken
  <2>3. score'
    BY <1>11, <2>1, <2>2 DEF Qk, Parts
  <2>4. cons.at = "q" /\ cons'.at = "pv" /\ UNCHANGED <<prod, fetches, tile, view, acc>>
    BY <1>0, <1>11, Fields DEF Qk
  <2>5. QED
    BY <1>0, <2>3, <2>4 DEF Operands
<1>12. CASE Merge
  <2>1. /\ cons'.at \in {"q", "syncB"} /\ cons.at = "pv"
        /\ UNCHANGED <<prod, fetches, tile, view, acc, score>>
    BY <1>0, <1>12, Fields DEF Merge, Step
  <2>2. QED
    BY <1>0, <2>1 DEF Operands
<1>13. CASE SyncA
  <2>1. /\ prod.at = "syncA" /\ cons.at = "syncA" /\ prod'.at = "store" /\ cons'.at = "q"
        /\ prod'.n = prod.n /\ UNCHANGED <<fetches, tile, view, acc, score>>
    BY <1>0, <1>13, Fields DEF SyncA
  <2>2. prod.n >= Past
    BY <1>0, <2>1, Fields DEF Together
  <2>3. QED
    BY <1>0, <2>1, <2>2, Fields DEF Operands
<1>14. CASE SyncB
  <2>1. /\ prod'.at \in {"done", "load", "x"} /\ cons'.at \in {"done", "wait", "x"} /\ cons'.i = 0
        /\ prod'.n = prod.n + 1
        /\ prod'.n < Past => prod'.at = "load"
    BY <1>0, <1>14, Fields DEF SyncB
  <2>2. QED
    BY <2>1, Fields DEF Operands
<1>15. CASE \E l \in loads : BufferLoaded(l)
  BY <1>0, <1>15 DEF BufferLoaded, Operands
<1>16. ASSUME NEW f \in fetches, TileLoaded(f)
       PROVE  Operands'
  <2>1. /\ f.n = prod.n /\ prod.at = "wait" /\ cons.at = "wait" /\ prod.n < Past
    BY <1>0, <1>16, Fields DEF TileArrives, Together
  <2>2. f.part \in Parts /\ f.n \in Tiles /\ f = [part |-> f.part, n |-> f.n]
    BY <1>0 DEF TypeOK
  <2>3. host[f.part][f.n] = prod.n
    BY <1>0, <2>1, <2>2 DEF WrittenBack, Saved
  <2>4. /\ UNCHANGED <<prod, cons>> /\ fetches' = fetches \ {f}
        /\ \A part \in Parts :
             /\ tile'[part] = IF part = f.part THEN prod.n ELSE tile[part]
             /\ view'[part] = IF part = f.part THEN prod.n ELSE view[part]
    BY <1>0, <1>16, <2>3 DEF TileLoaded, TypeOK
  <2>5. ASSUME NEW part \in Parts
        PROVE  \/ [part |-> part, n |-> prod.n] \in fetches'
               \/ tile'[part] = prod.n /\ view'[part] = prod.n
    <3>1. CASE part = f.part
      BY <2>4, <3>1
    <3>2. CASE part # f.part
      <4>1. [part |-> part, n |-> prod.n] # f
        BY <2>2, <3>2
      <4>2. QED
        BY <1>0, <2>1, <2>4, <3>2, <4>1 DEF Operands
    <3>3. QED
      BY <3>1, <3>2
  <2>6. QED
    BY <2>1, <2>4, <2>5 DEF Operands
<1>17. CASE (\E st \in stores : TileStored(st)) \/ Finished
  BY <1>0, <1>17 DEF TileStored, Finished, vars, Operands
<1>18. QED
  BY <1>1, <1>3, <1>4, <1>5, <1>6, <1>7, <1>8, <1>9, <1>10, <1>11, <1>12, <1>13, <1>14,
     <1>15, <1>16, <1>17 DEF Next, Producer, Consumer, Sync, Tma

LEMMA WrittenStep ==
  ASSUME KInv, Next
  PROVE  WrittenBack'
<1> USE DEF smem, sync, IsPast
<1>0. TypeOK /\ Together /\ TileArrives /\ Operands /\ WrittenBack
  BY DEF KInv
<1>1. ASSUME UNCHANGED <<stores, host>>, prod'.n = prod.n,
             prod.at \in {"q", "drain", "syncB"} <=> prod'.at \in {"q", "drain", "syncB"},
             prod.at \in {"q", "drain"} /\ prod'.at \notin {"q", "drain"} => stores = {}
      PROVE  WrittenBack'
  BY <1>0, <1>1 DEF WrittenBack, Saved
<1>2. CASE LoadTile
  BY <1>0, <1>1, <1>2, Fields DEF LoadTile
<1>3. CASE ProducerTileReady
  <2>1. prod.n < Past /\ stores = {}
    BY <1>0, <1>3, Fields DEF ProducerTileReady, Together, WrittenBack
  <2>2. prod'.n = prod.n /\ UNCHANGED <<stores, host>>
    BY <1>0, <1>3, Fields DEF ProducerTileReady
  <2>3. \A part, n : Saved(part, n)' <=> Saved(part, n)
    BY <2>1, <2>2 DEF Saved
  <2>4. QED
    BY <1>0, <2>1, <2>2, <2>3 DEF WrittenBack
<1>4. CASE LoadChunk
  BY <1>0, <1>1, <1>4, Fields DEF LoadChunk, Fill, Step
<1>5. CASE StoreTile
  <2>1. /\ prod.n >= Past /\ prod.at = "store" /\ stores = {}
        /\ prod'.n = prod.n /\ prod'.at = "q" /\ UNCHANGED host
        /\ stores' = {[part |-> part, n |-> prod.n] : part \in Parts}
    BY <1>0, <1>5, Fields DEF StoreTile, Together, WrittenBack
  <2>2. /\ \A st \in stores' : st.n = prod.n
        /\ \A part \in Parts : [part |-> part, n |-> prod.n] \in stores'
    <3>1. \A st \in stores' : \E part \in Parts : st = [part |-> part, n |-> prod.n]
      BY <2>1
    <3>2. QED
      BY <2>1, <3>1
  <2>3. \A part \in Parts, n \in Tiles : Saved(part, n)' <=> Saved(part, n)
    BY <2>1, <2>2 DEF Saved
  <2>4. \A part \in Parts, n \in Tiles : host'[part][n] = IF Saved(part, n)' THEN n ELSE NoTile
    BY <1>0, <2>1, <2>3 DEF WrittenBack
  <2>5. ~ (prod'.n < Past)
    BY <1>0, <2>1, Fields
  <2>6. QED
    BY <2>1, <2>2, <2>4, <2>5 DEF WrittenBack
<1>6. CASE LoadQ
  <2>1. /\ prod.at = "q" /\ prod'.n = prod.n /\ UNCHANGED <<stores, host>>
        /\ prod'.at \in {"q", "drain", "syncB"}
        /\ prod'.at = "syncB" => prod.n < Past
    BY <1>0, <1>6, Fields DEF LoadQ, Fill, Step
  <2>2. prod'.at = "syncB" => stores = {}
    BY <1>0, <2>1 DEF WrittenBack
  <2>3. QED
    BY <1>1, <2>1, <2>2
<1>7. CASE Drain
  BY <1>0, <1>1, <1>7, Fields DEF Drain
<1>8. CASE Consumer
  BY <1>0, <1>1, <1>8 DEF Consumer, ConsumerTileReady, Project, WriteTile, Qk, Merge, Release
<1>9. CASE SyncA
  BY <1>0, <1>1, <1>9, Fields DEF SyncA
<1>10. CASE SyncB
  <2>1. /\ prod.at = "syncB" /\ stores = {} /\ prod'.n = prod.n + 1
        /\ prod'.at \notin {"q", "drain", "syncB"} /\ UNCHANGED <<stores, host>>
    BY <1>0, <1>10, Fields DEF SyncB, WrittenBack
  <2>2. \A part \in Parts, n \in Tiles : Saved(part, n)' <=> Saved(part, n)
    BY <1>0, <2>1, Fields DEF Saved, Tiles
  <2>3. QED
    BY <1>0, <2>1, <2>2 DEF WrittenBack
<1>11. ASSUME NEW st \in stores, TileStored(st)
       PROVE  WrittenBack'
  <2>1. /\ st.part \in Parts /\ st.n \in Tiles /\ st = [part |-> st.part, n |-> st.n]
        /\ st.n = prod.n /\ prod.n >= Past /\ prod.at \in {"q", "drain"}
    BY <1>0, Fields DEF TypeOK, WrittenBack
  <2>2. view[st.part] = prod.n
    BY <1>0, <2>1, Fields DEF Operands
  <2>3. /\ UNCHANGED prod /\ stores' = stores \ {st}
        /\ \A part \in Parts, n \in Tiles :
             host'[part][n] = IF part = st.part /\ n = st.n THEN prod.n ELSE host[part][n]
    BY <1>0, <1>11, <2>1, <2>2 DEF TileStored, TypeOK
  <2>4. ASSUME NEW part \in Parts, NEW n \in Tiles
        PROVE  Saved(part, n)' <=> Saved(part, n) \/ (part = st.part /\ n = st.n)
    <3>1. [part |-> part, n |-> n] = st <=> part = st.part /\ n = st.n
      BY <2>1
    <3>2. QED
      BY <2>1, <2>3, <3>1 DEF Saved
  <2>5. QED
    BY <1>0, <2>1, <2>3, <2>4 DEF WrittenBack
<1>12. CASE (\E l \in loads : BufferLoaded(l)) \/ (\E f \in fetches : TileLoaded(f)) \/ Finished
  BY <1>0, <1>1, <1>12 DEF BufferLoaded, TileLoaded, Finished, vars
<1>13. QED
  BY <1>2, <1>3, <1>4, <1>5, <1>6, <1>7, <1>8, <1>9, <1>10, <1>11, <1>12
     DEF Next, Producer, Sync, Tma

LEMMA UptoProps ==
  ASSUME NEW k \in Nat
  PROVE  Len(Upto(k)) = k /\ Append(Upto(k), k) = Upto(k + 1)
<1>1. Upto(k) \in Seq(Nat) /\ Len(Upto(k)) = k
  BY DEF Upto
<1>2. /\ Append(Upto(k), k) \in Seq(Nat) /\ Len(Append(Upto(k), k)) = k + 1
      /\ \A i \in 1 .. k : Append(Upto(k), k)[i] = i - 1
      /\ Append(Upto(k), k)[k + 1] = k
  BY <1>1, AppendProperties DEF Upto
<1>3. Upto(k + 1) \in Seq(Nat) /\ Len(Upto(k + 1)) = k + 1
  BY DEF Upto
<1>4. \A i \in 1 .. k + 1 : Append(Upto(k), k)[i] = Upto(k + 1)[i]
  BY <1>2 DEF Upto
<1>5. QED
  BY <1>1, <1>2, <1>3, <1>4, SeqEqual

\* One merge: the tile is the next for its Q tile, and for no other.
LEMMA MergeIs ==
  ASSUME KInv, Merge
  PROVE  /\ cons.i \in Qs /\ cons.n \in Tiles /\ Merged(cons.i) = cons.n
         /\ out' = [out EXCEPT ![cons.i] = Append(@, cons.n)]
         /\ \A q \in Qs : Merged(q)' = IF q = cons.i THEN Merged(q) + 1 ELSE Merged(q)
<1>0. TypeOK /\ Together /\ Operands
  BY DEF KInv
<1>1. score /\ view["v"] = cons.n
  BY <1>0, TileInSight DEF Merge, Operands, Parts
<1>2. cons.i \in Qs /\ cons.n \in Tiles /\ cons.at = "pv"
  BY <1>0, Fields DEF Merge, Together, Tiles
<1>3. out' = [out EXCEPT ![cons.i] = Append(@, cons.n)]
  BY <1>1 DEF Merge
<1>4. /\ cons'.n = cons.n
      /\ IF cons.i + 1 < QTiles THEN cons'.at = "q" /\ cons'.i = cons.i + 1 ELSE cons'.at = "syncB"
  BY <1>0, <1>2, Fields DEF Merge, Step
<1>5. ASSUME NEW q \in Qs
      PROVE  Merged(q)' = IF q = cons.i THEN Merged(q) + 1 ELSE Merged(q)
  BY <1>0, <1>2, <1>4, Fields DEF Merged, Qs
<1>6. Merged(cons.i) = cons.n
  BY <1>0, <1>2, Fields DEF Merged, Qs
<1>7. QED
  BY <1>2, <1>3, <1>5, <1>6

LEMMA OutputsStep ==
  ASSUME KInv, Next
  PROVE  OutputsOK'
<1> USE DEF smem, sync, IsPast
<1>0. TypeOK /\ Together /\ OutputsOK
  BY DEF KInv
<1>1. ASSUME UNCHANGED out, \A q \in Qs : Merged(q)' = Merged(q)
      PROVE  OutputsOK'
  BY <1>0, <1>1 DEF OutputsOK
<1>2. CASE Producer \/ Tma \/ Finished
  BY <1>0, <1>1, <1>2 DEF Producer, Tma, Finished, vars, Merged, LoadTile, ProducerTileReady,
       LoadChunk, StoreTile, LoadQ, Drain, Fill, BufferLoaded, TileLoaded, TileStored
<1>3. CASE ConsumerTileReady
  BY <1>0, <1>1, <1>3, Fields DEF ConsumerTileReady, Merged, Together, Qs
<1>4. CASE Project
  BY <1>0, <1>1, <1>4, Fields DEF Project, Step, Merged, Together
<1>5. CASE WriteTile
  BY <1>0, <1>1, <1>5, Fields DEF WriteTile, Merged, Together
<1>6. CASE Qk
  BY <1>0, <1>1, <1>6, Fields DEF Qk, Merged, Together
<1>7. CASE Merge
  <2>1. ASSUME NEW q \in Qs
        PROVE  out'[q] = Upto(Merged(q)')
    <3>1. CASE q = cons.i
      <4>1. out'[q] = Append(out[q], cons.n) /\ Merged(q)' = cons.n + 1 /\ out[q] = Upto(cons.n)
        BY <1>0, <1>7, <3>1, MergeIs DEF OutputsOK, TypeOK
      <4>2. cons.n \in Nat
        BY <1>0, Fields
      <4>3. QED
        BY <4>1, <4>2, UptoProps
    <3>2. CASE q # cons.i
      BY <1>0, <1>7, <3>2, MergeIs DEF OutputsOK, TypeOK
    <3>3. QED
      BY <3>1, <3>2
  <2>2. QED
    BY <2>1 DEF OutputsOK
<1>8. CASE SyncA
  BY <1>0, <1>1, <1>8, Fields DEF SyncA, Merged, Together, Qs
<1>9. CASE SyncB
  BY <1>0, <1>1, <1>9, Fields DEF SyncB, Merged, Together
<1>10. QED
  BY <1>2, <1>3, <1>4, <1>5, <1>6, <1>7, <1>8, <1>9 DEF Next, Consumer, Sync

LEMMA KernelStep == KInv /\ [Next]_vars => KInv'
<1> SUFFICES ASSUME KInv, [Next]_vars PROVE KInv'
  OBVIOUS
<1>1. CASE Next
  BY <1>1, TypesStep, TogetherStep, PipesStep, ArrivesStep, OperandsStep, WrittenStep, OutputsStep
     DEF KInv
<1>2. CASE UNCHANGED vars
  <2>1. UNCHANGED <<prod, cons, wr, rd, full, empty, kvBar, kvPhase, loads, fetches, stores,
                    buf, tile, view, host, acc, score, out>>
    BY <1>2 DEF vars, sync, smem
  <2>2. \A pipe \in Pipes : PipeOK(pipe)'
    <3>1. \A pipe \in Pipes : Made(pipe)' = Made(pipe) /\ Taken(pipe)' = Taken(pipe)
      BY <2>1 DEF Made, Taken
    <3>2. QED
      BY <2>1, <3>1, QuietPipes
  <2>3. TypeOK' /\ Together' /\ TileArrives'
    BY <2>1 DEF KInv, TypeOK, Together, TileArrives
  <2>4. Operands' /\ WrittenBack' /\ OutputsOK'
    BY <2>1 DEF KInv, Operands, WrittenBack, Saved, OutputsOK, Merged
  <2>5. QED
    BY <2>2, <2>3, <2>4 DEF KInv
<1>3. QED
  BY <1>1, <1>2

(* Where the two warpgroups are, the phase bits of all barriers, what is in  *)
(* flight and what is in every buffer fit together in every state.           *)
THEOREM KernelInvariant == Spec => []KInv
<1>1. QED
  BY KernelInit, KernelStep, PTL DEF Spec

--------------------------------------------------------------------------------
(* What the runs check on a small instance.                                *)

(* The two pipelines over the same two buffers take turns: no load into a    *)
(* buffer while the other, or the same, still has an item to be read there.  *)
THEOREM BuffersAlternate == Spec => []SharedBuffersAlternate
<1>1. ASSUME KInv
      PROVE  SharedBuffersAlternate
  <2>1. ASSUME NEW s \in Stages, NEW pipe \in Pipes
        PROVE  ~ (Filling(pipe, s) /\ Filled(pipe, s))
    BY <1>1, PipeTypes DEF PipeOK, StageOK
  <2>2. ASSUME NEW s \in Stages, Filling("x", s) \/ Filled("x", s), Filling("q", s) \/ Filled("q", s)
        PROVE  FALSE
    <3>1. "x" \in Pipes /\ "q" \in Pipes
      BY DEF Pipes
    <3>2. Ahead("x") > 0 /\ Ahead("q") > 0
      BY <1>1, <2>2, <3>1, InUse
    <3>3. Ahead("x") \in Int /\ Ahead("q") \in Int
      BY <1>1, <3>1, PipeTypes DEF Ahead
    <3>4. Ahead("x") <= 0 \/ Ahead("q") <= 0
      BY <1>1, OneInUse DEF KInv
    <3>5. QED
      BY <3>2, <3>3, <3>4
  <2>3. QED
    BY <2>1, <2>2 DEF SharedBuffersAlternate
<1>2. QED
  BY <1>1, KernelInvariant, PTL

(* When the consumer attends, its scores are of the right Q and K, and what  *)
(* WGMMA sees in the K/V buffers is what the warps stored there.             *)
THEOREM OperandsInSight == Spec => []OperandsFenced
<1>1. KInv => OperandsFenced
  <2> SUFFICES ASSUME KInv, cons.at = "pv"
               PROVE  score /\ \A part \in Parts : view[part] = tile[part]
    BY DEF OperandsFenced
  <2>1. score
    BY DEF KInv, Operands
  <2>2. QED
    BY <2>1, TileInSight
<1>2. QED
  BY <1>1, KernelInvariant, PTL

(* While any part of a write-back is in flight, no step changes the buffers  *)
(* it reads.                                                                 *)
THEOREM WriteBackStable == Spec => WriteBackReadsStableTile
<1>1. KInv /\ [Next]_vars => [stores # {} => view' = view /\ tile' = tile]_vars
  <2> SUFFICES ASSUME KInv, Next, stores # {}
               PROVE  view' = view /\ tile' = tile
    OBVIOUS
  <2>1. /\ prod.at \in {"q", "drain"} /\ fetches = {}
        /\ cons.at # "write"
    BY Fields DEF KInv, WrittenBack, TileArrives, Together
  <2>2. ~ StoreTile /\ ~ WriteTile /\ ~ \E f \in fetches : TileLoaded(f)
    BY <2>1 DEF StoreTile, WriteTile
  <2>3. QED
    BY <2>2 DEF Next, Producer, Consumer, Sync, Tma, LoadTile, ProducerTileReady, LoadChunk,
         LoadQ, Drain, ConsumerTileReady, Project, Qk, Merge, SyncA, SyncB, BufferLoaded,
         TileStored, Finished, vars, smem
<1>2. QED
  BY <1>1, KernelInvariant, PTL DEF Spec, WriteBackReadsStableTile

(* The pipelined thread block implements the tile-by-tile algorithm: every   *)
(* step merges the next tile into the next Q tile, saves a part of the new   *)
(* tile, or is a stutter.                                                    *)
THEOREM PipelineImplementsAttention == Spec => PipelineAttends
<1>1. Init => Attention!AttentionInit
  BY DEF Init, IsPast, Attention!AttentionInit, Attention!Tiles, Attention!Qs, Attention!Parts,
       Attention!NoTile, Tiles, Qs, Parts, NoTile
<1>2. ASSUME KInv, Merge
      PROVE  Attention!MergeNext(cons.i) /\ cons.i \in Qs
  <2>1. TypeOK /\ Together /\ OutputsOK
    BY <1>2 DEF KInv
  <2>2. \A q \in Qs : out[q] = Upto(Merged(q)) /\ Merged(q) \in Nat
    BY <2>1, Fields DEF OutputsOK, Merged
  <2>3. \A q \in Qs : Len(out[q]) = Merged(q)
    BY <2>2, UptoProps
  <2>4. /\ cons.i \in Qs /\ cons.n \in Tiles /\ Merged(cons.i) = cons.n
        /\ out' = [out EXCEPT ![cons.i] = Append(@, cons.n)]
    BY <1>2, MergeIs
  <2>5. \A q \in Qs : Merged(q) = IF q < cons.i THEN cons.n + 1 ELSE cons.n
    BY <1>2, <2>1, Fields DEF Merge, Merged, Qs
  <2>6. Len(out[cons.i]) = cons.n
    BY <2>3, <2>4
  <2>7. UNCHANGED host
    BY <1>2 DEF Merge
  <2>8. QED
    BY <2>3, <2>4, <2>5, <2>6, <2>7
       DEF Attention!MergeNext, Attention!Tiles, Attention!Qs, Tiles, Qs
<1>3. ASSUME KInv, NEW st \in stores, TileStored(st)
      PROVE  Attention!Save(st.part, st.n) /\ st.part \in Parts /\ st.n \in Tiles
  <2>1. TypeOK /\ Together /\ Operands /\ WrittenBack /\ OutputsOK
    BY <1>3 DEF KInv
  <2>2. /\ st.part \in Parts /\ st.n \in Tiles /\ st = [part |-> st.part, n |-> st.n]
        /\ st.n = prod.n /\ prod.n >= Past /\ prod.at \in {"q", "drain"}
    BY <2>1, Fields DEF TypeOK, WrittenBack, IsPast
  <2>3. host[st.part][st.n] = NoTile
    <3>1. [part |-> st.part, n |-> st.n] \in stores
      BY <2>2
    <3>2. ~ Saved(st.part, st.n)
      BY <2>1, <2>2, <3>1, Fields DEF Saved, IsPast
    <3>3. QED
      BY <2>1, <2>2, <3>2 DEF WrittenBack
  <2>4. view[st.part] = st.n
    BY <2>1, <2>2, Fields DEF Operands, IsPast
  <2>5. \A q \in Qs : Len(out[q]) \in {st.n, st.n + 1}
    <3>1. \A q \in Qs : Merged(q) \in {st.n, st.n + 1} /\ Merged(q) \in Nat
      BY <2>1, <2>2, Fields DEF Merged, Together
    <3>2. QED
      BY <2>1, <3>1, UptoProps DEF OutputsOK
  <2>6. host' = [host EXCEPT ![st.part][st.n] = st.n] /\ UNCHANGED out
    BY <1>3, <2>4 DEF TileStored
  <2>7. QED
    BY <2>2, <2>3, <2>5, <2>6 DEF Attention!Save, Attention!NoTile, Attention!Qs, NoTile, Qs
<1>4. KInv /\ [Next]_vars => [Attention!AttentionNext]_<<out, host>>
  <2> SUFFICES ASSUME KInv, [Next]_vars
               PROVE  [Attention!AttentionNext]_<<out, host>>
    OBVIOUS
  <2>1. CASE Merge
    BY <1>2, <2>1 DEF Attention!AttentionNext, Attention!Qs, Qs
  <2>2. CASE \E st \in stores : TileStored(st)
    BY <1>3, <2>2 DEF Attention!AttentionNext, Attention!Parts, Attention!Tiles, Parts, Tiles
  <2>3. CASE \/ Producer \/ ConsumerTileReady \/ Project \/ WriteTile \/ Qk \/ Sync
             \/ (\E l \in loads : BufferLoaded(l)) \/ (\E f \in fetches : TileLoaded(f))
             \/ Finished \/ UNCHANGED vars
    BY <2>3 DEF Producer, LoadTile, ProducerTileReady, LoadChunk, StoreTile, LoadQ, Drain, Fill,
         ConsumerTileReady, Project, WriteTile, Qk, Sync, SyncA, SyncB, BufferLoaded, TileLoaded,
         Finished, vars
  <2>4. QED
    BY <2>1, <2>2, <2>3 DEF Next, Consumer, Tma
<1>5. QED
  BY <1>1, <1>4, KernelInvariant, PTL DEF Spec, PipelineAttends, Attention!AttentionSpec

================================================================================
