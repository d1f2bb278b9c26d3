---------------------------- MODULE EnetTx_proofs ----------------------------
(***************************************************************************)
(* For every number of sockets, cores and ports, every size of the queues  *)
(* and of the trains and any number of frames: the variables keep their    *)
(* types, no frame disappears, the frames of a source leave in the order   *)
(* they were sent, and, where a frame is for the ports of one slot, a port *)
(* sends one frame a cycle and nothing with an address is lost.            *)
(***************************************************************************)
EXTENDS EnetTx, FiniteSetTheorems, SequenceTheorems, WellFoundedInduction, TLAPS

LEMMA HasLeast ==
    ASSUME NEW S \in SUBSET Nat, S # {}
    PROVE  \E m \in S : \A k \in S : m <= k
<1> DEFINE R == OpToRel(<, Nat)
<1>1. IsWellFoundedOn(R, Nat)
  BY NatLessThanWellFounded
<1> HIDE DEF R
<1>2. PICK m \in S : \A k \in S : ~ (<<k, m>> \in R)
  BY <1>1, WFMin
<1>3. \A k \in S : ~ (k < m)
  BY <1>2 DEF R, OpToRel
<1> QED BY <1>3

LEMMA NextSocketWaits ==
    ASSUME Waiting # {}
    PROVE  NextSocket \in Sockets /\ socket[NextSocket] # <<>>
<1>1. Waiting \subseteq Sockets /\ Waiting \subseteq Nat
  BY DEF Waiting, Sockets
<1>2. CASE Waiting \ {0} = {}
  <2>1. 0 \in Waiting /\ NextSocket = 0
    BY <1>1, <1>2 DEF NextSocket
  <2> QED BY <2>1 DEF Waiting
<1>3. CASE Waiting \ {0} # {}
  <2>1. PICK m \in Waiting \ {0} : \A k \in Waiting \ {0} : m <= k
    BY <1>1, <1>3, HasLeast
  <2>2. Min(Waiting \ {0}) \in Waiting \ {0}
    BY <2>1 DEF Min
  <2> QED BY <1>1, <1>3, <2>2 DEF NextSocket, Waiting
<1> QED BY <1>2, <1>3

LEMMA HeadAndTail ==
    ASSUME NEW S, NEW q \in Seq(S), q # <<>>
    PROVE  /\ Head(q) \in S /\ Tail(q) \in Seq(S)
           /\ Len(q) \in Nat /\ Len(q) > 0 /\ Len(Tail(q)) = Len(q) - 1
  OBVIOUS

LEMMA Appended ==
    ASSUME NEW S, NEW q \in Seq(S), NEW f \in S
    PROVE  Append(q, f) \in Seq(S) /\ Len(q) \in Nat /\ Len(Append(q, f)) = Len(q) + 1
  OBVIOUS

-----------------------------------------------------------------------------
(* The cars of a train.                                                    *)

LEMMA FirstCarsIs ==
    ASSUME NEW S, NEW cars \in Seq(S), NEW n \in Nat
    PROVE  /\ FirstCars(cars, n) \in Seq(S)
           /\ n <= Len(cars) => /\ Len(FirstCars(cars, n)) = n
                                /\ \A i \in 1 .. n : FirstCars(cars, n)[i] = cars[i]
<1> DEFINE m == Min({n, Len(cars)})
<1>1. m \in Nat /\ m <= Len(cars) /\ (n <= Len(cars) => m = n)
  BY DEF Min
<1> HIDE DEF m
<1>2. FirstCars(cars, n) = SubSeq(cars, 1, m)
  BY DEF FirstCars, m
<1>3. SubSeq(cars, 1, m) \in Seq(S) /\ Len(SubSeq(cars, 1, m)) = m
      /\ \A i \in 1 .. m : SubSeq(cars, 1, m)[i] = cars[i]
  BY <1>1
<1> QED BY <1>1, <1>2, <1>3

LEMMA WriteCarIs ==
    ASSUME NEW S, NEW cars \in Seq(S), NEW n \in Nat, n > 0, n - 1 <= Len(cars), NEW f \in S
    PROVE  /\ WriteCar(cars, n, f) \in Seq(S)
           /\ n <= Len(WriteCar(cars, n, f))
           /\ Len(WriteCar(cars, n, f)) = IF n - 1 = Len(cars) THEN n ELSE Len(cars)
           /\ FirstCars(WriteCar(cars, n, f), n) = Append(FirstCars(cars, n - 1), f)
<1> DEFINE new == WriteCar(cars, n, f)
           i == n - 1
<1>1. /\ new \in Seq(S) /\ new[n] = f /\ \A j \in 1 .. i : new[j] = cars[j]
      /\ Len(new) = IF i = Len(cars) THEN n ELSE Len(cars)
  <2>1. CASE n <= Len(cars)
    BY <2>1, ExceptSeq DEF WriteCar
  <2>2. CASE n = Len(cars) + 1
    BY <2>2 DEF WriteCar
  <2> QED BY <2>1, <2>2
<1> HIDE DEF new
<1>2. n <= Len(new) /\ i \in Nat /\ i <= Len(cars) /\ n = i + 1
  BY <1>1
<1> HIDE DEF i
<1>3. /\ FirstCars(new, n) \in Seq(S) /\ Len(FirstCars(new, n)) = n
      /\ \A j \in 1 .. n : FirstCars(new, n)[j] = new[j]
  BY <1>1, <1>2, FirstCarsIs
<1>4. /\ FirstCars(cars, i) \in Seq(S) /\ Len(FirstCars(cars, i)) = i
      /\ \A j \in 1 .. i : FirstCars(cars, i)[j] = cars[j]
  BY <1>2, FirstCarsIs
<1>5. /\ Append(FirstCars(cars, i), f) \in Seq(S) /\ Len(Append(FirstCars(cars, i), f)) = n
      /\ \A j \in 1 .. i : Append(FirstCars(cars, i), f)[j] = cars[j]
      /\ Append(FirstCars(cars, i), f)[n] = f
  BY <1>2, <1>4
<1>6. \A j \in 1 .. n : FirstCars(new, n)[j] = Append(FirstCars(cars, i), f)[j]
  BY <1>1, <1>2, <1>3, <1>5
<1>7. FirstCars(new, n) = Append(FirstCars(cars, i), f)
  BY <1>3, <1>5, <1>6, SeqEqual
<1> QED BY <1>1, <1>2, <1>7 DEF new, i

\* The cars that the next header publishes, and those the last one did, until
\* the FPGA has fetched them.
Published(t) == FirstCars(train[t].car[1 - FilledSet(t)], train[t].car_num)
Awaited(t) == IF train[t].fetched THEN <<>> ELSE Published(t)

CarsWritten ==
    \A t \in Trains : /\ train[t].write_index <= Len(train[t].car[FilledSet(t)])
                      /\ train[t].car_num <= Len(train[t].car[1 - FilledSet(t)])

TypeInv == TypeOK /\ CarsWritten

LEMMA Sets == \A t \in Trains : /\ FilledSet(t) \in {0, 1} /\ 1 - FilledSet(t) \in {0, 1}
                                /\ FilledSet(t) # 1 - FilledSet(t)
  BY DEF FilledSet

LEMMA TrainFields ==
    ASSUME TypeOK, NEW t \in Trains
    PROVE  /\ \A set \in {0, 1} : /\ train[t].car[set] \in Seq(Frames)
                                  /\ Len(train[t].car[set]) \in Nat
                                  /\ Len(train[t].car[set]) <= CarNum
           /\ train[t].car \in [{0, 1} -> Seq(Frames)]
           /\ train[t].write_index \in Nat /\ train[t].write_index <= CarNum
           /\ train[t].car_num \in Nat /\ train[t].car_num <= CarNum
           /\ train[t].car_id \in 0 .. 2 /\ train[t].fetched \in BOOLEAN
<1>1. train[t] \in TrainState /\ \A set \in {0, 1} : Len(train[t].car[set]) <= CarNum
  BY DEF TypeOK
<1>2. train[t].car \in [{0, 1} -> Seq(Frames)]
  BY <1>1 DEF TrainState
<1>3. /\ train[t].write_index \in 0 .. CarNum /\ train[t].car_num \in 0 .. CarNum
      /\ train[t].car_id \in 0 .. 2 /\ train[t].fetched \in BOOLEAN
  BY <1>1 DEF TrainState
<1>4. \A set \in {0, 1} : train[t].car[set] \in Seq(Frames)
  BY <1>2
<1>5. \A set \in {0, 1} : Len(train[t].car[set]) \in Nat
  BY <1>4, LenProperties
<1> QED BY <1>1, <1>2, <1>3, <1>4, <1>5, EnetTxAssumption

LEMMA Loads ==
    ASSUME TypeInv, NEW t \in Trains
    PROVE  /\ FilledCars(t) \in Seq(Frames) /\ Len(FilledCars(t)) = train[t].write_index
           /\ Published(t) \in Seq(Frames) /\ Len(Published(t)) = train[t].car_num
           /\ Awaited(t) \in Seq(Frames)
<1>1. /\ train[t].write_index \in Nat /\ train[t].car_num \in Nat
      /\ train[t].car[FilledSet(t)] \in Seq(Frames)
      /\ train[t].car[1 - FilledSet(t)] \in Seq(Frames)
  BY TrainFields, Sets DEF TypeInv
<1>2. /\ train[t].write_index <= Len(train[t].car[FilledSet(t)])
      /\ train[t].car_num <= Len(train[t].car[1 - FilledSet(t)])
  BY DEF TypeInv, CarsWritten
<1>3. FilledCars(t) \in Seq(Frames) /\ Len(FilledCars(t)) = train[t].write_index
  BY <1>1, <1>2, FirstCarsIs DEF FilledCars
<1>4. Published(t) \in Seq(Frames) /\ Len(Published(t)) = train[t].car_num
  BY <1>1, <1>2, FirstCarsIs DEF Published
<1> QED BY <1>3, <1>4 DEF Awaited

\* What writing one car does to a train.
WithCar(T, set, cars, n) == [[T EXCEPT !.car[set] = cars] EXCEPT !.write_index = n]

LEMMA CarWritten ==
    ASSUME NEW T \in TrainState, NEW set \in {0, 1}, NEW other \in {0, 1} \ {set},
           NEW cars \in Seq(Frames),
           NEW n \in 0 .. CarNum, NEW T2, T2 = WithCar(T, set, cars, n)
    PROVE  /\ T2 \in TrainState /\ T2.car[set] = cars /\ T2.car[other] = T.car[other]
           /\ T2.write_index = n /\ T2.car_id = T.car_id /\ T2.car_num = T.car_num
           /\ T2.fetched = T.fetched
<1> DEFINE Ns == 0 .. CarNum
           Qs == Seq(Frames)
<1>1. TrainState = [car : [{0, 1} -> Qs], write_index : Ns, car_id : 0 .. 2,
                    car_num : Ns, fetched : BOOLEAN]
  BY DEF TrainState
<1>2. n \in Ns /\ cars \in Qs
  OBVIOUS
<1> HIDE DEF Ns, Qs
<1>3. T \in [car : [{0, 1} -> Qs], write_index : Ns, car_id : 0 .. 2,
             car_num : Ns, fetched : BOOLEAN]
  BY <1>1
<1>4. T.car \in [{0, 1} -> Qs]
  BY <1>3
<1>5. PICK C \in [{0, 1} -> Qs] : C = [T.car EXCEPT ![set] = cars]
  BY <1>2, <1>4
<1>6. C[set] = cars /\ C[other] = T.car[other]
  BY <1>4, <1>5
<1>7. T2 = [[T EXCEPT !.car = C] EXCEPT !.write_index = n]
  BY <1>5 DEF WithCar
<1>8. /\ T2 \in [car : [{0, 1} -> Qs], write_index : Ns, car_id : 0 .. 2,
                 car_num : Ns, fetched : BOOLEAN]
      /\ T2.car = C /\ T2.write_index = n /\ T2.car_id = T.car_id
      /\ T2.car_num = T.car_num /\ T2.fetched = T.fetched
  BY <1>2, <1>3, <1>7
<1> QED BY <1>1, <1>6, <1>8

\* What publishing does to a train.
NextHeader(T) == [T EXCEPT !.car_num = T.write_index, !.write_index = 0,
                           !.car_id = IF @ = 1 THEN 2 ELSE 1, !.fetched = T.write_index = 0]

LEMMA HeaderUpdated ==
    ASSUME NEW T \in TrainState, NEW T2, T2 = NextHeader(T)
    PROVE  /\ T2 \in TrainState /\ T2.car = T.car
           /\ T2.write_index = 0 /\ T2.car_num = T.write_index
           /\ T2.car_id = IF T.car_id = 1 THEN 2 ELSE 1
           /\ T2.fetched = (T.write_index = 0)
<1> DEFINE Ns == 0 .. CarNum
           Qs == Seq(Frames)
<1>1. TrainState = [car : [{0, 1} -> Qs], write_index : Ns, car_id : 0 .. 2,
                    car_num : Ns, fetched : BOOLEAN]
  BY DEF TrainState
<1>2. 0 \in Ns
  BY EnetTxAssumption
<1> HIDE DEF Ns, Qs
<1>3. PICK d \in 0 .. 2 : d = IF T.car_id = 1 THEN 2 ELSE 1
  OBVIOUS
<1>4. PICK b \in BOOLEAN : b = (T.write_index = 0)
  OBVIOUS
<1>5. T2 = [T EXCEPT !.car_num = T.write_index, !.write_index = 0, !.car_id = d, !.fetched = b]
  BY <1>3, <1>4 DEF NextHeader
<1>6. /\ T2 \in TrainState /\ T2.car = T.car /\ T2.write_index = 0 /\ T2.car_num = T.write_index
      /\ T2.car_id = d /\ T2.fetched = b
  BY <1>1, <1>2, <1>5
<1> QED BY <1>3, <1>4, <1>6

-----------------------------------------------------------------------------
(* What the steps do to the cars.                                          *)

\* No car and no header changes.
CarsSame == \A t \in Trains : /\ FilledCars(t)' = FilledCars(t) /\ Published(t)' = Published(t)
                              /\ Awaited(t)' = Awaited(t) /\ train'[t] = train[t]

LEMMA CarsKept ==
    ASSUME train' = train
    PROVE  CarsSame
  BY DEF CarsSame, FilledCars, Published, Awaited, FilledSet

\* A frame is put in the next car of train t.
Loaded(t, f) ==
    /\ FilledCars(t)' = Append(FilledCars(t), f)
    /\ \A u \in Trains \ {t} : FilledCars(u)' = FilledCars(u)
    /\ \A u \in Trains : /\ Published(u)' = Published(u) /\ Awaited(u)' = Awaited(u)
                         /\ train'[u].fetched = train[u].fetched
                         /\ train'[u].write_index = IF u = t THEN train[t].write_index + 1
                                                    ELSE train[u].write_index

WritesCar(t, f) ==
    train' = [train EXCEPT ![t] = WithCar(train[t], FilledSet(t),
                                          WriteCar(train[t].car[FilledSet(t)],
                                                   train[t].write_index + 1, f),
                                          train[t].write_index + 1)]

LEMMA PushLoads ==
    ASSUME TypeInv, NEW t \in Trains, NEW f \in Frames, train[t].write_index < CarNum,
           WritesCar(t, f)
    PROVE  /\ train' \in [Trains -> TrainState]
           /\ \A u \in Trains, set \in {0, 1} : Len(train'[u].car[set]) <= CarNum
           /\ CarsWritten' /\ Loaded(t, f)
<1> DEFINE T == train[t]
           set == FilledSet(t)
           other == 1 - FilledSet(t)
           n == train[t].write_index + 1
           cars == WriteCar(T.car[set], n, f)
<1>1. /\ T \in TrainState /\ set \in {0, 1} /\ other \in {0, 1} \ {set}
      /\ n \in Nat /\ n <= CarNum /\ n > 0 /\ CarNum \in Nat /\ T.car[set] \in Seq(Frames)
      /\ n - 1 <= Len(T.car[set]) /\ Len(T.car[set]) \in Nat /\ Len(T.car[set]) <= CarNum
      /\ train \in [Trains -> TrainState] /\ T.write_index = n - 1
  <2>1. T \in TrainState /\ train \in [Trains -> TrainState]
    BY DEF TypeInv, TypeOK
  <2>2. set \in {0, 1} /\ other \in {0, 1} \ {set}
    BY Sets
  <2>3. T.write_index \in Nat /\ CarNum \in Nat
    BY TrainFields, EnetTxAssumption DEF TypeInv
  <2>4. n \in Nat /\ n <= CarNum /\ n > 0 /\ T.write_index = n - 1
    BY <2>3
  <2>5. /\ T.car[set] \in Seq(Frames) /\ Len(T.car[set]) \in Nat /\ Len(T.car[set]) <= CarNum
    BY <2>2, TrainFields DEF TypeInv
  <2>6. T.write_index <= Len(T.car[set])
    BY DEF TypeInv, CarsWritten
  <2> QED BY <2>1, <2>2, <2>3, <2>4, <2>5, <2>6
<1>2. /\ cars \in Seq(Frames) /\ n <= Len(cars) /\ Len(cars) <= CarNum
      /\ FirstCars(cars, n) = Append(FirstCars(T.car[set], n - 1), f)
  <2> DEFINE q == T.car[set]
  <2>1. q \in Seq(Frames) /\ n \in Nat /\ n > 0 /\ n - 1 <= Len(q)
    BY <1>1
  <2> HIDE DEF T, set, n, q
  <2>2. /\ WriteCar(q, n, f) \in Seq(Frames) /\ n <= Len(WriteCar(q, n, f))
        /\ Len(WriteCar(q, n, f)) = IF n - 1 = Len(q) THEN n ELSE Len(q)
        /\ FirstCars(WriteCar(q, n, f), n) = Append(FirstCars(q, n - 1), f)
    BY <2>1, WriteCarIs
  <2> QED BY <2>2, <1>1 DEF q
<1>3. n \in 0 .. CarNum
  BY <1>1
<1>4. train' = [train EXCEPT ![t] = WithCar(T, set, cars, n)]
  BY DEF WritesCar
<1>5. train'[t] = WithCar(T, set, cars, n)
  BY <1>1, <1>4
<1>6. \A u \in Trains \ {t} : train'[u] = train[u]
  BY <1>1, <1>4
<1>7. /\ train'[t] \in TrainState /\ train'[t].car[set] = cars
      /\ train'[t].car[other] = T.car[other] /\ train'[t].write_index = n
      /\ train'[t].car_id = T.car_id /\ train'[t].car_num = T.car_num
      /\ train'[t].fetched = T.fetched
  <2>1. /\ T \in TrainState /\ set \in {0, 1} /\ other \in {0, 1} \ {set}
        /\ n \in 0 .. CarNum /\ cars \in Seq(Frames) /\ train'[t] = WithCar(T, set, cars, n)
    BY <1>1, <1>2, <1>3, <1>5
  <2> HIDE DEF T, set, other, cars, n
  <2> QED BY <2>1, CarWritten
<1>8. train' \in [Trains -> TrainState]
  BY <1>1, <1>4, <1>7
<1>9. FilledSet(t)' = set /\ \A u \in Trains \ {t} : FilledSet(u)' = FilledSet(u)
  BY <1>6, <1>7 DEF FilledSet
<1>10. \A u \in Trains, s \in {0, 1} : Len(train'[u].car[s]) <= CarNum
  <2> SUFFICES ASSUME NEW u \in Trains, NEW s \in {0, 1}
               PROVE  Len(train'[u].car[s]) <= CarNum
    OBVIOUS
  <2>1. CASE u # t
    BY <2>1, <1>6, TrainFields DEF TypeInv
  <2>2. CASE u = t /\ s = set
    BY <2>2, <1>2, <1>7
  <2>3. CASE u = t /\ s # set
    <3>1. s = other
      BY <2>3, <1>1
    <3> QED BY <3>1, <2>3, <1>7, TrainFields DEF TypeInv
  <2> QED BY <2>1, <2>2, <2>3
<1>11. CarsWritten'
  <2> SUFFICES ASSUME NEW u \in Trains
               PROVE  /\ train'[u].write_index <= Len(train'[u].car[FilledSet(u)'])
                      /\ train'[u].car_num <= Len(train'[u].car[1 - FilledSet(u)'])
    BY DEF CarsWritten
  <2>1. CASE u # t
    BY <2>1, <1>6, <1>9 DEF TypeInv, CarsWritten
  <2>2. CASE u = t
    BY <2>2, <1>2, <1>7, <1>9 DEF TypeInv, CarsWritten
  <2> QED BY <2>1, <2>2
<1>12. FilledCars(t)' = Append(FilledCars(t), f)
  <2>1. FirstCars(T.car[set], n - 1) = FilledCars(t)
    <3>1. T.car[set] = train[t].car[FilledSet(t)] /\ T.write_index = train[t].write_index
      OBVIOUS
    <3> HIDE DEF T, set, n
    <3> QED BY <1>1, <3>1 DEF FilledCars
  <2>2. FilledCars(t)' = FirstCars(cars, n)
    BY <1>7, <1>9 DEF FilledCars
  <2> QED BY <1>2, <2>1, <2>2
<1>13. Published(t)' = Published(t) /\ Awaited(t)' = Awaited(t)
  <2>1. 1 - FilledSet(t)' = other
    BY <1>9
  <2>2. Published(t)' = Published(t)
    BY <1>7, <2>1 DEF Published
  <2> QED BY <1>7, <2>2 DEF Awaited
<1>14. \A u \in Trains \ {t} : /\ FilledCars(u)' = FilledCars(u) /\ Published(u)' = Published(u)
                               /\ Awaited(u)' = Awaited(u)
  <2> SUFFICES ASSUME NEW u \in Trains \ {t}
               PROVE  /\ FilledCars(u)' = FilledCars(u) /\ Published(u)' = Published(u)
                      /\ Awaited(u)' = Awaited(u)
    OBVIOUS
  <2>1. train'[u] = train[u] /\ FilledSet(u)' = FilledSet(u)
    BY <1>6, <1>9
  <2> QED BY <2>1 DEF FilledCars, Published, Awaited
<1> HIDE DEF T, set, other, cars
<1>15. Loaded(t, f)
  BY <1>6, <1>7, <1>12, <1>13, <1>14 DEF Loaded, T
<1> QED BY <1>8, <1>10, <1>11, <1>15

\* The sets change places; what is not fetched yet is what was filled.
Exchanged == \A t \in Trains : /\ FilledCars(t)' = <<>> /\ Published(t)' = FilledCars(t)
                               /\ Awaited(t)' = FilledCars(t)
                               /\ train'[t].write_index = 0

LEMMA HeadersExchange ==
    ASSUME TypeInv, train_tx_update_header
    PROVE  /\ train' \in [Trains -> TrainState]
           /\ \A u \in Trains, set \in {0, 1} : Len(train'[u].car[set]) <= CarNum
           /\ CarsWritten' /\ Exchanged
<1>1. \A t \in Trains : /\ train[t] \in TrainState /\ FilledSet(t) \in {0, 1}
  BY TrainFields, Sets DEF TypeInv, TypeOK
<1>2. \A t \in Trains :
        /\ train'[t] \in TrainState /\ train'[t].car = train[t].car
        /\ train'[t].write_index = 0 /\ train'[t].car_num = train[t].write_index
        /\ train'[t].car_id = (IF train[t].car_id = 1 THEN 2 ELSE 1)
        /\ train'[t].fetched = (train[t].write_index = 0)
  <2> SUFFICES ASSUME NEW t \in Trains
               PROVE  /\ train'[t] \in TrainState /\ train'[t].car = train[t].car
                      /\ train'[t].write_index = 0 /\ train'[t].car_num = train[t].write_index
                      /\ train'[t].car_id = (IF train[t].car_id = 1 THEN 2 ELSE 1)
                      /\ train'[t].fetched = (train[t].write_index = 0)
    OBVIOUS
  <2>1. train'[t] = [train[t] EXCEPT !.car_num = train[t].write_index, !.write_index = 0,
                                     !.car_id = IF @ = 1 THEN 2 ELSE 1,
                                     !.fetched = train[t].write_index = 0]
    BY DEF train_tx_update_header
  <2>2. train'[t] = NextHeader(train[t])
    BY <2>1 DEF NextHeader
  <2> HIDE DEF train_tx_update_header
  <2> QED BY <1>1, <2>2, HeaderUpdated
<1>3. train' \in [Trains -> TrainState]
  <2>1. train' = [t \in Trains |-> train'[t]]
    BY DEF train_tx_update_header
  <2> QED BY <1>2, <2>1
<1>4. \A u \in Trains, set \in {0, 1} : Len(train'[u].car[set]) <= CarNum
  BY <1>2, TrainFields DEF TypeInv
<1>5. \A t \in Trains : FilledSet(t)' = 1 - FilledSet(t) /\ 1 - FilledSet(t)' = FilledSet(t)
  BY <1>2 DEF FilledSet
<1>6. CarsWritten'
  <2> SUFFICES ASSUME NEW t \in Trains
               PROVE  /\ train'[t].write_index <= Len(train'[t].car[FilledSet(t)'])
                      /\ train'[t].car_num <= Len(train'[t].car[1 - FilledSet(t)'])
    BY DEF CarsWritten
  <2>1. train'[t].write_index = 0 /\ Len(train[t].car[1 - FilledSet(t)]) \in Nat
    BY <1>2, TrainFields, Sets DEF TypeInv
  <2>2. train'[t].write_index <= Len(train'[t].car[FilledSet(t)'])
    BY <1>2, <1>5, <2>1
  <2>3. train'[t].car_num <= Len(train'[t].car[1 - FilledSet(t)'])
    BY <1>2, <1>5 DEF TypeInv, CarsWritten
  <2> QED BY <2>2, <2>3
<1>7. ASSUME NEW t \in Trains
      PROVE  /\ FilledCars(t)' = <<>> /\ Published(t)' = FilledCars(t)
             /\ Awaited(t)' = FilledCars(t)
  <2>1. Published(t)' = FilledCars(t)
    BY <1>2, <1>5 DEF FilledCars, Published
  <2>2. FilledCars(t)' = FirstCars(train[t].car[1 - FilledSet(t)], 0)
    BY <1>2, <1>5 DEF FilledCars
  <2>3. train[t].car[1 - FilledSet(t)] \in Seq(Frames)
        /\ Len(train[t].car[1 - FilledSet(t)]) \in Nat
    BY TrainFields, Sets DEF TypeInv
  <2>4. FilledCars(t)' \in Seq(Frames) /\ Len(FilledCars(t)') = 0
    BY <2>2, <2>3, FirstCarsIs
  <2>5. FilledCars(t)' = <<>>
    BY <2>4, EmptySeq
  <2>6. Awaited(t)' = FilledCars(t)
    <3>1. CASE train[t].write_index # 0
      BY <3>1, <1>2, <2>1 DEF Awaited
    <3>2. CASE train[t].write_index = 0
      <4>1. FilledCars(t) \in Seq(Frames) /\ Len(FilledCars(t)) = 0
        BY <3>2, Loads
      <4>2. FilledCars(t) = <<>>
        BY <4>1, EmptySeq
      <4> QED BY <3>2, <1>2, <4>2 DEF Awaited
    <3> QED BY <3>1, <3>2
  <2> QED BY <2>1, <2>5, <2>6
<1>8. Exchanged
  BY <1>2, <1>7 DEF Exchanged
<1> QED BY <1>3, <1>4, <1>6, <1>8

LEMMA FetchFields ==
    ASSUME TypeInv, NEW t \in Trains, FpgaFetches(t)
    PROVE  /\ train' \in [Trains -> TrainState]
           /\ \A u \in Trains, set \in {0, 1} : Len(train'[u].car[set]) <= CarNum
           /\ CarsWritten'
           /\ \A u \in Trains : /\ FilledCars(u)' = FilledCars(u) /\ Published(u)' = Published(u)
                                /\ Awaited(u)' = IF u = t THEN <<>> ELSE Awaited(u)
                                /\ train'[u].write_index = train[u].write_index
           /\ Awaited(t) = Published(t)
           /\ wire' = [wire EXCEPT ![t] = @ \o Published(t)]
<1>1. train \in [Trains -> TrainState] /\ train' = [train EXCEPT ![t].fetched = TRUE]
      /\ ~ train[t].fetched
  BY DEF TypeInv, TypeOK, FpgaFetches
<1>2. \A u \in Trains : /\ train'[u].car = train[u].car /\ train'[u].car_id = train[u].car_id
                        /\ train'[u].write_index = train[u].write_index
                        /\ train'[u].car_num = train[u].car_num
                        /\ train'[u].fetched = (u = t \/ train[u].fetched)
  <2> SUFFICES ASSUME NEW u \in Trains
               PROVE  /\ train'[u].car = train[u].car /\ train'[u].car_id = train[u].car_id
                      /\ train'[u].write_index = train[u].write_index
                      /\ train'[u].car_num = train[u].car_num
                      /\ train'[u].fetched = (u = t \/ train[u].fetched)
    OBVIOUS
  <2>1. train[u].fetched \in BOOLEAN /\ train[u] \in TrainState
    BY <1>1 DEF TrainState
  <2>2. CASE u = t
    <3>1. train'[u] = [train[u] EXCEPT !.fetched = TRUE]
      BY <1>1, <2>2
    <3> QED BY <2>1, <2>2, <3>1 DEF TrainState
  <2>3. CASE u # t
    <3>1. train'[u] = train[u]
      BY <1>1, <2>3
    <3> QED BY <2>1, <2>3, <3>1
  <2> QED BY <2>2, <2>3
<1>3. train' \in [Trains -> TrainState]
  BY <1>1 DEF TrainState
<1>4. \A u \in Trains, set \in {0, 1} : Len(train'[u].car[set]) <= CarNum
  BY <1>2, TrainFields DEF TypeInv
<1>5. \A u \in Trains : FilledSet(u)' = FilledSet(u)
  BY <1>2 DEF FilledSet
<1>6. CarsWritten'
  BY <1>2, <1>5 DEF TypeInv, CarsWritten
<1>7. \A u \in Trains : FilledCars(u)' = FilledCars(u) /\ Published(u)' = Published(u)
  BY <1>2, <1>5 DEF FilledCars, Published
<1>8. \A u \in Trains : Awaited(u)' = IF u = t THEN <<>> ELSE Awaited(u)
  BY <1>2, <1>7 DEF Awaited
<1>9. Awaited(t) = Published(t)
  BY <1>1 DEF Awaited
<1>10. 1 - FilledSet(t) = IF train[t].car_id = 1 THEN 0 ELSE 1
  BY DEF FilledSet
<1>11. wire' = [wire EXCEPT ![t] = @ \o Published(t)]
  BY <1>10 DEF FpgaFetches, Published
<1> QED BY <1>2, <1>3, <1>4, <1>6, <1>7, <1>8, <1>9, <1>11

-----------------------------------------------------------------------------
(* Types.                                                                  *)

LEMMA FrameFields ==
    ASSUME NEW f \in Frames
    PROVE  /\ f.src \in Sources /\ f.id \in 1 .. MaxFrames
           /\ f.kind \in Kinds /\ f.kind.type \in FrameTypes
           /\ f.kind.mask \in [FrameSlots -> SUBSET Ports]
           /\ \A k \in FrameSlots : f.kind.mask[k] \subseteq Ports
<1>1. f.src \in Sources /\ f.id \in 1 .. MaxFrames /\ f.kind \in Kinds
  BY DEF Frames
<1>2. f.kind \in [type : FrameTypes, mask : [FrameSlots -> SUBSET Ports]]
  BY <1>1, EnetTxAssumption
<1> QED BY <1>1, <1>2

LEMMA MinIs ==
    ASSUME NEW S \in SUBSET Nat, NEW m \in S, \A k \in S : m <= k
    PROVE  Min(S) = m
<1>1. Min(S) \in S /\ \A k \in S : Min(S) <= k
  BY DEF Min
<1>2. Min(S) <= m /\ m <= Min(S) /\ Min(S) \in Nat /\ m \in Nat
  BY <1>1
<1> HIDE DEF Min
<1> QED BY <1>2

LEMMA LaterSlotIs ==
    ASSUME NEW f
    PROVE  LaterSlot(f) = IF f.kind.mask[2] # {} THEN 2
                          ELSE IF f.kind.mask[3] # {} THEN 3
                          ELSE IF f.kind.mask[4] # {} THEN 4 ELSE 1
<1> DEFINE S == {k \in 2 .. 4 : f.kind.mask[k] # {}}
<1>1. S \in SUBSET Nat /\ \A k \in S : k = 2 \/ k = 3 \/ k = 4
  OBVIOUS
<1>2. \A k \in {2, 3, 4} : k \in S <=> f.kind.mask[k] # {}
  OBVIOUS
<1>3. LaterSlot(f) = IF S # {} THEN Min(S) ELSE 1
  BY DEF LaterSlot
<1> HIDE DEF S
<1>4. CASE 2 \in S
  BY <1>1, <1>2, <1>3, <1>4, MinIs
<1>5. CASE 2 \notin S /\ 3 \in S
  BY <1>1, <1>2, <1>3, <1>5, MinIs
<1>6. CASE 2 \notin S /\ 3 \notin S /\ 4 \in S
  BY <1>1, <1>2, <1>3, <1>6, MinIs
<1>7. CASE 2 \notin S /\ 3 \notin S /\ 4 \notin S
  BY <1>1, <1>2, <1>3, <1>7
<1> QED BY <1>4, <1>5, <1>6, <1>7

LEMMA CheckedSlotIs ==
    ASSUME NEW f
    PROVE  CheckedSlot(f) = IF f.kind.mask[1] # {} THEN 1
                            ELSE IF f.kind.mask[2] # {} THEN 2
                            ELSE IF f.kind.mask[3] # {} THEN 3 ELSE 4
<1> DEFINE S == {k \in 1 .. 3 : f.kind.mask[k] # {}}
<1>1. S \in SUBSET Nat /\ \A k \in S : k = 1 \/ k = 2 \/ k = 3
  OBVIOUS
<1>2. \A k \in {1, 2, 3} : k \in S <=> f.kind.mask[k] # {}
  OBVIOUS
<1>3. CheckedSlot(f) = IF S # {} THEN Min(S) ELSE 4
  BY DEF CheckedSlot
<1> HIDE DEF S
<1>4. CASE 1 \in S
  BY <1>1, <1>2, <1>3, <1>4, MinIs
<1>5. CASE 1 \notin S /\ 2 \in S
  BY <1>1, <1>2, <1>3, <1>5, MinIs
<1>6. CASE 1 \notin S /\ 2 \notin S /\ 3 \in S
  BY <1>1, <1>2, <1>3, <1>6, MinIs
<1>7. CASE 1 \notin S /\ 2 \notin S /\ 3 \notin S
  BY <1>1, <1>2, <1>3, <1>7
<1> QED BY <1>4, <1>5, <1>6, <1>7

LEMMA IsrFields ==
    ASSUME TypeOK
    PROVE  /\ isr.pc \in {"idle", "scan", "push", "send"} /\ isr.core \in 1 .. NumCores + 1
           /\ isr.left \in 0 .. RingMax /\ isr.locals \in Locals
           /\ isr.locals.used_ports \in [FrameSlots -> SUBSET Ports]
           /\ isr.locals.has_sent_inet_frame \in BOOLEAN /\ isr.locals.tx_cfg \in Trains
<1>1. isr \in IsrState
  BY DEF TypeOK
<1>2. /\ isr.pc \in {"idle", "scan", "push", "send"} /\ isr.core \in 1 .. NumCores + 1
      /\ isr.left \in 0 .. RingMax /\ isr.locals \in Locals
  BY <1>1 DEF IsrState
<1> QED BY <1>2 DEF Locals

LEMMA NotedFields ==
    ASSUME TypeOK, NEW f \in Frames
    PROVE  /\ Noted(f) \in Locals /\ Noted(f).tx_cfg \in Trains
           /\ \A k \in FrameSlots :
                Noted(f).used_ports[k] =
                  IF k \in {1, LaterSlot(f)}
                  THEN isr.locals.used_ports[k] \cup f.kind.mask[k]
                  ELSE isr.locals.used_ports[k]
           /\ Noted(f).has_sent_inet_frame = (isr.locals.has_sent_inet_frame \/ IsLan(f))
           /\ Noted(f).tx_cfg = IF LaterSlot(f) = 1 THEN isr.locals.tx_cfg
                                ELSE TrainOfSlot[LaterSlot(f)]
<1> DEFINE L == LaterSlot(f)
           U == [k \in FrameSlots |-> IF k \in {1, L}
                                      THEN isr.locals.used_ports[k] \cup f.kind.mask[k]
                                      ELSE isr.locals.used_ports[k]]
           b == isr.locals.has_sent_inet_frame \/ IsLan(f)
           t == IF L = 1 THEN isr.locals.tx_cfg ELSE TrainOfSlot[L]
<1>1. L \in FrameSlots
  BY LaterSlotIs DEF FrameSlots
<1>2. U \in [FrameSlots -> SUBSET Ports]
  BY IsrFields, FrameFields
<1>3. b \in BOOLEAN
  BY IsrFields DEF IsLan
<1>4. t \in Trains
  <2>1. CASE L = 1
    BY <2>1, IsrFields
  <2>2. CASE L # 1
    <3>1. L = 2 \/ L = 3 \/ L = 4
      BY <2>2, LaterSlotIs
    <3> HIDE DEF L
    <3> QED BY <2>2, <3>1 DEF Trains, TrainOfSlot
  <2> QED BY <2>1, <2>2
<1>5. Noted(f) = [used_ports |-> U, has_sent_inet_frame |-> b, tx_cfg |-> t]
  BY DEF Noted
<1>6. \A k \in FrameSlots : U[k] = IF k \in {1, L}
                                   THEN isr.locals.used_ports[k] \cup f.kind.mask[k]
                                   ELSE isr.locals.used_ports[k]
  OBVIOUS
<1>7. /\ Noted(f).used_ports = U /\ Noted(f).has_sent_inet_frame = b /\ Noted(f).tx_cfg = t
  BY <1>5
<1>8. Noted(f) \in Locals
  <2> HIDE DEF U, b, t
  <2> QED BY <1>2, <1>3, <1>4, <1>5 DEF Locals
<1> QED BY <1>4, <1>6, <1>7, <1>8

LEMMA FirstLocalsFields == FirstLocals \in Locals
<1>1. NoPorts \in [FrameSlots -> SUBSET Ports]
  BY DEF NoPorts
<1> QED BY <1>1 DEF FirstLocals, Locals, Trains

LEMMA ScanFields ==
    ASSUME TypeOK, NEW c \in 1 .. NumCores + 1, EnterScan(c)
    PROVE  /\ isr' \in IsrState /\ (isr'.pc = "scan" => isr'.core \in Cores)
           /\ isr'.pc \in {"scan", "push"}
           /\ isr'.pc = "push" => isr'.locals = FirstLocals
<1>1. CASE c <= NumCores
  <2>1. isr' = [pc |-> "scan", core |-> c, left |-> RingMax, locals |-> isr.locals]
    BY <1>1 DEF EnterScan, ScanFrom
  <2>2. RingMax \in 0 .. RingMax /\ c \in Cores
    BY <1>1, EnetTxAssumption DEF Cores
  <2> QED BY <2>1, <2>2, IsrFields DEF IsrState
<1>2. CASE ~ (c <= NumCores)
  <2>1. isr' = [pc |-> "push", core |-> 1, left |-> 0, locals |-> FirstLocals]
    BY <1>2 DEF EnterScan, ScanFrom
  <2>2. 1 \in 1 .. NumCores + 1 /\ 0 \in 0 .. RingMax
    BY EnetTxAssumption
  <2> QED BY <2>1, <2>2, FirstLocalsFields DEF IsrState
<1> QED BY <1>1, <1>2

LEMMA IsrUpdated ==
    ASSUME TypeOK, NEW pc \in {"idle", "push", "send"}, NEW locals \in Locals
    PROVE  /\ [isr EXCEPT !.pc = pc] \in IsrState /\ [isr EXCEPT !.pc = pc].pc = pc
           /\ [isr EXCEPT !.pc = pc].locals = isr.locals
           /\ [isr EXCEPT !.pc = pc, !.locals = locals] \in IsrState
           /\ [isr EXCEPT !.pc = pc, !.locals = locals].pc = pc
           /\ [isr EXCEPT !.pc = pc, !.locals = locals].locals = locals
           /\ [isr EXCEPT !.locals = locals] \in IsrState
           /\ [isr EXCEPT !.locals = locals].pc = isr.pc
           /\ [isr EXCEPT !.locals = locals].locals = locals
<1> DEFINE Cs == 1 .. NumCores + 1
           Ls == 0 .. RingMax
<1>1. isr \in [pc : {"idle", "scan", "push", "send"}, core : Cs, left : Ls, locals : Locals]
      /\ IsrState = [pc : {"idle", "scan", "push", "send"}, core : Cs, left : Ls, locals : Locals]
  BY DEF TypeOK, IsrState
<1> HIDE DEF Cs, Ls
<1> QED BY <1>1

LEMMA NewFrameFields ==
    ASSUME TypeOK, count < MaxFrames, NEW src \in Sources, NEW kind \in Kinds
    PROVE  /\ NewFrame(src, kind) \in Frames /\ NewFrame(src, kind).src = src
           /\ NewFrame(src, kind).id = count + 1 /\ count + 1 \in 0 .. MaxFrames
  BY EnetTxAssumption DEF TypeOK, NewFrame, Frames

\* What one turn of the loop of push_enet_frm_to_pcie does: the frame finds a
\* car, or none and is lost.
PushLosesFrame(f) ==
    /\ train[Noted(f).tx_cfg].write_index = CarNum
    /\ isr' = [isr EXCEPT !.pc = "send", !.locals = Noted(f)]
    /\ lost' = lost \cup {f} /\ train' = train

PushLoadsFrame(f) ==
    \E t \in Trains : /\ t = Noted(f).tx_cfg
                      /\ train[t].write_index < CarNum
                      /\ isr' = [isr EXCEPT !.locals = Noted(f)]
                      /\ lost' = lost /\ Loaded(t, f)

LEMMA PushFields ==
    ASSUME TypeInv, PushFrame
    PROVE  /\ queue # <<>> /\ MayGo(Head(queue)) /\ queue' = Tail(queue)
           /\ \E f \in Frames : /\ f = Head(queue) /\ Noted(f).tx_cfg \in Trains
                                /\ PushLosesFrame(f) \/ PushLoadsFrame(f)
           /\ train' \in [Trains -> TrainState]
           /\ \A u \in Trains, set \in {0, 1} : Len(train'[u].car[set]) <= CarNum
           /\ CarsWritten'
<1>1. queue # <<>> /\ MayGo(Head(queue)) /\ queue' = Tail(queue)
  BY DEF PushFrame
<1>2. PICK f \in Frames : f = Head(queue)
  BY <1>1, HeadAndTail DEF TypeInv, TypeOK
<1>3. PICK t \in Trains : t = Noted(f).tx_cfg
  BY NotedFields DEF TypeInv
<1>4. train[t].write_index \in Nat /\ train[t].write_index <= CarNum /\ CarNum \in Nat
  BY TrainFields, EnetTxAssumption DEF TypeInv
<1>5. CASE train[t].write_index = CarNum
  <2>1. train' = train /\ PushLosesFrame(f)
    BY <1>2, <1>3, <1>5 DEF PushFrame, PushLosesFrame
  <2>2. CarsWritten'
    BY <2>1 DEF TypeInv, CarsWritten, FilledSet
  <2> QED BY <1>1, <1>2, <1>3, <2>1, <2>2 DEF TypeInv, TypeOK
<1>6. CASE train[t].write_index # CarNum
  <2> DEFINE W == WriteCar(train[t].car[FilledSet(t)], train[t].write_index + 1, f)
             n == train[t].write_index + 1
  <2>1. /\ train' = [train EXCEPT ![t].car[FilledSet(t)] = W, ![t].write_index = n]
        /\ isr' = [isr EXCEPT !.locals = Noted(f)] /\ lost' = lost
    BY <1>2, <1>3, <1>6 DEF PushFrame
  <2>2. WritesCar(t, f)
    <3>1. train' = [train EXCEPT ![t] = WithCar(train[t], FilledSet(t), W, n)]
      <4> HIDE DEF W, n
      <4> QED BY <2>1 DEF WithCar
    <3> QED BY <3>1 DEF WritesCar
  <2>3. train[t].write_index < CarNum
    BY <1>4, <1>6
  <2>4. /\ train' \in [Trains -> TrainState]
        /\ \A u \in Trains, set \in {0, 1} : Len(train'[u].car[set]) <= CarNum
        /\ CarsWritten' /\ Loaded(t, f)
    BY <2>2, <2>3, PushLoads
  <2>5. PushLoadsFrame(f)
    BY <1>3, <2>1, <2>3, <2>4 DEF PushLoadsFrame
  <2> QED BY <1>1, <1>2, <1>3, <2>4, <2>5
<1> QED BY <1>5, <1>6

\* What send_to_ethernet does with the frame it takes: the queue, or the other
\* cores, or both, or neither.
SentOn(f) ==
    /\ \/ queue' = Append(queue, f) /\ Len(queue) < QueueMax /\ lost' = lost
       \/ queue' = queue /\ lost' = lost /\ ToCores(f)
       \/ /\ queue' = queue /\ lost' = lost \cup {f}
          /\ IF ToNetwork(f) THEN ~ (Len(queue) < QueueMax) ELSE ~ ToCores(f)
    /\ \/ wire' = wire
       \/ wire' = [wire EXCEPT !["cores"] = Append(wire["cores"], f)] /\ ToCores(f)
    /\ ToCores(f) => wire' = [wire EXCEPT !["cores"] = Append(wire["cores"], f)]

LEMMA SendFields ==
    ASSUME TypeInv, send_to_ethernet, Waiting # {}
    PROVE  \E s \in Sockets, f \in Frames :
             /\ socket[s] # <<>> /\ f = Head(socket[s])
             /\ socket' = [socket EXCEPT ![s] = Tail(socket[s])] /\ SentOn(f)
<1>1. PICK s \in Sockets : s = NextSocket /\ socket[s] # <<>>
  BY NextSocketWaits
<1>2. PICK f \in Frames : f = Head(socket[s])
  BY <1>1, HeadAndTail DEF TypeInv, TypeOK
<1>3. socket' = [socket EXCEPT ![s] = Tail(socket[s])] /\ SentOn(f)
  BY <1>1, <1>2 DEF send_to_ethernet, SentOn
<1> QED BY <1>1, <1>2, <1>3

LEMMA InitType == Init => TypeInv
<1> SUFFICES ASSUME Init PROVE TypeInv
  OBVIOUS
<1>1. <<>> \in Seq(Frames) /\ Len(<<>>) = 0
  OBVIOUS
<1>2. [set \in {0, 1} |-> <<>>] \in [{0, 1} -> Seq(Frames)]
  BY <1>1
<1>3. 0 \in 0 .. CarNum /\ 0 \in 0 .. RingMax /\ 0 \in 0 .. MaxFrames /\ 1 \in 1 .. NumCores + 1
  BY EnetTxAssumption
<1>4. ASSUME NEW t \in Trains
      PROVE  /\ train[t] \in TrainState /\ train[t].write_index = 0 /\ train[t].car_num = 0
             /\ \A set \in {0, 1} : train[t].car[set] = <<>>
  <2>1. train[t] = [car |-> [set \in {0, 1} |-> <<>>], write_index |-> 0,
                    car_id |-> 0, car_num |-> 0, fetched |-> TRUE]
    BY DEF Init
  <2> QED BY <1>2, <1>3, <2>1 DEF TrainState
<1>5. train \in [Trains -> TrainState]
  BY <1>4 DEF Init
<1>6. isr \in IsrState /\ isr.pc = "idle"
  BY <1>3, FirstLocalsFields DEF Init, IsrState
<1>7. TypeOK
  BY <1>1, <1>3, <1>4, <1>5, <1>6, EnetTxAssumption DEF Init, TypeOK
<1>8. CarsWritten
  BY <1>1, <1>4, Sets DEF CarsWritten
<1> QED BY <1>7, <1>8 DEF TypeInv

LEMMA NextType == TypeInv /\ [Next]_vars => TypeInv'
<1> SUFFICES ASSUME TypeInv, [Next]_vars PROVE TypeInv'
  OBVIOUS
<1> DEFINE TrainsOK == /\ train' \in [Trains -> TrainState]
                       /\ \A u \in Trains, set \in {0, 1} : Len(train'[u].car[set]) <= CarNum
                       /\ CarsWritten'
<1>1. ASSUME UNCHANGED train PROVE TrainsOK
  BY <1>1 DEF TypeInv, TypeOK, CarsWritten, FilledSet
<1>2. ASSUME UNCHANGED isr PROVE isr' \in IsrState /\ (isr'.pc = "scan" => isr'.core \in Cores)
  BY <1>2 DEF TypeInv, TypeOK
<1>3. ASSUME NEW s \in Sockets, NEW kind \in Kinds, sendto_raw_socket(s, kind)
      PROVE  TypeInv'
  <2>1. <<"socket", s>> \in Sources
    BY DEF Sources
  <2>2. NewFrame(<<"socket", s>>, kind) \in Frames /\ count' \in 0 .. MaxFrames
    BY <1>3, <2>1, NewFrameFields DEF sendto_raw_socket, TypeInv
  <2>3. socket' \in [Sockets -> Seq(Frames)] /\ \A u \in Sockets : Len(socket'[u]) <= SocketMax
    BY <1>3, <2>2, EnetTxAssumption DEF sendto_raw_socket, TypeInv, TypeOK
  <2> QED BY <1>1, <1>2, <1>3, <2>2, <2>3 DEF sendto_raw_socket, TypeInv, TypeOK
<1>4. ASSUME NEW c \in Cores, NEW kind \in Kinds, OtherCoreSends(c, kind)
      PROVE  TypeInv'
  <2>1. <<"core", c>> \in Sources
    BY DEF Sources
  <2>2. NewFrame(<<"core", c>>, kind) \in Frames /\ count' \in 0 .. MaxFrames
    BY <1>4, <2>1, NewFrameFields DEF OtherCoreSends, TypeInv
  <2>3. ring' \in [Cores -> Seq(Frames)] /\ \A u \in Cores : Len(ring'[u]) <= RingMax
    BY <1>4, <2>2, EnetTxAssumption DEF OtherCoreSends, TypeInv, TypeOK
  <2> QED BY <1>1, <1>2, <1>4, <2>2, <2>3 DEF OtherCoreSends, TypeInv, TypeOK
<1>5. ASSUME send_to_ethernet
      PROVE  TypeInv'
  <2>1. 1 \in 1 .. NumCores + 1 /\ EnterScan(1)
    BY <1>5, EnetTxAssumption DEF send_to_ethernet
  <2>2. isr' \in IsrState /\ (isr'.pc = "scan" => isr'.core \in Cores)
    BY <2>1, ScanFields DEF TypeInv
  <2>3. CASE Waiting = {}
    BY <1>1, <1>5, <2>2, <2>3 DEF send_to_ethernet, TypeInv, TypeOK
  <2>4. CASE Waiting # {}
    <3>1. PICK s \in Sockets, f \in Frames :
             /\ socket[s] # <<>> /\ f = Head(socket[s])
             /\ socket' = [socket EXCEPT ![s] = Tail(socket[s])] /\ SentOn(f)
      BY <1>5, <2>4, SendFields
    <3>2. socket[s] \in Seq(Frames) /\ Len(socket[s]) <= SocketMax
      BY DEF TypeInv, TypeOK
    <3>3. f \in Frames /\ Tail(socket[s]) \in Seq(Frames) /\ Len(Tail(socket[s])) <= SocketMax
      BY <3>1, <3>2, HeadAndTail, EnetTxAssumption
    <3>4. socket' \in [Sockets -> Seq(Frames)] /\ \A u \in Sockets : Len(socket'[u]) <= SocketMax
      BY <3>1, <3>3 DEF TypeInv, TypeOK
    <3>5. queue' \in Seq(Frames) /\ Len(queue') <= QueueMax
      <4>1. queue' = queue \/ (queue' = Append(queue, f) /\ Len(queue) < QueueMax)
        BY <3>1 DEF SentOn
      <4>2. queue \in Seq(Frames) /\ Len(queue) <= QueueMax /\ QueueMax \in Nat
        BY EnetTxAssumption DEF TypeInv, TypeOK
      <4> QED BY <4>1, <4>2, <3>3, Appended
    <3>6. wire' \in [Trains \cup {"cores"} -> Seq(Frames)]
      <4>1. wire' = wire \/ wire' = [wire EXCEPT !["cores"] = Append(wire["cores"], f)]
        BY <3>1, Zenon DEF SentOn
      <4>2. wire \in [Trains \cup {"cores"} -> Seq(Frames)] /\ wire["cores"] \in Seq(Frames)
        BY DEF TypeInv, TypeOK
      <4>3. Append(wire["cores"], f) \in Seq(Frames)
        BY <3>3, <4>2, Appended
      <4> QED BY <4>1, <4>2, <4>3
    <3>7. lost' \subseteq Frames
      <4>1. lost' = lost \/ lost' = lost \cup {f}
        BY <3>1 DEF SentOn
      <4> QED BY <4>1, <3>3 DEF TypeInv, TypeOK
    <3> QED BY <1>1, <1>5, <2>2, <3>4, <3>5, <3>6, <3>7 DEF send_to_ethernet, TypeInv, TypeOK
  <2> QED BY <2>3, <2>4
<1>6. ASSUME ScanTakesFrame
      PROVE  TypeInv'
  <2>1. PICK c \in Cores : c = isr.core /\ ring[c] # <<>>
    BY <1>6 DEF ScanTakesFrame, TypeInv, TypeOK
  <2>2. PICK f \in Frames : f = Head(ring[c])
    BY <2>1, HeadAndTail DEF TypeInv, TypeOK
  <2>6. Tail(ring[c]) \in Seq(Frames) /\ Len(Tail(ring[c])) <= RingMax
    <3>1. ring[c] \in Seq(Frames) /\ Len(ring[c]) <= RingMax
      BY DEF TypeInv, TypeOK
    <3> QED BY <2>1, <3>1, HeadAndTail, EnetTxAssumption
  <2>3. ring' \in [Cores -> Seq(Frames)] /\ \A u \in Cores : Len(ring'[u]) <= RingMax
    BY <1>6, <2>1, <2>6 DEF ScanTakesFrame, TypeInv, TypeOK
  <2>4. queue' \in Seq(Frames) /\ Len(queue') <= QueueMax
    <3>1. queue' = Append(queue, f) /\ Len(queue) < QueueMax
      BY <1>6, <2>1, <2>2 DEF ScanTakesFrame
    <3> QED BY <3>1, EnetTxAssumption DEF TypeInv, TypeOK
  <2>5. isr' \in IsrState /\ isr'.core = isr.core
    <3>1. isr' = [isr EXCEPT !.left = isr.left - 1] /\ isr.left > 0
      BY <1>6 DEF ScanTakesFrame
    <3>2. isr.left - 1 \in 0 .. RingMax
      BY <3>1, IsrFields, EnetTxAssumption DEF TypeInv
    <3>3. isr \in IsrState
      BY DEF TypeInv, TypeOK
    <3> QED BY <3>1, <3>2, <3>3 DEF IsrState
  <2> QED BY <1>1, <1>6, <2>1, <2>3, <2>4, <2>5 DEF ScanTakesFrame, TypeInv, TypeOK
<1>7. ASSUME ScanNextCore
      PROVE  TypeInv'
  <2>1. isr.core + 1 \in 1 .. NumCores + 1
    BY <1>7, EnetTxAssumption DEF ScanNextCore, TypeInv, TypeOK, Cores
  <2>2. isr' \in IsrState /\ (isr'.pc = "scan" => isr'.core \in Cores)
    BY <1>7, <2>1, ScanFields DEF ScanNextCore, TypeInv
  <2> QED BY <1>1, <1>7, <2>2 DEF ScanNextCore, TypeInv, TypeOK
<1>8. ASSUME ScanStops
      PROVE  TypeInv'
  <2>1. NumCores + 1 \in 1 .. NumCores + 1
    BY EnetTxAssumption
  <2>2. isr' \in IsrState /\ (isr'.pc = "scan" => isr'.core \in Cores)
    BY <1>8, <2>1, ScanFields DEF ScanStops, TypeInv
  <2> QED BY <1>1, <1>8, <2>2 DEF ScanStops, TypeInv, TypeOK
<1>9. ASSUME PushFrame
      PROVE  TypeInv'
  <2>1. PICK f \in Frames : /\ f = Head(queue) /\ Noted(f).tx_cfg \in Trains
                            /\ PushLosesFrame(f) \/ PushLoadsFrame(f)
    BY <1>9, PushFields
  <2>0. queue # <<>> /\ queue' = Tail(queue) /\ TrainsOK
    BY <1>9, PushFields
  <2>2. queue' \in Seq(Frames) /\ Len(queue') <= QueueMax
    BY <2>0, HeadAndTail, EnetTxAssumption DEF TypeInv, TypeOK
  <2>3. Noted(f) \in Locals
    BY NotedFields DEF TypeInv
  <2>4. isr' \in IsrState /\ isr'.pc # "scan"
    <3>1. isr.pc = "push"
      BY <1>9 DEF PushFrame
    <3>2. CASE PushLosesFrame(f)
      BY <2>3, <3>2, IsrUpdated DEF PushLosesFrame, TypeInv
    <3>3. CASE PushLoadsFrame(f)
      <4>1. isr' = [isr EXCEPT !.locals = Noted(f)]
        BY <3>3 DEF PushLoadsFrame
      <4> QED BY <2>3, <3>1, <4>1, IsrUpdated DEF TypeInv
    <3> QED BY <2>1, <3>2, <3>3
  <2>5. lost' \subseteq Frames
    BY <2>1 DEF PushLosesFrame, PushLoadsFrame, TypeInv, TypeOK
  <2> QED BY <1>9, <2>0, <2>2, <2>4, <2>5 DEF PushFrame, TypeInv, TypeOK
<1>10. ASSUME PushEnds
       PROVE  TypeInv'
  <2>1. isr' \in IsrState /\ isr'.pc # "scan"
    BY <1>10, IsrUpdated, IsrFields DEF PushEnds, TypeInv
  <2> QED BY <1>1, <1>10, <2>1 DEF PushEnds, TypeInv, TypeOK
<1>11. ASSUME train_tx_update_header
       PROVE  TypeInv'
  <2>1. isr' \in IsrState /\ isr'.pc # "scan"
    BY <1>11, IsrUpdated, IsrFields DEF train_tx_update_header, TypeInv
  <2>2. TrainsOK
    BY <1>11, HeadersExchange
  <2>3. UNCHANGED <<socket, ring, queue, wire, lost, count>>
    BY <1>11 DEF train_tx_update_header
  <2> QED BY <2>1, <2>2, <2>3 DEF TypeInv, TypeOK
<1>12. ASSUME NEW t \in Trains, FpgaFetches(t)
       PROVE  TypeInv'
  <2>1. TrainsOK /\ wire' = [wire EXCEPT ![t] = @ \o Published(t)]
    BY <1>12, FetchFields
  <2>2. wire' \in [Trains \cup {"cores"} -> Seq(Frames)]
    <3>1. Published(t) \in Seq(Frames) /\ wire \in [Trains \cup {"cores"} -> Seq(Frames)]
      BY Loads DEF TypeInv, TypeOK
    <3>2. wire[t] \o Published(t) \in Seq(Frames)
      BY <3>1, ConcatProperties
    <3> QED BY <2>1, <3>1, <3>2
  <2>3. UNCHANGED <<socket, ring, queue, isr, lost, count>>
    BY <1>12 DEF FpgaFetches
  <2> QED BY <1>2, <2>1, <2>2, <2>3 DEF TypeInv, TypeOK
<1>13. CASE UNCHANGED vars
  BY <1>1, <1>2, <1>13 DEF vars, TypeInv, TypeOK
<1> QED BY <1>3, <1>4, <1>5, <1>6, <1>7, <1>8, <1>9, <1>10, <1>11, <1>12, <1>13
        DEF Next, App, Isr, Fpga

LEMMA TypesHold == Spec => []TypeInv
  BY InitType, NextType, PTL DEF Spec

\* The variables keep their types: among others, no socket, ring or queue holds
\* more frames than its size, and no train more cars than it has
\* (enqueue_pcie_enet_frame, train_tx_get_buff).
THEOREM TypeCorrect == Spec => []TypeOK
<1>1. TypeInv => TypeOK
  BY DEF TypeInv
<1> QED BY <1>1, TypesHold, PTL

-----------------------------------------------------------------------------
(* Where frames are.  Seen from outside, a frame is appended to the queue  *)
(* of its source, goes from there to R0's queue or to the other cores, and *)
(* from R0's queue to the end of the path of one train: what the FPGA has  *)
(* fetched from it, what it has still to fetch, and the cars being filled. *)

Path(t) == (wire[t] \o Awaited(t)) \o FilledCars(t)

Origin(src) == IF src[1] = "socket" THEN socket[src[2]] ELSE ring[src[2]]

\* What the FPGA has fetched stays in the cars until they are filled again.
FetchedOnWire ==
    \A t \in Trains : train[t].fetched => ToSet(Published(t)) \subseteq ToSet(wire[t])

PathsSame == \A t \in Trains : Path(t)' = Path(t)
OriginsSame == \A src \in Sources : Origin(src)' = Origin(src)
OriginChanges(src, q) == \A o \in Sources : Origin(o)' = IF o = src THEN q ELSE Origin(o)

Sends(src, f) ==
    /\ f.src = src /\ f.id = count + 1 /\ count' = count + 1
    /\ OriginChanges(src, Append(Origin(src), f))
    /\ PathsSame /\ queue' = queue /\ wire'["cores"] = wire["cores"] /\ lost' = lost

Takes(src, f) ==
    /\ Origin(src) # <<>> /\ f = Head(Origin(src))
    /\ OriginChanges(src, Tail(Origin(src)))
    /\ queue' \in {queue, Append(queue, f)} /\ lost' \in {lost, lost \cup {f}}
    /\ wire'["cores"] \in {wire["cores"], Append(wire["cores"], f)}
    /\ \/ queue' = Append(queue, f) \/ lost' = lost \cup {f}
       \/ wire'["cores"] = Append(wire["cores"], f)
    /\ PathsSame /\ count' = count

Pushes(f) ==
    /\ queue # <<>> /\ f = Head(queue) /\ queue' = Tail(queue)
    /\ \/ PathsSame /\ lost' = lost \cup {f}
       \/ lost' = lost /\ \E t \in Trains : \A u \in Trains :
                            Path(u)' = IF u = t THEN Append(Path(u), f) ELSE Path(u)
    /\ OriginsSame /\ wire'["cores"] = wire["cores"] /\ count' = count

NothingMoves ==
    /\ OriginsSame /\ PathsSame /\ wire'["cores"] = wire["cores"]
    /\ queue' = queue /\ lost' = lost /\ count' = count

LEMMA SourceIs ==
    /\ \A s \in Sockets : <<"socket", s>> \in Sources /\ Origin(<<"socket", s>>) = socket[s]
    /\ \A c \in Cores : <<"core", c>> \in Sources /\ Origin(<<"core", c>>) = ring[c]
    /\ \A src \in Sources : \/ \E s \in Sockets : src = <<"socket", s>>
                            \/ \E c \in Cores : src = <<"core", c>>
  BY DEF Sources, Origin

LEMMA OriginType ==
    ASSUME TypeInv, NEW src \in Sources
    PROVE  Origin(src) \in Seq(Frames)
  BY SourceIs DEF TypeInv, TypeOK

LEMMA SocketChanges ==
    ASSUME TypeInv, NEW s \in Sockets, NEW q, socket' = [socket EXCEPT ![s] = q], ring' = ring
    PROVE  OriginChanges(<<"socket", s>>, q)
<1>1. socket \in [Sockets -> Seq(Frames)]
  BY DEF TypeInv, TypeOK
<1>2. \A u \in Sockets : socket'[u] = IF u = s THEN q ELSE socket[u]
  BY <1>1
<1> SUFFICES ASSUME NEW o \in Sources
             PROVE  Origin(o)' = IF o = <<"socket", s>> THEN q ELSE Origin(o)
  BY DEF OriginChanges
<1>3. CASE \E u \in Sockets : o = <<"socket", u>>
  BY <1>2, <1>3 DEF Origin
<1>4. CASE \E c \in Cores : o = <<"core", c>>
  BY <1>4 DEF Origin
<1> QED BY <1>3, <1>4, SourceIs

LEMMA RingChanges ==
    ASSUME TypeInv, NEW c \in Cores, NEW q, ring' = [ring EXCEPT ![c] = q], socket' = socket
    PROVE  OriginChanges(<<"core", c>>, q)
<1>1. ring \in [Cores -> Seq(Frames)]
  BY DEF TypeInv, TypeOK
<1>2. \A u \in Cores : ring'[u] = IF u = c THEN q ELSE ring[u]
  BY <1>1
<1> SUFFICES ASSUME NEW o \in Sources
             PROVE  Origin(o)' = IF o = <<"core", c>> THEN q ELSE Origin(o)
  BY DEF OriginChanges
<1>3. CASE \E s \in Sockets : o = <<"socket", s>>
  BY <1>3 DEF Origin
<1>4. CASE \E u \in Cores : o = <<"core", u>>
  BY <1>2, <1>4 DEF Origin
<1> QED BY <1>3, <1>4, SourceIs

LEMMA OriginsKept ==
    ASSUME socket' = socket, ring' = ring
    PROVE  OriginsSame
  BY DEF OriginsSame, Origin

LEMMA PathType ==
    ASSUME TypeInv, NEW t \in Trains
    PROVE  /\ wire[t] \in Seq(Frames) /\ wire[t] \o Awaited(t) \in Seq(Frames)
           /\ Path(t) \in Seq(Frames)
<1>1. wire[t] \in Seq(Frames) /\ Awaited(t) \in Seq(Frames) /\ FilledCars(t) \in Seq(Frames)
  BY Loads DEF TypeInv, TypeOK
<1>2. wire[t] \o Awaited(t) \in Seq(Frames)
  BY <1>1, ConcatProperties
<1> QED BY <1>1, <1>2, ConcatProperties DEF Path

LEMMA PathsKept ==
    ASSUME train' = train, \A t \in Trains : wire'[t] = wire[t]
    PROVE  PathsSame
<1>1. CarsSame
  BY CarsKept
<1> QED BY <1>1 DEF CarsSame, PathsSame, Path

LEMMA AppendToConcat ==
    ASSUME NEW S, NEW q \in Seq(S), NEW r \in Seq(S), NEW f \in S
    PROVE  q \o Append(r, f) = Append(q \o r, f)
<1>1. Append(r, f) = r \o <<f>> /\ Append(q \o r, f) = (q \o r) \o <<f>>
  BY AppendIsConcat, ConcatProperties
<1>2. <<f>> \in Seq(S)
  OBVIOUS
<1> QED BY <1>1, <1>2, ConcatAssociative

\* Every step is one of the four.
LEMMA Moves ==
    ASSUME TypeInv, [Next]_vars
    PROVE  \/ \E src \in Sources, f \in Frames : Sends(src, f)
           \/ \E src \in Sources, f \in Frames : Takes(src, f)
           \/ \E f \in Frames : Pushes(f)
           \/ NothingMoves
<1>1. ASSUME NEW s \in Sockets, NEW kind \in Kinds, sendto_raw_socket(s, kind)
      PROVE  \E src \in Sources, f \in Frames : Sends(src, f)
  <2> DEFINE src == <<"socket", s>>
             f == NewFrame(src, kind)
  <2>1. src \in Sources /\ Origin(src) = socket[s]
    BY SourceIs
  <2>2. f \in Frames /\ f.src = src /\ f.id = count + 1
    <3> HIDE DEF src
    <3> QED BY <1>1, <2>1, NewFrameFields DEF sendto_raw_socket, TypeInv
  <2>3. socket' = [socket EXCEPT ![s] = Append(socket[s], f)] /\ count' = count + 1
        /\ UNCHANGED <<ring, queue, train, isr, wire, lost>>
    BY <1>1 DEF sendto_raw_socket
  <2> HIDE DEF f
  <2>4. OriginChanges(src, Append(Origin(src), f))
    BY <2>1, <2>3, SocketChanges
  <2>5. PathsSame
    BY <2>3, PathsKept
  <2>6. Sends(src, f)
    BY <2>2, <2>3, <2>4, <2>5 DEF Sends
  <2> QED BY <2>1, <2>2, <2>6
<1>2. ASSUME NEW c \in Cores, NEW kind \in Kinds, OtherCoreSends(c, kind)
      PROVE  \E src \in Sources, f \in Frames : Sends(src, f)
  <2> DEFINE src == <<"core", c>>
             f == NewFrame(src, kind)
  <2>1. src \in Sources /\ Origin(src) = ring[c]
    BY SourceIs
  <2>2. f \in Frames /\ f.src = src /\ f.id = count + 1
    <3> HIDE DEF src
    <3> QED BY <1>2, <2>1, NewFrameFields DEF OtherCoreSends, TypeInv
  <2>3. ring' = [ring EXCEPT ![c] = Append(ring[c], f)] /\ count' = count + 1
        /\ UNCHANGED <<socket, queue, train, isr, wire, lost>>
    BY <1>2 DEF OtherCoreSends
  <2> HIDE DEF f
  <2>4. OriginChanges(src, Append(Origin(src), f))
    BY <2>1, <2>3, RingChanges
  <2>5. PathsSame
    BY <2>3, PathsKept
  <2>6. Sends(src, f)
    BY <2>2, <2>3, <2>4, <2>5 DEF Sends
  <2> QED BY <2>1, <2>2, <2>6
<1>3. ASSUME send_to_ethernet
      PROVE  NothingMoves \/ \E src \in Sources, f \in Frames : Takes(src, f)
  <2>1. UNCHANGED <<ring, train, count>>
    BY <1>3 DEF send_to_ethernet
  <2>2. CASE Waiting = {}
    <3>1. UNCHANGED <<socket, queue, wire, lost>>
      BY <1>3, <2>2 DEF send_to_ethernet
    <3> QED BY <2>1, <3>1, OriginsKept, PathsKept DEF NothingMoves
  <2>3. CASE Waiting # {}
    <3>1. PICK s \in Sockets, f \in Frames :
             /\ socket[s] # <<>> /\ f = Head(socket[s])
             /\ socket' = [socket EXCEPT ![s] = Tail(socket[s])] /\ SentOn(f)
      BY <1>3, <2>3, SendFields
    <3>2. PICK src \in Sources : src = <<"socket", s>> /\ Origin(src) = socket[s]
      BY SourceIs
    <3>4. OriginChanges(src, Tail(Origin(src)))
      BY <2>1, <3>1, <3>2, SocketChanges
    <3>5. /\ \A t \in Trains : wire'[t] = wire[t]
          /\ wire'["cores"] \in {wire["cores"], Append(wire["cores"], f)}
          /\ ToCores(f) => wire'["cores"] = Append(wire["cores"], f)
      <4>1. wire \in [Trains \cup {"cores"} -> Seq(Frames)] /\ "cores" \notin Trains
        BY DEF TypeInv, TypeOK, Trains
      <4>2. CASE ToCores(f)
        <5>1. wire' = [wire EXCEPT !["cores"] = Append(wire["cores"], f)]
          BY <3>1, <4>2, Zenon DEF SentOn
        <5> QED BY <4>1, <5>1
      <4>3. CASE ~ ToCores(f)
        <5>1. wire' = wire
          BY <3>1, <4>3, Zenon DEF SentOn
        <5> QED BY <4>3, <5>1
      <4> QED BY <4>2, <4>3
    <3>6. PathsSame
      BY <2>1, <3>5, PathsKept
    <3>7. /\ queue' \in {queue, Append(queue, f)} /\ lost' \in {lost, lost \cup {f}}
          /\ queue' = Append(queue, f) \/ lost' = lost \cup {f} \/ ToCores(f)
      BY <3>1 DEF SentOn
    <3>8. Takes(src, f)
      <4>1. f = Head(Origin(src)) /\ Origin(src) # <<>>
        BY <3>1, <3>2
      <4> QED BY <2>1, <3>4, <3>5, <3>6, <3>7, <4>1 DEF Takes
    <3> QED BY <3>8
  <2> QED BY <2>2, <2>3
<1>4. ASSUME ScanTakesFrame
      PROVE  \E src \in Sources, f \in Frames : Takes(src, f)
  <2>1. PICK c \in Cores : c = isr.core /\ ring[c] # <<>>
    BY <1>4 DEF ScanTakesFrame, TypeInv, TypeOK
  <2>2. PICK f \in Frames : f = Head(ring[c])
    BY <2>1, HeadAndTail DEF TypeInv, TypeOK
  <2>3. /\ ring' = [ring EXCEPT ![c] = Tail(ring[c])] /\ queue' = Append(queue, f)
        /\ UNCHANGED <<socket, train, wire, lost, count>>
    BY <1>4, <2>1, <2>2 DEF ScanTakesFrame
  <2>4. PICK src \in Sources : src = <<"core", c>> /\ Origin(src) = ring[c]
    BY SourceIs
  <2>5. OriginChanges(src, Tail(Origin(src)))
    BY <2>3, <2>4, RingChanges
  <2>6. PathsSame
    BY <2>3, PathsKept
  <2>7. f = Head(Origin(src)) /\ Origin(src) # <<>>
    BY <2>1, <2>2, <2>4
  <2> QED BY <2>3, <2>5, <2>6, <2>7 DEF Takes
<1>5. ASSUME ScanNextCore \/ ScanStops \/ PushEnds \/ UNCHANGED vars
      PROVE  NothingMoves
  <2>1. UNCHANGED <<socket, ring, queue, train, wire, lost, count>>
    BY <1>5 DEF ScanNextCore, ScanStops, PushEnds, vars
  <2> QED BY <2>1, OriginsKept, PathsKept DEF NothingMoves
<1>6. ASSUME PushFrame
      PROVE  \E f \in Frames : Pushes(f)
  <2>1. PICK f \in Frames : /\ f = Head(queue) /\ Noted(f).tx_cfg \in Trains
                            /\ PushLosesFrame(f) \/ PushLoadsFrame(f)
    BY <1>6, PushFields
  <2>2. UNCHANGED <<socket, ring, wire, count>> /\ queue # <<>> /\ queue' = Tail(queue)
    BY <1>6 DEF PushFrame
  <2>3. OriginsSame
    BY <2>2, OriginsKept
  <2>6. /\ queue # <<>> /\ f = Head(queue) /\ queue' = Tail(queue)
        /\ wire'["cores"] = wire["cores"] /\ count' = count
    <3>1. f = Head(queue)
      BY <2>1
    <3>2. queue # <<>> /\ queue' = Tail(queue)
      BY <2>2
    <3>3. wire' = wire /\ count' = count
      BY <2>2
    <3> QED BY <3>1, <3>2, <3>3
  <2>4. CASE PushLosesFrame(f)
    <3>1. train' = train /\ lost' = lost \cup {f}
      BY <2>4 DEF PushLosesFrame
    <3>2. PathsSame
      BY <2>2, <3>1, PathsKept
    <3>3. Pushes(f)
      BY <2>6, <2>3, <3>1, <3>2 DEF Pushes
    <3> QED BY <3>3
  <2>5. CASE PushLoadsFrame(f)
    <3>1. PICK t \in Trains : Loaded(t, f) /\ lost' = lost
      BY <2>5 DEF PushLoadsFrame
    <3>2. \A u \in Trains : wire'[u] = wire[u] /\ Awaited(u)' = Awaited(u)
      BY <2>2, <3>1 DEF Loaded
    <3>3. \A u \in Trains \ {t} : Path(u)' = Path(u)
      BY <3>1, <3>2 DEF Loaded, Path
    <3>4. Path(t)' = Append(Path(t), f)
      <4>1. FilledCars(t)' = Append(FilledCars(t), f)
        BY <3>1 DEF Loaded
      <4>2. Path(t)' = (wire[t] \o Awaited(t)) \o Append(FilledCars(t), f)
        BY <3>2, <4>1 DEF Path
      <4> DEFINE q == wire[t] \o Awaited(t)
                 r == FilledCars(t)
      <4>3. q \in Seq(Frames) /\ r \in Seq(Frames)
        BY PathType, Loads
      <4>4. q \o Append(r, f) = Append(q \o r, f)
        <5> HIDE DEF q, r
        <5> QED BY <4>3, AppendToConcat
      <4>5. Path(t) = (wire[t] \o Awaited(t)) \o FilledCars(t)
        BY DEF Path
      <4> QED BY <4>2, <4>4, <4>5
    <3>5. \A u \in Trains : Path(u)' = IF u = t THEN Append(Path(u), f) ELSE Path(u)
      BY <3>3, <3>4
    <3>6. \E v \in Trains : \A u \in Trains :
            Path(u)' = IF u = v THEN Append(Path(u), f) ELSE Path(u)
      BY <3>5
    <3>7. Pushes(f)
      BY <2>6, <2>3, <3>1, <3>6 DEF Pushes
    <3> QED BY <3>7
  <2> QED BY <2>1, <2>4, <2>5
<1>7. ASSUME FpgaInTime, train_tx_update_header
      PROVE  NothingMoves
  <2>1. UNCHANGED <<socket, ring, queue, wire, lost, count>> /\ \A t \in Trains : train[t].fetched
    BY <1>7 DEF train_tx_update_header, FpgaInTime
  <2>2. Exchanged
    BY <1>7, HeadersExchange
  <2>3. ASSUME NEW t \in Trains
        PROVE  Path(t)' = Path(t)
    <3>1. FilledCars(t)' = <<>> /\ Awaited(t)' = FilledCars(t) /\ wire'[t] = wire[t]
      BY <2>1, <2>2 DEF Exchanged
    <3>0. Awaited(t) = <<>>
      BY <2>1 DEF Awaited
    <3>2. wire[t] \in Seq(Frames) /\ FilledCars(t) \in Seq(Frames)
      BY PathType, Loads
    <3>3. Path(t) = wire[t] \o FilledCars(t)
      BY <3>0, <3>2, ConcatEmptySeq DEF Path
    <3>4. Path(t)' = (wire[t] \o FilledCars(t)) \o <<>>
      BY <3>1 DEF Path
    <3>5. wire[t] \o FilledCars(t) \in Seq(Frames)
      BY <3>2, ConcatProperties
    <3> QED BY <3>3, <3>4, <3>5, ConcatEmptySeq
  <2> QED BY <2>1, <2>3, OriginsKept DEF NothingMoves, PathsSame
<1>8. ASSUME NEW t \in Trains, FpgaFetches(t)
      PROVE  NothingMoves
  <2>1. UNCHANGED <<socket, ring, queue, lost, count>>
    BY <1>8 DEF FpgaFetches
  <2>2. /\ wire' = [wire EXCEPT ![t] = @ \o Published(t)] /\ Awaited(t) = Published(t)
        /\ \A u \in Trains : /\ FilledCars(u)' = FilledCars(u)
                             /\ Awaited(u)' = IF u = t THEN <<>> ELSE Awaited(u)
    BY <1>8, FetchFields
  <2>3. /\ wire'[t] = wire[t] \o Awaited(t) /\ wire'["cores"] = wire["cores"]
        /\ \A u \in Trains \ {t} : wire'[u] = wire[u]
    BY <2>2 DEF TypeInv, TypeOK, Trains
  <2>4. \A u \in Trains \ {t} : Path(u)' = Path(u)
    BY <2>2, <2>3 DEF Path
  <2>5. Path(t)' = Path(t)
    <3>1. Path(t)' = ((wire[t] \o Awaited(t)) \o <<>>) \o FilledCars(t)
      BY <2>2, <2>3 DEF Path
    <3>2. (wire[t] \o Awaited(t)) \o <<>> = wire[t] \o Awaited(t)
      BY PathType, ConcatEmptySeq
    <3> QED BY <3>1, <3>2 DEF Path
  <2> QED BY <2>1, <2>3, <2>4, <2>5, OriginsKept DEF NothingMoves, PathsSame
<1> QED BY <1>1, <1>2, <1>3, <1>4, <1>5, <1>6, <1>7, <1>8 DEF Next, App, Isr, Fpga

-----------------------------------------------------------------------------
(* Conservation.                                                           *)

LEMMA ToSetIs ==
    ASSUME NEW S, NEW q \in Seq(S)
    PROVE  /\ ToSet(q) \subseteq S
           /\ \A x : x \in ToSet(q) <=> \E i \in 1 .. Len(q) : x = q[i]
           /\ q = <<>> <=> ToSet(q) = {}
<1>1. DOMAIN q = 1 .. Len(q) /\ Len(q) \in Nat /\ \A i \in 1 .. Len(q) : q[i] \in S
  OBVIOUS
<1>2. \A x : x \in ToSet(q) <=> \E i \in 1 .. Len(q) : x = q[i]
  BY <1>1 DEF ToSet
<1>3. ASSUME ToSet(q) = {}
      PROVE  q = <<>>
  <2>1. Len(q) = 0
    <3>1. CASE Len(q) > 0
      <4>1. 1 \in 1 .. Len(q)
        BY <1>1, <3>1
      <4>2. q[1] \in ToSet(q)
        BY <1>2, <4>1
      <4> QED BY <1>3, <4>2
    <3> QED BY <1>1, <3>1
  <2> QED BY <2>1, EmptySeq
<1>4. ASSUME q = <<>>
      PROVE  ToSet(q) = {}
  <2>1. Len(q) = 0
    BY <1>4
  <2> QED BY <1>1, <1>2, <2>1
<1>5. ToSet(q) \subseteq S
  BY <1>1, <1>2
<1> QED BY <1>2, <1>3, <1>4, <1>5

LEMMA ToSetAppend ==
    ASSUME NEW S, NEW q \in Seq(S), NEW f \in S
    PROVE  ToSet(Append(q, f)) = ToSet(q) \cup {f}
<1>1. /\ Len(q) \in Nat /\ Append(q, f) \in Seq(S) /\ Len(Append(q, f)) = Len(q) + 1
      /\ Append(q, f)[Len(q) + 1] = f
      /\ \A i \in 1 .. Len(q) : Append(q, f)[i] = q[i]
  OBVIOUS
<1>2. \A x : x \in ToSet(q) <=> \E i \in 1 .. Len(q) : x = q[i]
  BY ToSetIs
<1>3. \A x : x \in ToSet(Append(q, f)) <=> \E i \in 1 .. Len(q) + 1 : x = Append(q, f)[i]
  BY <1>1, ToSetIs
<1>4. \A x : x \in ToSet(Append(q, f)) <=> x \in ToSet(q) \/ x = f
  BY <1>1, <1>2, <1>3
<1> QED BY <1>4

LEMMA ToSetConcat ==
    ASSUME NEW S, NEW q \in Seq(S), NEW r \in Seq(S)
    PROVE  ToSet(q \o r) = ToSet(q) \cup ToSet(r)
<1>1. /\ Len(q) \in Nat /\ Len(r) \in Nat /\ q \o r \in Seq(S) /\ Len(q \o r) = Len(q) + Len(r)
      /\ \A i \in 1 .. Len(q) + Len(r) : (q \o r)[i] = IF i <= Len(q) THEN q[i] ELSE r[i - Len(q)]
  BY ConcatProperties
<1>2. /\ \A x : x \in ToSet(q) <=> \E i \in 1 .. Len(q) : x = q[i]
      /\ \A x : x \in ToSet(r) <=> \E i \in 1 .. Len(r) : x = r[i]
  BY ToSetIs
<1>3. \A x : x \in ToSet(q \o r) <=> \E i \in 1 .. Len(q) + Len(r) : x = (q \o r)[i]
  <2> DEFINE c == q \o r
  <2>1. c \in Seq(S) /\ Len(c) = Len(q) + Len(r)
    BY <1>1
  <2> HIDE DEF c
  <2>2. \A x : x \in ToSet(c) <=> \E i \in 1 .. Len(c) : x = c[i]
    BY <2>1, ToSetIs
  <2>3. \A x : x \in ToSet(c) <=> \E i \in 1 .. Len(q) + Len(r) : x = c[i]
    BY <2>1, <2>2
  <2> QED BY <2>3 DEF c
<1>4. ASSUME NEW x, x \in ToSet(q \o r)
      PROVE  x \in ToSet(q) \cup ToSet(r)
  <2>1. PICK i \in 1 .. Len(q) + Len(r) : x = (q \o r)[i]
    BY <1>3, <1>4
  <2>2. CASE i <= Len(q)
    BY <1>1, <1>2, <2>1, <2>2
  <2>3. CASE i > Len(q)
    <3>1. i - Len(q) \in 1 .. Len(r) /\ x = r[i - Len(q)]
      BY <1>1, <2>1, <2>3
    <3> QED BY <1>2, <3>1
  <2> QED BY <1>1, <2>2, <2>3
<1>5. ASSUME NEW x \in ToSet(q)
      PROVE  x \in ToSet(q \o r)
  BY <1>1, <1>2, <1>3
<1>6. ASSUME NEW x \in ToSet(r)
      PROVE  x \in ToSet(q \o r)
  <2>1. PICK i \in 1 .. Len(r) : x = r[i]
    BY <1>2
  <2>2. i + Len(q) \in 1 .. Len(q) + Len(r) /\ (q \o r)[i + Len(q)] = x
    BY <1>1, <2>1
  <2> QED BY <1>3, <2>2
<1> QED BY <1>4, <1>5, <1>6

LEMMA ToSetTail ==
    ASSUME NEW S, NEW q \in Seq(S), q # <<>>
    PROVE  /\ ToSet(q) = {Head(q)} \cup ToSet(Tail(q))
           /\ Head(q) \in ToSet(q) /\ ToSet(Tail(q)) \subseteq ToSet(q)
<1>1. /\ Len(q) \in Nat /\ Len(q) >= 1 /\ Tail(q) \in Seq(S) /\ Len(Tail(q)) = Len(q) - 1
      /\ Head(q) = q[1] /\ \A i \in 1 .. Len(q) - 1 : Tail(q)[i] = q[i + 1]
  OBVIOUS
<1>2. \A x : x \in ToSet(q) <=> \E i \in 1 .. Len(q) : x = q[i]
  BY ToSetIs
<1>3. \A x : x \in ToSet(Tail(q)) <=> \E i \in 1 .. Len(q) - 1 : x = Tail(q)[i]
  <2> DEFINE c == Tail(q)
  <2>1. c \in Seq(S) /\ Len(c) = Len(q) - 1
    BY <1>1
  <2> HIDE DEF c
  <2>2. \A x : x \in ToSet(c) <=> \E i \in 1 .. Len(c) : x = c[i]
    BY <2>1, ToSetIs
  <2>3. \A x : x \in ToSet(c) <=> \E i \in 1 .. Len(q) - 1 : x = c[i]
    BY <2>1, <2>2
  <2> QED BY <2>3 DEF c
<1>4. ASSUME NEW x \in ToSet(q)
      PROVE  x = Head(q) \/ x \in ToSet(Tail(q))
  <2>1. PICK i \in 1 .. Len(q) : x = q[i]
    BY <1>2
  <2>2. CASE i > 1
    <3>1. i - 1 \in 1 .. Len(q) - 1 /\ Tail(q)[i - 1] = x
      BY <1>1, <2>1, <2>2
    <3> QED BY <1>3, <3>1
  <2> QED BY <1>1, <2>1, <2>2
<1>5. ASSUME NEW x \in ToSet(Tail(q))
      PROVE  x \in ToSet(q)
  <2>1. PICK i \in 1 .. Len(q) - 1 : x = Tail(q)[i]
    BY <1>3
  <2>2. i + 1 \in 1 .. Len(q) /\ q[i + 1] = x
    BY <1>1, <2>1
  <2> QED BY <1>2, <2>2
<1>6. Head(q) \in ToSet(q)
  BY <1>1, <1>2
<1> QED BY <1>4, <1>5, <1>6

\* The frames that are somewhere, each in the path of one train or before it.
Held(x) ==
    \/ \E src \in Sources : x \in ToSet(Origin(src))
    \/ x \in ToSet(queue) \/ x \in lost \/ x \in ToSet(wire["cores"])
    \/ \E t \in Trains : x \in ToSet(Path(t))

LEMMA InPath ==
    ASSUME TypeInv, FetchedOnWire, NEW t \in Trains
    PROVE  \A x : x \in ToSet(Path(t)) <=>
                    x \in ToSet(wire[t]) \/ x \in ToSet(Published(t)) \/ x \in ToSet(FilledCars(t))
<1>1. /\ wire[t] \in Seq(Frames) /\ Awaited(t) \in Seq(Frames) /\ FilledCars(t) \in Seq(Frames)
      /\ wire[t] \o Awaited(t) \in Seq(Frames) /\ Published(t) \in Seq(Frames)
  BY PathType, Loads
<1>2. ToSet(Path(t)) = (ToSet(wire[t]) \cup ToSet(Awaited(t))) \cup ToSet(FilledCars(t))
  <2> DEFINE q == wire[t] \o Awaited(t)
             r == FilledCars(t)
  <2>1. ToSet(q) = ToSet(wire[t]) \cup ToSet(Awaited(t))
    BY <1>1, ToSetConcat
  <2>2. q \in Seq(Frames) /\ r \in Seq(Frames) /\ Path(t) = q \o r
    BY <1>1 DEF Path
  <2>3. ToSet(q \o r) = ToSet(q) \cup ToSet(r)
    <3> HIDE DEF q, r
    <3> QED BY <2>2, ToSetConcat
  <2> QED BY <2>1, <2>2, <2>3
<1>3. CASE train[t].fetched
  <2>1. Awaited(t) = <<>> /\ ToSet(Published(t)) \subseteq ToSet(wire[t])
    BY <1>3 DEF Awaited, FetchedOnWire
  <2>2. ToSet(Awaited(t)) = {}
    BY <1>1, <2>1, ToSetIs
  <2> QED BY <1>2, <2>1, <2>2
<1>4. CASE ~ train[t].fetched
  <2>1. Awaited(t) = Published(t)
    BY <1>4 DEF Awaited
  <2> QED BY <1>2, <2>1
<1> QED BY <1>3, <1>4

LEMMA EverywhereIsHeld ==
    ASSUME TypeInv, FetchedOnWire
    PROVE  \A x : x \in Everywhere <=> Held(x)
<1> DEFINE InSockets(x) == \E s \in Sockets : x \in ToSet(socket[s])
           InRings(x) == \E c \in Cores : x \in ToSet(ring[c])
           OnWire(x) == \E w \in Trains \cup {"cores"} : x \in ToSet(wire[w])
           InCars(x) == \E t \in Trains : x \in ToSet(FilledCars(t))
           InPublished(x) == \E t \in Trains : x \in ToSet(Published(t))
<1>1. DOMAIN wire = Trains \cup {"cores"}
  BY DEF TypeInv, TypeOK
<1>2. \A x : x \in Everywhere <=> \/ InSockets(x) \/ InRings(x) \/ x \in ToSet(queue) \/ x \in lost
                                  \/ OnWire(x) \/ InCars(x) \/ InPublished(x)
  BY <1>1 DEF Everywhere, Published
<1>3. \A x : InSockets(x) \/ InRings(x) <=> \E src \in Sources : x \in ToSet(Origin(src))
  <2> SUFFICES ASSUME NEW x
               PROVE  InSockets(x) \/ InRings(x) <=> \E src \in Sources : x \in ToSet(Origin(src))
    OBVIOUS
  <2>1. ASSUME NEW src \in Sources, x \in ToSet(Origin(src))
        PROVE  InSockets(x) \/ InRings(x)
    BY <2>1, SourceIs
  <2>2. ASSUME InSockets(x) \/ InRings(x)
        PROVE  \E src \in Sources : x \in ToSet(Origin(src))
    BY <2>2, SourceIs
  <2> QED BY <2>1, <2>2
<1>4. \A x : (\E t \in Trains : x \in ToSet(Path(t))) <=>
               \/ \E t \in Trains : x \in ToSet(wire[t])
               \/ InPublished(x) \/ InCars(x)
  BY InPath
<1>5. \A x : OnWire(x) <=> x \in ToSet(wire["cores"]) \/ \E t \in Trains : x \in ToSet(wire[t])
  OBVIOUS
<1> HIDE DEF InSockets, InRings, OnWire, InCars, InPublished
<1> QED BY <1>2, <1>3, <1>4, <1>5 DEF Held

LEMMA InitFetched == TypeInv /\ Init => FetchedOnWire
<1> SUFFICES ASSUME TypeInv, Init, NEW t \in Trains
             PROVE  ToSet(Published(t)) \subseteq ToSet(wire[t])
  BY DEF FetchedOnWire
<1>1. train[t].car_num = 0
  <2>1. train[t] = [car |-> [set \in {0, 1} |-> <<>>], write_index |-> 0,
                    car_id |-> 0, car_num |-> 0, fetched |-> TRUE]
    BY DEF Init
  <2> QED BY <2>1
<1>2. Published(t) \in Seq(Frames) /\ Len(Published(t)) = 0
  BY <1>1, Loads
<1>3. Published(t) = <<>>
  BY <1>2, EmptySeq
<1>4. ToSet(Published(t)) = {}
  BY <1>2, <1>3, ToSetIs
<1> QED BY <1>4

LEMMA NextFetched == TypeInv /\ FetchedOnWire /\ [Next]_vars => FetchedOnWire'
<1> SUFFICES ASSUME TypeInv, FetchedOnWire, [Next]_vars PROVE FetchedOnWire'
  OBVIOUS
<1>1. ASSUME train' = train, \A t \in Trains : wire'[t] = wire[t]
      PROVE  FetchedOnWire'
  <2>1. CarsSame
    BY <1>1, CarsKept
  <2> QED BY <1>1, <2>1 DEF CarsSame, FetchedOnWire
<1>2. ASSUME send_to_ethernet
      PROVE  FetchedOnWire'
  <2>1. UNCHANGED train
    BY <1>2 DEF send_to_ethernet
  <2>2. wire \in [Trains \cup {"cores"} -> Seq(Frames)] /\ "cores" \notin Trains
    BY DEF TypeInv, TypeOK, Trains
  <2>3. \A t \in Trains : wire'[t] = wire[t]
    <3>1. CASE Waiting = {}
      BY <1>2, <3>1 DEF send_to_ethernet
    <3>2. CASE Waiting # {}
      <4>1. PICK f \in Frames : SentOn(f)
        BY <1>2, <3>2, SendFields
      <4>2. wire' = wire \/ wire' = [wire EXCEPT !["cores"] = Append(wire["cores"], f)]
        BY <4>1, Zenon DEF SentOn
      <4> QED BY <2>2, <4>2
    <3> QED BY <3>1, <3>2
  <2> QED BY <1>1, <2>1, <2>3
<1>3. ASSUME \/ App \/ ScanTakesFrame \/ ScanNextCore \/ ScanStops \/ PushEnds \/ UNCHANGED vars
      PROVE  FetchedOnWire'
  <2>1. UNCHANGED <<train, wire>>
    BY <1>3 DEF App, sendto_raw_socket, OtherCoreSends, ScanTakesFrame, ScanNextCore, ScanStops,
                PushEnds, vars
  <2> QED BY <1>1, <2>1
<1>4. ASSUME PushFrame
      PROVE  FetchedOnWire'
  <2>1. UNCHANGED wire
    BY <1>4 DEF PushFrame
  <2>2. PICK f \in Frames : PushLosesFrame(f) \/ PushLoadsFrame(f)
    BY <1>4, PushFields
  <2>3. CASE PushLosesFrame(f)
    BY <1>1, <2>1, <2>3 DEF PushLosesFrame
  <2>4. CASE PushLoadsFrame(f)
    <3>1. PICK t \in Trains : Loaded(t, f)
      BY <2>4 DEF PushLoadsFrame
    <3>2. \A u \in Trains : Published(u)' = Published(u) /\ train'[u].fetched = train[u].fetched
      BY <3>1 DEF Loaded
    <3> QED BY <2>1, <3>2 DEF FetchedOnWire
  <2> QED BY <2>2, <2>3, <2>4
<1>5. ASSUME train_tx_update_header
      PROVE  FetchedOnWire'
  <2> SUFFICES ASSUME NEW t \in Trains, train'[t].fetched
               PROVE  ToSet(Published(t)') \subseteq ToSet(wire'[t])
    BY DEF FetchedOnWire
  <2>1. Exchanged
    BY <1>5, HeadersExchange
  <2>2. train'[t].fetched = (train[t].write_index = 0)
    <3>1. train'[t] = NextHeader(train[t]) /\ train[t] \in TrainState
      BY <1>5 DEF train_tx_update_header, NextHeader, TypeInv, TypeOK
    <3> QED BY <3>1, HeaderUpdated
  <2>3. FilledCars(t) \in Seq(Frames) /\ Len(FilledCars(t)) = 0
    BY <2>2, Loads
  <2>4. FilledCars(t) = <<>>
    BY <2>3, EmptySeq
  <2>5. ToSet(FilledCars(t)) = {} /\ Published(t)' = FilledCars(t)
    BY <2>1, <2>3, <2>4, ToSetIs DEF Exchanged
  <2> QED BY <2>5
<1>6. ASSUME NEW t \in Trains, FpgaFetches(t)
      PROVE  FetchedOnWire'
  <2>1. /\ wire' = [wire EXCEPT ![t] = @ \o Published(t)]
        /\ \A u \in Trains : Published(u)' = Published(u)
    BY <1>6, FetchFields
  <2>2. wire'[t] = wire[t] \o Published(t) /\ \A u \in Trains \ {t} : wire'[u] = wire[u]
    BY <2>1 DEF TypeInv, TypeOK
  <2>3. \A u \in Trains \ {t} : train'[u] = train[u]
    BY <1>6 DEF FpgaFetches, TypeInv, TypeOK
  <2>4. ToSet(Published(t)) \subseteq ToSet(wire'[t])
    BY <2>2, PathType, Loads, ToSetConcat
  <2> SUFFICES ASSUME NEW u \in Trains, train'[u].fetched
               PROVE  ToSet(Published(u)') \subseteq ToSet(wire'[u])
    BY DEF FetchedOnWire
  <2>5. CASE u = t
    BY <2>1, <2>4, <2>5
  <2>6. CASE u # t
    BY <2>1, <2>2, <2>3, <2>6 DEF FetchedOnWire
  <2> QED BY <2>5, <2>6
<1> QED BY <1>2, <1>3, <1>4, <1>5, <1>6 DEF Next, Isr, Fpga

\* Frames that have come to the queue, or out of it.
Handed(x) == \/ x \in ToSet(queue) \/ x \in ToSet(wire["cores"])
             \/ \E t \in Trains : x \in ToSet(Path(t))

LEMMA WireCores ==
    ASSUME TypeInv
    PROVE  wire["cores"] \in Seq(Frames) /\ queue \in Seq(Frames)
  BY DEF TypeInv, TypeOK

\* Who holds what after each of the moves.
LEMMA SendsHeld ==
    ASSUME TypeInv, NEW src \in Sources, NEW f \in Frames, Sends(src, f)
    PROVE  /\ \A o \in Sources : Origin(o)' = IF o = src THEN Append(Origin(o), f) ELSE Origin(o)
           /\ \A x : Handed(x)' <=> Handed(x)
           /\ \A x : Held(x)' <=> Held(x) \/ x = f
<1>1. \A o \in Sources : Origin(o)' = IF o = src THEN Append(Origin(o), f) ELSE Origin(o)
  BY DEF Sends, OriginChanges
<1>2. \A t \in Trains : Path(t)' = Path(t)
  BY DEF Sends, PathsSame
<1>3. queue' = queue /\ wire'["cores"] = wire["cores"] /\ lost' = lost
  BY DEF Sends
<1>4. \A x : Handed(x)' <=> Handed(x)
  BY <1>2, <1>3 DEF Handed
<1>5. ToSet(Append(Origin(src), f)) = ToSet(Origin(src)) \cup {f}
  BY OriginType, ToSetAppend
<1>6. \A x : (\E o \in Sources : x \in ToSet(Origin(o)'))
               <=> (\E o \in Sources : x \in ToSet(Origin(o))) \/ x = f
  BY <1>1, <1>5
<1>7. \A x : Held(x)' <=> Held(x) \/ x = f
  BY <1>2, <1>3, <1>6 DEF Held
<1> QED BY <1>1, <1>4, <1>7

LEMMA TakesHeld ==
    ASSUME TypeInv, NEW src \in Sources, NEW f \in Frames, Takes(src, f)
    PROVE  /\ Origin(src) # <<>> /\ f = Head(Origin(src))
           /\ \A o \in Sources : Origin(o)' = IF o = src THEN Tail(Origin(o)) ELSE Origin(o)
           /\ \A x : Handed(x)' => Handed(x) \/ x = f
           /\ \A x : Held(x)' <=> Held(x)
<1>1. \A o \in Sources : Origin(o)' = IF o = src THEN Tail(Origin(o)) ELSE Origin(o)
  BY DEF Takes, OriginChanges
<1>2. \A t \in Trains : Path(t)' = Path(t)
  BY DEF Takes, PathsSame
<1>3. Origin(src) # <<>> /\ f = Head(Origin(src))
  BY DEF Takes
<1>4. /\ ToSet(queue') = ToSet(queue) \/ ToSet(queue') = ToSet(queue) \cup {f}
      /\ ToSet(wire'["cores"]) = ToSet(wire["cores"])
           \/ ToSet(wire'["cores"]) = ToSet(wire["cores"]) \cup {f}
      /\ lost' = lost \/ lost' = lost \cup {f}
      /\ \/ ToSet(queue') = ToSet(queue) \cup {f} \/ lost' = lost \cup {f}
         \/ ToSet(wire'["cores"]) = ToSet(wire["cores"]) \cup {f}
  <2>1. /\ ToSet(Append(queue, f)) = ToSet(queue) \cup {f}
        /\ ToSet(Append(wire["cores"], f)) = ToSet(wire["cores"]) \cup {f}
    BY WireCores, ToSetAppend
  <2> QED BY <2>1 DEF Takes
<1>5. \A x : Handed(x)' => Handed(x) \/ x = f
  BY <1>2, <1>4 DEF Handed
<1>6. /\ ToSet(Origin(src)) = {f} \cup ToSet(Tail(Origin(src)))
  BY <1>3, OriginType, ToSetTail
<1>7. \A x : (\E o \in Sources : x \in ToSet(Origin(o)))
               <=> (\E o \in Sources : x \in ToSet(Origin(o)')) \/ x = f
  BY <1>1, <1>6
<1>8. \A x : Held(x)' <=> Held(x)
  BY <1>2, <1>4, <1>7 DEF Held
<1> QED BY <1>1, <1>3, <1>5, <1>8

LEMMA PushesHeld ==
    ASSUME TypeInv, NEW f \in Frames, Pushes(f)
    PROVE  /\ \A x : Handed(x)' => Handed(x)
           /\ \A x : Held(x)' <=> Held(x)
<1>1. queue # <<>> /\ f = Head(queue) /\ queue' = Tail(queue)
  BY DEF Pushes
<1>2. \A o \in Sources : Origin(o)' = Origin(o)
  BY DEF Pushes, OriginsSame
<1>3. wire'["cores"] = wire["cores"]
  BY DEF Pushes
<1>4. ToSet(queue) = {f} \cup ToSet(queue')
  BY <1>1, WireCores, ToSetTail
<1>5. CASE PathsSame /\ lost' = lost \cup {f}
  BY <1>2, <1>3, <1>4, <1>5 DEF PathsSame, Held, Handed
<1>6. CASE lost' = lost /\ ~ (PathsSame /\ lost' = lost \cup {f})
  <2>1. PICK t \in Trains : \A u \in Trains :
                              Path(u)' = IF u = t THEN Append(Path(u), f) ELSE Path(u)
    BY <1>6 DEF Pushes
  <2>2. ToSet(Path(t)') = ToSet(Path(t)) \cup {f}
    BY <2>1, PathType, ToSetAppend
  <2>3. \A x : (\E u \in Trains : x \in ToSet(Path(u)'))
                 <=> (\E u \in Trains : x \in ToSet(Path(u))) \/ x = f
    BY <2>1, <2>2
  <2> QED BY <1>2, <1>3, <1>4, <1>6, <2>3 DEF Held, Handed
<1> QED BY <1>5, <1>6 DEF Pushes

LEMMA NothingHeld ==
    ASSUME NothingMoves
    PROVE  (\A x : Handed(x)' <=> Handed(x)) /\ (\A x : Held(x)' <=> Held(x))
  BY DEF NothingMoves, OriginsSame, PathsSame, Held, Handed

\* Every number up to count is that of a frame held, and no other is.
Accounted ==
    /\ \A x : Held(x) => x \in Frames /\ x.id \in 1 .. count
    /\ \A n \in 1 .. count : \E x \in Frames : Held(x) /\ x.id = n

LEMMA InitPaths ==
    ASSUME TypeInv, Init, NEW t \in Trains
    PROVE  Path(t) = <<>>
<1>1. train[t] = [car |-> [set \in {0, 1} |-> <<>>], write_index |-> 0,
                  car_id |-> 0, car_num |-> 0, fetched |-> TRUE]
  BY DEF Init
<1>2. FilledCars(t) \in Seq(Frames) /\ Len(FilledCars(t)) = 0 /\ Awaited(t) = <<>>
  BY <1>1, Loads DEF Awaited
<1>3. FilledCars(t) = <<>> /\ wire[t] = <<>>
  BY <1>2, EmptySeq DEF Init
<1>4. <<>> \in Seq(Frames)
  OBVIOUS
<1> QED BY <1>2, <1>3, <1>4, ConcatEmptySeq DEF Path

LEMMA InitAccounted == TypeInv /\ Init => Accounted
<1> SUFFICES ASSUME TypeInv, Init PROVE Accounted
  OBVIOUS
<1>1. ToSet(<<>>) = {} /\ <<>> \in Seq(Frames)
  <2>1. PICK q \in Seq(Frames) : q = <<>>
    BY EmptySeq
  <2> QED BY <2>1, ToSetIs
<1>2. ASSUME NEW src \in Sources
      PROVE  ToSet(Origin(src)) = {}
  <2>1. Origin(src) = <<>>
    BY SourceIs DEF Init
  <2> QED BY <1>1, <2>1
<1>3. ASSUME NEW t \in Trains
      PROVE  ToSet(Path(t)) = {}
  BY <1>1, InitPaths
<1>4. queue = <<>> /\ wire["cores"] = <<>> /\ lost = {} /\ count = 0
  BY DEF Init
<1>5. \A x : ~ Held(x)
  BY <1>1, <1>2, <1>3, <1>4 DEF Held
<1> QED BY <1>4, <1>5 DEF Accounted

LEMMA NextAccounted == TypeInv /\ Accounted /\ [Next]_vars => Accounted'
<1> SUFFICES ASSUME TypeInv, Accounted, [Next]_vars PROVE Accounted'
  OBVIOUS
<1>0. count \in Nat
  BY DEF TypeInv, TypeOK
<1>1. ASSUME NEW src \in Sources, NEW f \in Frames, Sends(src, f)
      PROVE  Accounted'
  <2>1. \A x : Held(x)' <=> Held(x) \/ x = f
    BY <1>1, SendsHeld
  <2>2. count' = count + 1 /\ f.id = count + 1
    BY <1>1 DEF Sends
  <2>3. \A x : Held(x)' => x \in Frames /\ x.id \in 1 .. count'
    BY <1>0, <2>1, <2>2 DEF Accounted
  <2>4. ASSUME NEW n \in 1 .. count'
        PROVE  \E x \in Frames : Held(x)' /\ x.id = n
    <3>1. CASE n = count + 1
      BY <2>1, <2>2, <3>1
    <3>2. CASE n # count + 1
      <4>1. n \in 1 .. count
        BY <1>0, <2>2, <3>2
      <4> QED BY <2>1, <4>1 DEF Accounted
    <3> QED BY <3>1, <3>2
  <2> QED BY <2>3, <2>4 DEF Accounted
<1>2. ASSUME count' = count, \A x : Held(x)' <=> Held(x)
      PROVE  Accounted'
  BY <1>2 DEF Accounted
<1>3. ASSUME NEW src \in Sources, NEW f \in Frames, Takes(src, f)
      PROVE  Accounted'
  <2>1. count' = count
    BY <1>3 DEF Takes
  <2>2. \A x : Held(x)' <=> Held(x)
    BY <1>3, TakesHeld
  <2> QED BY <1>2, <2>1, <2>2
<1>4. ASSUME NEW f \in Frames, Pushes(f)
      PROVE  Accounted'
  <2>1. count' = count
    BY <1>4 DEF Pushes
  <2>2. \A x : Held(x)' <=> Held(x)
    BY <1>4, PushesHeld
  <2> QED BY <1>2, <2>1, <2>2
<1>5. ASSUME NothingMoves
      PROVE  Accounted'
  BY <1>2, <1>5, NothingHeld DEF NothingMoves
<1> QED BY <1>1, <1>3, <1>4, <1>5, Moves

Conserved == TypeInv /\ FetchedOnWire /\ Accounted

LEMMA ConservedHolds == Spec => []Conserved
<1>1. Init => Conserved
  BY InitType, InitFetched, InitAccounted DEF Conserved
<1>2. Conserved /\ [Next]_vars => Conserved'
  BY NextType, NextFetched, NextAccounted DEF Conserved
<1> QED BY <1>1, <1>2, PTL DEF Spec

\* No frame disappears: of the frames sent, each is in a socket's queue, a ring,
\* R0's queue or a car, or the FPGA has fetched it or another core has got it,
\* or it has been counted as lost; and nothing else is in any of these places
\* (send_to_ethernet, enqueue_pcie_enet_frame, push_enet_frm_to_pcie).
THEOREM FramesAccountedFor == Spec => []AllAccountedFor
<1>1. Conserved => AllAccountedFor
  <2> SUFFICES ASSUME Conserved PROVE AllAccountedFor
    OBVIOUS
  <2>1. \A x : x \in Everywhere <=> Held(x)
    BY EverywhereIsHeld DEF Conserved
  <2>2. \A x \in Everywhere : x.id \in 1 .. count
    BY <2>1 DEF Conserved, Accounted
  <2>3. \A n \in 1 .. count : \E x \in Everywhere : x.id = n
    BY <2>1 DEF Conserved, Accounted
  <2> HIDE DEF Everywhere
  <2> QED BY <2>2, <2>3 DEF AllAccountedFor
<1> QED BY <1>1, ConservedHolds, PTL


-----------------------------------------------------------------------------
(* Order.                                                                  *)

Before(x, y) == x.src = y.src => x.id < y.id
Ordered(q) == \A i, j \in 1 .. Len(q) : i < j => Before(q[i], q[j])

\* What has left a place was sent before what is still in it: along the path of
\* a train, in R0's queue behind it, and in the queues of the sources.
InOrder ==
    /\ \A t \in Trains : /\ Ordered(Path(t))
                         /\ \A x \in ToSet(Path(t)), y \in ToSet(queue) : Before(x, y)
    /\ Ordered(queue) /\ Ordered(wire["cores"])
    /\ \A src \in Sources :
         /\ Ordered(Origin(src))
         /\ \A y \in ToSet(Origin(src)) : y.src = src /\ \A x : Handed(x) => Before(x, y)

LEMMA OrderedAppend ==
    ASSUME NEW S, NEW q \in Seq(S), NEW f \in S, Ordered(q), \A x \in ToSet(q) : Before(x, f)
    PROVE  Ordered(Append(q, f))
<1>1. /\ Len(q) \in Nat /\ Len(Append(q, f)) = Len(q) + 1 /\ Append(q, f)[Len(q) + 1] = f
      /\ \A i \in 1 .. Len(q) : Append(q, f)[i] = q[i]
  OBVIOUS
<1>2. \A i \in 1 .. Len(q) : q[i] \in ToSet(q)
  BY ToSetIs
<1> SUFFICES ASSUME NEW i \in 1 .. Len(q) + 1, NEW j \in 1 .. Len(q) + 1, i < j
             PROVE  Before(Append(q, f)[i], Append(q, f)[j])
  BY <1>1 DEF Ordered
<1>3. i \in 1 .. Len(q) /\ Append(q, f)[i] = q[i]
  BY <1>1
<1>4. CASE j = Len(q) + 1
  <2>1. Before(q[i], f) /\ Append(q, f)[j] = f
    BY <1>1, <1>2, <1>3, <1>4
  <2> QED BY <1>3, <2>1
<1>5. CASE j # Len(q) + 1
  <2>1. j \in 1 .. Len(q)
    BY <1>1, <1>5
  <2>2. Before(q[i], q[j]) /\ Append(q, f)[j] = q[j]
    BY <1>1, <1>3, <2>1 DEF Ordered
  <2> QED BY <1>3, <2>2
<1> QED BY <1>4, <1>5

LEMMA OrderedTail ==
    ASSUME NEW S, NEW q \in Seq(S), q # <<>>, Ordered(q)
    PROVE  Ordered(Tail(q)) /\ \A y \in ToSet(Tail(q)) : Before(Head(q), y)
<1>1. /\ Len(q) \in Nat /\ Len(q) > 0 /\ Tail(q) \in Seq(S) /\ Len(Tail(q)) = Len(q) - 1
      /\ Head(q) = q[1] /\ \A i \in 1 .. Len(q) - 1 : Tail(q)[i] = q[i + 1]
  OBVIOUS
<1>2. ASSUME NEW i \in 1 .. Len(q) - 1, NEW j \in 1 .. Len(q) - 1, i < j
      PROVE  Before(Tail(q)[i], Tail(q)[j])
  <2>1. PICK m \in 1 .. Len(q), n \in 1 .. Len(q) : m = i + 1 /\ n = j + 1 /\ m < n
    BY <1>1, <1>2
  <2>2. Before(q[m], q[n]) /\ Tail(q)[i] = q[m] /\ Tail(q)[j] = q[n]
    BY <1>1, <2>1 DEF Ordered
  <2> QED BY <2>2
<1>3. Ordered(Tail(q))
  BY <1>1, <1>2 DEF Ordered
<1>4. ASSUME NEW y \in ToSet(Tail(q))
      PROVE  Before(Head(q), y)
  <2> DEFINE r == Tail(q)
  <2>1. r \in Seq(S)
    BY <1>1
  <2> HIDE DEF r
  <2>2. PICK i \in 1 .. Len(r) : y = r[i]
    BY <2>1, <1>4, ToSetIs DEF r
  <2>3. i \in 1 .. Len(q) - 1 /\ y = Tail(q)[i]
    BY <1>1, <2>2 DEF r
  <2>4. PICK m \in 1 .. Len(q) : m = i + 1 /\ 1 < m
    BY <1>1, <2>3
  <2>5. y = q[m] /\ 1 \in 1 .. Len(q)
    BY <1>1, <2>3, <2>4
  <2>6. Before(q[1], q[m])
    BY <2>4, <2>5 DEF Ordered
  <2> QED BY <1>1, <2>5, <2>6
<1> QED BY <1>3, <1>4

LEMMA OrderKeeps ==
    ASSUME \A t \in Trains : Ordered(Path(t)') /\ \A x \in ToSet(Path(t)'), y \in ToSet(queue') : Before(x, y),
           Ordered(queue'), Ordered(wire'["cores"]),
           \A src \in Sources :
             /\ Ordered(Origin(src)')
             /\ \A y \in ToSet(Origin(src)') : y.src = src /\ \A x : Handed(x)' => Before(x, y)
    PROVE  InOrder'
  BY DEF InOrder, Ordered, Before

LEMMA SendsInOrder ==
    ASSUME TypeInv, Accounted, InOrder, NEW src \in Sources, NEW f \in Frames, Sends(src, f)
    PROVE  InOrder'
<1>1. /\ \A o \in Sources : Origin(o)' = IF o = src THEN Append(Origin(o), f) ELSE Origin(o)
      /\ \A x : Handed(x)' <=> Handed(x)
  BY SendsHeld
<1>2. /\ \A t \in Trains : Path(t)' = Path(t)
      /\ queue' = queue /\ wire'["cores"] = wire["cores"] /\ f.src = src /\ f.id = count + 1
  BY DEF Sends, PathsSame
<1>3. \A x : Held(x) => Before(x, f)
  <2>1. \A x : Held(x) => x.id \in 1 .. count
    BY DEF Accounted
  <2>2. count \in Nat
    BY DEF TypeInv, TypeOK
  <2> QED BY <1>2, <2>1, <2>2 DEF Before
<1>4. /\ \A x : Handed(x) => Held(x)
      /\ \A x \in ToSet(Origin(src)) : Held(x)
  BY DEF Handed, Held
<1>5. Ordered(Append(Origin(src), f))
  BY <1>3, <1>4, OriginType, OrderedAppend DEF InOrder
<1>6. ToSet(Append(Origin(src), f)) = ToSet(Origin(src)) \cup {f}
  BY OriginType, ToSetAppend
<1>7. ASSUME NEW o \in Sources
      PROVE  /\ Ordered(Origin(o)')
             /\ \A y \in ToSet(Origin(o)') : y.src = o /\ \A x : Handed(x)' => Before(x, y)
  <2>1. CASE o = src
    <3>1. Origin(o)' = Append(Origin(src), f)
      BY <1>1, <2>1
    <3>2. ASSUME NEW y \in ToSet(Origin(src)) \cup {f}
          PROVE  y.src = src /\ \A x : Handed(x)' => Before(x, y)
      BY <1>1, <1>2, <1>3, <1>4 DEF InOrder
    <3> QED BY <1>5, <1>6, <2>1, <3>1, <3>2
  <2>2. CASE o # src
    BY <1>1, <2>2 DEF InOrder
  <2> QED BY <2>1, <2>2
<1>8. /\ \A t \in Trains : Ordered(Path(t)') /\ \A x \in ToSet(Path(t)'), y \in ToSet(queue') : Before(x, y)
      /\ Ordered(queue') /\ Ordered(wire'["cores"])
  BY <1>2 DEF InOrder
<1> QED BY <1>7, <1>8, OrderKeeps

LEMMA TakesInOrder ==
    ASSUME TypeInv, InOrder, NEW src \in Sources, NEW f \in Frames, Takes(src, f)
    PROVE  InOrder'
<1>1. /\ Origin(src) # <<>> /\ f = Head(Origin(src))
      /\ \A o \in Sources : Origin(o)' = IF o = src THEN Tail(Origin(o)) ELSE Origin(o)
      /\ \A x : Handed(x)' => Handed(x) \/ x = f
  BY TakesHeld
<1>2. /\ \A t \in Trains : Path(t)' = Path(t)
      /\ queue' = queue \/ queue' = Append(queue, f)
      /\ wire'["cores"] = wire["cores"] \/ wire'["cores"] = Append(wire["cores"], f)
  BY DEF Takes, PathsSame
<1>3. f \in ToSet(Origin(src)) /\ ToSet(Tail(Origin(src))) \subseteq ToSet(Origin(src))
  BY <1>1, OriginType, ToSetTail
<1>4. f.src = src /\ \A x : Handed(x) => Before(x, f)
  BY <1>3 DEF InOrder
<1>5. /\ \A x \in ToSet(queue) : Before(x, f)
      /\ \A x \in ToSet(wire["cores"]) : Before(x, f)
      /\ \A t \in Trains : \A x \in ToSet(Path(t)) : Before(x, f)
  BY <1>4 DEF Handed
<1>6. ToSet(Append(queue, f)) = ToSet(queue) \cup {f}
  BY WireCores, ToSetAppend
<1>7. Ordered(queue') /\ ToSet(queue') \subseteq ToSet(queue) \cup {f}
  <2>1. Ordered(Append(queue, f))
    BY <1>5, WireCores, OrderedAppend DEF InOrder
  <2>2. Ordered(queue)
    BY DEF InOrder
  <2> QED BY <1>2, <1>6, <2>1, <2>2
<1>8. Ordered(wire'["cores"])
  <2>1. Ordered(Append(wire["cores"], f))
    BY <1>5, WireCores, OrderedAppend DEF InOrder
  <2>2. Ordered(wire["cores"])
    BY DEF InOrder
  <2> QED BY <1>2, <2>1, <2>2
<1>9. ASSUME NEW t \in Trains
      PROVE  Ordered(Path(t)') /\ \A x \in ToSet(Path(t)'), y \in ToSet(queue') : Before(x, y)
  <2>1. Ordered(Path(t)) /\ \A x \in ToSet(Path(t)), y \in ToSet(queue) \cup {f} : Before(x, y)
    BY <1>5 DEF InOrder
  <2> QED BY <1>2, <1>7, <2>1
<1>10. Ordered(Tail(Origin(src))) /\ \A y \in ToSet(Tail(Origin(src))) : Before(f, y)
  <2>1. Ordered(Origin(src))
    BY DEF InOrder
  <2> QED BY <1>1, <2>1, OriginType, OrderedTail
<1>11. ASSUME NEW o \in Sources
       PROVE  /\ Ordered(Origin(o)')
              /\ \A y \in ToSet(Origin(o)') : y.src = o /\ \A x : Handed(x)' => Before(x, y)
  <2>1. CASE o = src
    <3>1. Origin(o)' = Tail(Origin(src))
      BY <1>1, <2>1
    <3>2. ASSUME NEW y \in ToSet(Tail(Origin(src)))
          PROVE  y.src = src /\ \A x : Handed(x)' => Before(x, y)
      <4>1. y.src = src /\ \A x : Handed(x) => Before(x, y)
        BY <1>3 DEF InOrder
      <4>2. Before(f, y)
        BY <1>10
      <4> QED BY <1>1, <4>1, <4>2
    <3> QED BY <1>10, <2>1, <3>1, <3>2
  <2>2. CASE o # src
    <3>1. Origin(o)' = Origin(o)
      BY <1>1, <2>2
    <3>2. ASSUME NEW y \in ToSet(Origin(o))
          PROVE  y.src = o /\ \A x : Handed(x)' => Before(x, y)
      <4>1. y.src = o /\ \A x : Handed(x) => Before(x, y)
        BY DEF InOrder
      <4>2. Before(f, y)
        BY <1>4, <2>2, <4>1 DEF Before
      <4> QED BY <1>1, <4>1, <4>2
    <3>3. Ordered(Origin(o))
      BY DEF InOrder
    <3> QED BY <3>1, <3>2, <3>3
  <2> QED BY <2>1, <2>2
<1> QED BY <1>7, <1>8, <1>9, <1>11, OrderKeeps

LEMMA PushesInOrder ==
    ASSUME TypeInv, InOrder, NEW f \in Frames, Pushes(f)
    PROVE  InOrder'
<1>1. /\ \A x : Handed(x)' => Handed(x)
      /\ queue # <<>> /\ f = Head(queue) /\ queue' = Tail(queue)
      /\ \A o \in Sources : Origin(o)' = Origin(o)
      /\ wire'["cores"] = wire["cores"]
  BY PushesHeld DEF Pushes, OriginsSame
<1>2. f \in ToSet(queue) /\ ToSet(queue') \subseteq ToSet(queue)
  BY <1>1, WireCores, ToSetTail
<1>3. Ordered(queue') /\ \A y \in ToSet(queue') : Before(f, y)
  <2>1. Ordered(queue)
    BY DEF InOrder
  <2> QED BY <1>1, <2>1, WireCores, OrderedTail
<1>4. \A src \in Sources :
        /\ Ordered(Origin(src)')
        /\ \A y \in ToSet(Origin(src)') : y.src = src /\ \A x : Handed(x)' => Before(x, y)
  <2> SUFFICES ASSUME NEW src \in Sources
               PROVE  /\ Ordered(Origin(src))
                      /\ \A y \in ToSet(Origin(src)) :
                           y.src = src /\ \A x : Handed(x)' => Before(x, y)
    BY <1>1
  <2>1. /\ Ordered(Origin(src))
        /\ \A y \in ToSet(Origin(src)) : y.src = src /\ \A x : Handed(x) => Before(x, y)
    BY DEF InOrder
  <2> QED BY <1>1, <2>1
<1>5. ASSUME NEW t \in Trains
      PROVE  Ordered(Path(t)') /\ \A x \in ToSet(Path(t)'), y \in ToSet(queue') : Before(x, y)
  <2>1. Ordered(Path(t)) /\ \A x \in ToSet(Path(t)), y \in ToSet(queue) : Before(x, y)
    BY DEF InOrder
  <2>2. CASE Path(t)' = Path(t)
    BY <1>2, <2>1, <2>2
  <2>3. CASE Path(t)' = Append(Path(t), f)
    <3>1. Ordered(Append(Path(t), f))
      BY <1>2, <2>1, PathType, OrderedAppend
    <3>2. ToSet(Append(Path(t), f)) = ToSet(Path(t)) \cup {f}
      BY PathType, ToSetAppend
    <3>3. \A x \in ToSet(Path(t)) \cup {f}, y \in ToSet(queue') : Before(x, y)
      BY <1>2, <1>3, <2>1
    <3> QED BY <2>3, <3>1, <3>2, <3>3
  <2> QED BY <2>2, <2>3 DEF Pushes, PathsSame
<1>6. Ordered(wire'["cores"])
  BY <1>1 DEF InOrder
<1> QED BY <1>3, <1>4, <1>5, <1>6, OrderKeeps

LEMMA NothingInOrder ==
    ASSUME InOrder, NothingMoves
    PROVE  InOrder'
<1>1. /\ \A t \in Trains : Path(t)' = Path(t)
      /\ \A o \in Sources : Origin(o)' = Origin(o)
      /\ queue' = queue /\ wire'["cores"] = wire["cores"]
      /\ \A x : Handed(x)' <=> Handed(x)
  BY NothingHeld DEF NothingMoves, PathsSame, OriginsSame
<1>2. /\ \A t \in Trains : Ordered(Path(t)') /\ \A x \in ToSet(Path(t)'), y \in ToSet(queue') : Before(x, y)
      /\ Ordered(queue') /\ Ordered(wire'["cores"])
  BY <1>1 DEF InOrder
<1>3. \A src \in Sources :
        /\ Ordered(Origin(src)')
        /\ \A y \in ToSet(Origin(src)') : y.src = src /\ \A x : Handed(x)' => Before(x, y)
  BY <1>1 DEF InOrder
<1> QED BY <1>2, <1>3, OrderKeeps

LEMMA InitInOrder == TypeInv /\ Init => InOrder
<1> SUFFICES ASSUME TypeInv, Init PROVE InOrder
  OBVIOUS
<1>1. /\ queue = <<>> /\ wire["cores"] = <<>>
      /\ \A src \in Sources : Origin(src) = <<>>
  BY SourceIs DEF Init
<1>2. \A t \in Trains : Path(t) = <<>>
  BY InitPaths
<1>3. Ordered(<<>>) /\ ToSet(<<>>) = {}
  <2>1. PICK q \in Seq(Frames) : q = <<>> /\ Len(q) = 0
    BY EmptySeq
  <2>2. Ordered(q)
    BY <2>1 DEF Ordered
  <2>3. ToSet(q) = {}
    BY <2>1, ToSetIs
  <2> QED BY <2>1, <2>2, <2>3
<1> QED BY <1>1, <1>2, <1>3 DEF InOrder

LEMMA InOrderHolds == Spec => []InOrder
<1>1. Init => InOrder
  BY InitType, InitInOrder
<1>2. Conserved /\ InOrder /\ [Next]_vars => InOrder'
  BY Moves, SendsInOrder, TakesInOrder, PushesInOrder, NothingInOrder DEF Conserved
<1> QED BY <1>1, <1>2, ConservedHolds, PTL DEF Spec

\* The frames of one source leave each train, and reach the other cores, in the
\* order they were sent and none twice, whatever is lost in between
\* (send_to_ethernet, dequeue_pcie_enet_frame, train_tx_update_header).
THEOREM FramesInOrder == Spec => []WireInOrder
<1>1. Conserved /\ InOrder => WireInOrder
  <2> SUFFICES ASSUME Conserved, InOrder, NEW w \in Trains \cup {"cores"},
                      NEW i \in 1 .. Len(wire[w]), NEW j \in 1 .. Len(wire[w]), i < j
               PROVE  Before(wire[w][i], wire[w][j])
    BY DEF WireInOrder, Before
  <2>1. TypeInv
    BY DEF Conserved
  <2>2. CASE w = "cores"
    BY <2>2 DEF InOrder, Ordered
  <2>3. CASE w \in Trains
    <3>1. /\ wire[w] \in Seq(Frames) /\ Awaited(w) \in Seq(Frames) /\ FilledCars(w) \in Seq(Frames)
          /\ wire[w] \o Awaited(w) \in Seq(Frames)
      BY <2>1, <2>3, PathType, Loads
    <3> DEFINE q == wire[w]
               r == Awaited(w)
               s == FilledCars(w)
    <3>2. Path(w) = (q \o r) \o s
      BY DEF Path
    <3>3. /\ Len((q \o r) \o s) >= Len(q) /\ Len((q \o r) \o s) \in Nat /\ Len(q) \in Nat
          /\ \A k \in 1 .. Len(q) : ((q \o r) \o s)[k] = q[k]
      <4> HIDE DEF q, r, s
      <4>1. q \in Seq(Frames) /\ r \in Seq(Frames) /\ s \in Seq(Frames)
        BY <3>1 DEF q, r, s
      <4>2. q \o r \in Seq(Frames) /\ Len(q \o r) = Len(q) + Len(r)
            /\ \A k \in 1 .. Len(q) : (q \o r)[k] = q[k]
        BY <4>1, ConcatProperties
      <4>3. /\ Len(q) \in Nat /\ Len(r) \in Nat /\ Len(s) \in Nat
            /\ Len((q \o r) \o s) = Len(q \o r) + Len(s)
            /\ \A k \in 1 .. Len(q \o r) : ((q \o r) \o s)[k] = (q \o r)[k]
        BY <4>1, <4>2, ConcatProperties
      <4> QED BY <4>2, <4>3
    <3>4. i \in 1 .. Len(Path(w)) /\ j \in 1 .. Len(Path(w))
          /\ Path(w)[i] = wire[w][i] /\ Path(w)[j] = wire[w][j]
      BY <3>2, <3>3
    <3> QED BY <2>3, <3>4 DEF InOrder, Ordered
  <2> QED BY <2>2, <2>3
<1> QED BY <1>1, ConservedHolds, InOrderHolds, PTL

-----------------------------------------------------------------------------
(* A cycle: the other cores' rings are scanned, cars are filled, the       *)
(* headers are updated.                                                    *)

LoadsSame == \A t \in Trains : /\ FilledCars(t)' = FilledCars(t)
                               /\ train'[t].write_index = train[t].write_index

StepElsewhere == isr' = isr /\ queue' = queue /\ lost' = lost /\ LoadsSame

StepOfScan ==
    /\ isr.pc \in {"idle", "scan"} /\ LoadsSame
    /\ isr'.pc \in {"scan", "push"} /\ (isr'.pc = "push" => isr'.locals = FirstLocals)
    /\ \/ lost' = lost
       \/ /\ isr.pc = "idle"
          /\ \E f \in Frames : /\ lost' = lost \cup {f}
                               /\ Len(queue) < QueueMax => f.kind.type = "lan"

StepOfPush(f) ==
    /\ isr.pc = "push" /\ queue # <<>> /\ MayGo(f) /\ queue' = Tail(queue)
    /\ isr'.pc \in {"push", "send"} /\ isr'.locals = Noted(f)
    /\ PushLosesFrame(f) \/ PushLoadsFrame(f)

EndOfPush ==
    /\ isr.pc = "push" /\ ~ (queue # <<>> /\ MayGo(Head(queue)))
    /\ isr'.pc = "send" /\ isr'.locals = isr.locals
    /\ queue' = queue /\ lost' = lost /\ LoadsSame

EndOfCycle ==
    /\ isr.pc = "send" /\ isr'.pc = "idle" /\ isr'.locals = isr.locals
    /\ queue' = queue /\ lost' = lost
    /\ \A t \in Trains : FilledCars(t)' = <<>> /\ train'[t].write_index = 0

LEMMA TrainKept ==
    ASSUME train' = train
    PROVE  LoadsSame
<1>1. CarsSame
  BY CarsKept
<1> QED BY <1>1 DEF CarsSame, LoadsSame

LEMMA LocalsOf ==
    ASSUME TypeInv
    PROVE  /\ \A pc \in {"idle", "push", "send"} : /\ [isr EXCEPT !.pc = pc].pc = pc
                                                   /\ [isr EXCEPT !.pc = pc].locals = isr.locals
           /\ isr.locals \in Locals
  BY IsrUpdated, IsrFields DEF TypeInv

LEMMA CycleSteps ==
    ASSUME TypeInv, [Next]_vars
    PROVE  \/ StepElsewhere \/ StepOfScan \/ EndOfPush \/ EndOfCycle
           \/ \E f \in Frames : f = Head(queue) /\ StepOfPush(f)
<1>1. ASSUME App \/ UNCHANGED vars
      PROVE  StepElsewhere
  <2>1. UNCHANGED <<isr, queue, lost, train>>
    BY <1>1 DEF App, sendto_raw_socket, OtherCoreSends, vars
  <2> QED BY <2>1, TrainKept DEF StepElsewhere
<1>2. ASSUME NEW t \in Trains, FpgaFetches(t)
      PROVE  StepElsewhere
  <2>1. UNCHANGED <<isr, queue, lost>>
    BY <1>2 DEF FpgaFetches
  <2> QED BY <1>2, <2>1, FetchFields DEF StepElsewhere, LoadsSame
<1>3. ASSUME send_to_ethernet
      PROVE  StepOfScan
  <2>1. 1 \in 1 .. NumCores + 1 /\ EnterScan(1) /\ isr.pc = "idle" /\ train' = train
    BY <1>3, EnetTxAssumption DEF send_to_ethernet
  <2>2. isr'.pc \in {"scan", "push"} /\ (isr'.pc = "push" => isr'.locals = FirstLocals)
    BY <2>1, ScanFields DEF TypeInv
  <2>3. \/ lost' = lost
        \/ \E f \in Frames : /\ lost' = lost \cup {f}
                             /\ Len(queue) < QueueMax => f.kind.type = "lan"
    <3>1. CASE Waiting = {}
      BY <1>3, <3>1 DEF send_to_ethernet
    <3>2. CASE Waiting # {}
      <4>1. PICK f \in Frames : SentOn(f)
        BY <1>3, <3>2, SendFields
      <4>2. \/ lost' = lost
            \/ /\ lost' = lost \cup {f}
               /\ IF ToNetwork(f) THEN ~ (Len(queue) < QueueMax) ELSE ~ ToCores(f)
        BY <4>1, Zenon DEF SentOn
      <4>3. ~ ToNetwork(f) /\ ~ ToCores(f) => f.kind.type = "lan"
        BY FrameFields DEF ToNetwork, ToCores, FrameTypes
      <4> QED BY <4>2, <4>3
    <3> QED BY <3>1, <3>2
  <2> QED BY <2>1, <2>2, <2>3, TrainKept DEF StepOfScan
<1>4. ASSUME ScanTakesFrame
      PROVE  StepOfScan
  <2>1. /\ isr.pc = "scan" /\ isr' = [isr EXCEPT !.left = isr.left - 1]
        /\ train' = train /\ lost' = lost /\ isr \in IsrState
    BY <1>4 DEF ScanTakesFrame, TypeInv, TypeOK
  <2>2. isr'.pc = "scan"
    BY <2>1 DEF IsrState
  <2> QED BY <2>1, <2>2, TrainKept DEF StepOfScan
<1>5. ASSUME ScanNextCore \/ ScanStops
      PROVE  StepOfScan
  <2>1. /\ isr.pc = "scan" /\ train' = train /\ lost' = lost
        /\ EnterScan(isr.core + 1) \/ EnterScan(NumCores + 1)
    BY <1>5 DEF ScanNextCore, ScanStops
  <2>2. isr.core + 1 \in 1 .. NumCores + 1 /\ NumCores + 1 \in 1 .. NumCores + 1
    BY <2>1, EnetTxAssumption DEF TypeInv, TypeOK, Cores
  <2>3. isr'.pc \in {"scan", "push"} /\ (isr'.pc = "push" => isr'.locals = FirstLocals)
    BY <2>1, <2>2, ScanFields DEF TypeInv
  <2> QED BY <2>1, <2>3, TrainKept DEF StepOfScan
<1>6. ASSUME PushFrame
      PROVE  \E f \in Frames : f = Head(queue) /\ StepOfPush(f)
  <2>1. PICK f \in Frames : /\ f = Head(queue) /\ Noted(f).tx_cfg \in Trains
                            /\ PushLosesFrame(f) \/ PushLoadsFrame(f)
    BY <1>6, PushFields
  <2>2. isr.pc = "push" /\ queue # <<>> /\ MayGo(f) /\ queue' = Tail(queue)
    BY <1>6, <2>1, PushFields DEF PushFrame
  <2>3. Noted(f) \in Locals
    BY NotedFields DEF TypeInv
  <2>4. isr'.pc \in {"push", "send"} /\ isr'.locals = Noted(f)
    <3>1. CASE PushLosesFrame(f)
      BY <2>3, <3>1, IsrUpdated DEF PushLosesFrame, TypeInv
    <3>2. CASE PushLoadsFrame(f)
      <4>1. isr' = [isr EXCEPT !.locals = Noted(f)]
        BY <3>2 DEF PushLoadsFrame
      <4> QED BY <2>2, <2>3, <4>1, IsrUpdated DEF TypeInv
    <3> QED BY <2>1, <3>1, <3>2
  <2>5. StepOfPush(f)
    BY <2>1, <2>2, <2>4 DEF StepOfPush
  <2> QED BY <2>1, <2>5
<1>7. ASSUME PushEnds
      PROVE  EndOfPush
  <2>1. /\ isr.pc = "push" /\ ~ (queue # <<>> /\ MayGo(Head(queue)))
        /\ isr' = [isr EXCEPT !.pc = "send"] /\ UNCHANGED <<queue, train, lost>>
    BY <1>7 DEF PushEnds
  <2>2. isr'.pc = "send" /\ isr'.locals = isr.locals
    BY <2>1, LocalsOf
  <2> QED BY <2>1, <2>2, TrainKept DEF EndOfPush
<1>8. ASSUME train_tx_update_header
      PROVE  EndOfCycle
  <2>1. isr.pc = "send" /\ isr' = [isr EXCEPT !.pc = "idle"] /\ UNCHANGED <<queue, lost>>
    BY <1>8 DEF train_tx_update_header
  <2>2. isr'.pc = "idle" /\ isr'.locals = isr.locals
    BY <2>1, LocalsOf
  <2> QED BY <1>8, <2>1, <2>2, HeadersExchange DEF EndOfCycle, Exchanged
<1> QED BY <1>1, <1>2, <1>3, <1>4, <1>5, <1>6, <1>7, <1>8 DEF Next, Isr, Fpga

-----------------------------------------------------------------------------
(* Room for every frame.  A train's cars of a cycle are no more than the   *)
(* ports of its slot that are used, and one for the internal network.      *)

SlotOf(t) == IF t = "slot0_1" THEN 2 ELSE IF t = "slot2" THEN 3 ELSE 4
Room(l, t) == Cardinality(l.used_ports[SlotOf(t)])
                + IF l.has_sent_inet_frame THEN 1 ELSE 0

\* Where the interrupt is idle or scanning no car is filled; a cycle begins and
\* ends with room in the queue, and when the push begins with none, it has not
\* used any port and takes a frame.
CycleInv ==
    /\ isr.pc \in {"idle", "scan"} => \A t \in Trains : train[t].write_index = 0
    /\ isr.pc \in {"idle", "send"} => Len(queue) < QueueMax
    /\ isr.pc = "push" /\ Len(queue) = QueueMax => isr.locals = FirstLocals
    /\ \A t \in Trains : train[t].write_index <= Room(isr.locals, t)

LEMMA RoomIs ==
    ASSUME NEW l \in Locals, NEW t \in Trains
    PROVE  /\ SlotOf(t) \in 2 .. 4 /\ SlotOf(t) \in FrameSlots
           /\ l.used_ports[SlotOf(t)] \subseteq Ports /\ IsFiniteSet(l.used_ports[SlotOf(t)])
           /\ Cardinality(l.used_ports[SlotOf(t)]) \in Nat
           /\ Cardinality(l.used_ports[SlotOf(t)]) <= Cardinality(Ports)
           /\ Room(l, t) \in Nat /\ Cardinality(Ports) \in Nat
           /\ l.has_sent_inet_frame \in BOOLEAN
<1>1. SlotOf(t) \in 2 .. 4 /\ SlotOf(t) \in FrameSlots
  BY DEF SlotOf, FrameSlots
<1>2. l.used_ports \in [FrameSlots -> SUBSET Ports] /\ l.has_sent_inet_frame \in BOOLEAN
  BY DEF Locals
<1>3. PICK U \in SUBSET Ports : U = l.used_ports[SlotOf(t)]
  BY <1>1, <1>2
<1>4. IsFiniteSet(Ports)
  BY EnetTxAssumption
<1>5. IsFiniteSet(U) /\ Cardinality(U) <= Cardinality(Ports)
  BY <1>4, FS_Subset
<1>6. Cardinality(U) \in Nat /\ Cardinality(Ports) \in Nat
  BY <1>4, <1>5, FS_CardinalityType
<1>7. Room(l, t) = Cardinality(U) + IF l.has_sent_inet_frame THEN 1 ELSE 0
  BY <1>3 DEF Room
<1> QED BY <1>1, <1>2, <1>3, <1>4, <1>5, <1>6, <1>7

LEMMA PortsGrow ==
    ASSUME NEW U \in SUBSET Ports, NEW V \in SUBSET Ports, U \cap V = {}, V # {}
    PROVE  /\ Cardinality(U) + 1 <= Cardinality(U \cup V)
           /\ Cardinality(U) + 1 <= Cardinality(Ports)
<1>1. PICK p \in V : p \in Ports /\ p \notin U
  OBVIOUS
<1> DEFINE W == U \cup {p}
<1>2. IsFiniteSet(Ports) /\ U \cup V \in SUBSET Ports
  BY EnetTxAssumption
<1>3. IsFiniteSet(U) /\ IsFiniteSet(U \cup V)
  BY <1>2, FS_Subset
<1>4. Cardinality(W) = Cardinality(U) + 1
  BY <1>1, <1>3, FS_AddElement
<1>5. W \in SUBSET (U \cup V) /\ W \in SUBSET Ports
  BY <1>1
<1> HIDE DEF W
<1>6. Cardinality(W) <= Cardinality(U \cup V) /\ Cardinality(W) <= Cardinality(Ports)
  BY <1>2, <1>3, <1>5, FS_Subset
<1> QED BY <1>4, <1>6

\* The frame that goes next takes a car of a train with room, and makes room.
LEMMA FrameMakesRoom ==
    ASSUME TypeInv, OneSlotEach, NEW f \in Frames, MayGo(f), NEW N \in Locals, N = Noted(f)
    PROVE  /\ \A t \in Trains : Room(isr.locals, t) + (IF t = N.tx_cfg THEN 1 ELSE 0)
                                  <= Room(N, t)
           /\ N.tx_cfg \in Trains /\ Room(isr.locals, N.tx_cfg) <= Cardinality(Ports)
<1>1. PICK l \in Locals : l = isr.locals
  BY LocalsOf
<1>2. /\ \A k \in FrameSlots : N.used_ports[k] = IF k \in {1, LaterSlot(f)}
                                                 THEN l.used_ports[k] \cup f.kind.mask[k]
                                                 ELSE l.used_ports[k]
      /\ N.has_sent_inet_frame = (l.has_sent_inet_frame \/ IsLan(f))
      /\ N.tx_cfg \in Trains
      /\ N.tx_cfg = IF LaterSlot(f) = 1 THEN l.tx_cfg ELSE TrainOfSlot[LaterSlot(f)]
  BY <1>1, NotedFields DEF TypeInv
<1>3. /\ f.kind \in Kinds /\ \A k \in FrameSlots : f.kind.mask[k] \subseteq Ports
      /\ \A k \in FrameSlots : l.used_ports[k] \subseteq Ports
  BY FrameFields DEF Locals
<1>4. CASE IsLan(f)
  <2>1. LaterSlot(f) = 1 /\ ~ l.has_sent_inet_frame
    <3>1. \A k \in 2 .. 4 : f.kind.mask[k] = {}
      BY <1>3, <1>4 DEF OneSlotEach, IsLan
    <3> QED BY <1>1, <1>4, <3>1, LaterSlotIs DEF MayGo
  <2>2. N.has_sent_inet_frame
    BY <1>2, <1>4
  <2>3. \A k \in 2 .. 4 : N.used_ports[k] = l.used_ports[k]
    BY <1>2, <2>1 DEF FrameSlots
  <2>4. \A t \in Trains : /\ Room(N, t) = Cardinality(l.used_ports[SlotOf(t)]) + 1
                          /\ Room(l, t) = Cardinality(l.used_ports[SlotOf(t)]) + 0
    BY <1>1, <2>1, <2>2, <2>3, RoomIs DEF Room
  <2>5. \A t \in Trains : /\ Cardinality(l.used_ports[SlotOf(t)]) \in Nat
                          /\ Cardinality(l.used_ports[SlotOf(t)]) <= Cardinality(Ports)
    BY RoomIs
  <2> QED BY <1>1, <1>2, <2>4, <2>5
<1>5. CASE ~ IsLan(f)
  <2>1. PICK slot \in 2 .. 4 : \A k \in FrameSlots : f.kind.mask[k] # {} <=> k = slot
    BY <1>3, <1>5 DEF OneSlotEach, IsLan
  <2>2. /\ f.kind.mask[1] = {} /\ f.kind.mask[slot] # {} /\ slot \in FrameSlots
        /\ slot # 2 => f.kind.mask[2] = {}
        /\ slot # 3 => f.kind.mask[3] = {}
        /\ slot # 4 => f.kind.mask[4] = {}
        /\ slot = 2 \/ slot = 3 \/ slot = 4
    BY <2>1 DEF FrameSlots
  <2>3. LaterSlot(f) = slot /\ CheckedSlot(f) = slot
    BY <2>2, LaterSlotIs, CheckedSlotIs
  <2>4. N.tx_cfg = TrainOfSlot[slot] /\ SlotOf(N.tx_cfg) = slot
        /\ \A t \in Trains \ {N.tx_cfg} : SlotOf(t) # slot
    BY <1>2, <2>2, <2>3 DEF TrainOfSlot, SlotOf, Trains
  <2> DEFINE U == l.used_ports[slot]
             V == f.kind.mask[slot]
  <2>5. U \in SUBSET Ports /\ V \in SUBSET Ports /\ U \cap V = {} /\ V # {}
    BY <1>1, <1>3, <1>5, <2>2, <2>3 DEF MayGo
  <2>6. N.used_ports[slot] = U \cup V
    BY <1>2, <2>2, <2>3
  <2> HIDE DEF U, V
  <2>7. Cardinality(U) + 1 <= Cardinality(U \cup V) /\ Cardinality(U) + 1 <= Cardinality(Ports)
    BY <2>5, PortsGrow
  <2>8. N.has_sent_inet_frame = l.has_sent_inet_frame
    BY <1>2, <1>5, RoomIs
  <2>9. ASSUME NEW t \in Trains, t # N.tx_cfg
        PROVE  Room(l, t) <= Room(N, t)
    <3>1. N.used_ports[SlotOf(t)] = l.used_ports[SlotOf(t)]
      <4>1. PICK k \in 2 .. 4 : k = SlotOf(t) /\ k \in FrameSlots
        BY RoomIs
      <4>2. k # slot /\ k # 1
        BY <2>4, <2>9, <4>1
      <4>3. N.used_ports[k] = l.used_ports[k]
        BY <1>2, <2>3, <4>1, <4>2
      <4> QED BY <4>1, <4>3
    <3>2. Room(N, t) = Room(l, t)
      BY <2>8, <3>1 DEF Room
    <3> QED BY <3>2, RoomIs
  <2> DEFINE b == IF l.has_sent_inet_frame THEN 1 ELSE 0
  <2>10. /\ Room(l, N.tx_cfg) = Cardinality(U) + b
         /\ Room(N, N.tx_cfg) = Cardinality(U \cup V) + b
    BY <2>4, <2>6, <2>8 DEF Room, U
  <2>11. /\ Cardinality(U) \in Nat /\ Cardinality(U \cup V) \in Nat /\ Cardinality(Ports) \in Nat
         /\ b \in {0, 1}
    <3>1. IsFiniteSet(Ports) /\ U \cup V \in SUBSET Ports
      BY <2>5, EnetTxAssumption
    <3>2. IsFiniteSet(U) /\ IsFiniteSet(U \cup V)
      BY <2>5, <3>1, FS_Subset
    <3> QED BY <3>1, <3>2, FS_CardinalityType
  <2> HIDE DEF b
  <2>12. Room(l, N.tx_cfg) + 1 <= Room(N, N.tx_cfg) /\ Room(l, N.tx_cfg) <= Cardinality(Ports)
    BY <2>7, <2>10, <2>11
  <2>13. \A t \in Trains : Room(l, t) \in Nat /\ Room(N, t) \in Nat
    BY RoomIs
  <2> QED BY <1>1, <1>2, <2>9, <2>12, <2>13
<1> QED BY <1>4, <1>5

LEMMA InitCycle == TypeInv /\ Init => CycleInv
<1> SUFFICES ASSUME TypeInv, Init PROVE CycleInv
  OBVIOUS
<1>1. isr.pc = "idle" /\ queue = <<>> /\ Len(queue) = 0
  BY DEF Init
<1>2. \A t \in Trains : train[t].write_index = 0
  BY DEF Init
<1>3. \A t \in Trains : Room(isr.locals, t) \in Nat
  BY RoomIs, LocalsOf
<1> QED BY <1>1, <1>2, <1>3, EnetTxAssumption DEF CycleInv

LEMMA NextCycle ==
    ASSUME OneSlotEach, TypeInv, TypeInv', CycleInv, [Next]_vars
    PROVE  CycleInv'
<1>1. PICK l \in Locals : l = isr.locals
  BY LocalsOf
<1>2. PICK m \in Locals : m = isr'.locals
  <2>1. isr' \in IsrState
    BY DEF TypeInv, TypeOK
  <2> QED BY <2>1 DEF IsrState
<1>3. \A t \in Trains : /\ Room(l, t) \in Nat /\ Room(m, t) \in Nat
                        /\ train[t].write_index \in Nat
                        /\ train[t].write_index <= Room(l, t)
  BY <1>1, RoomIs, TrainFields DEF CycleInv, TypeInv
<1>4. /\ queue \in Seq(Frames) /\ queue' \in Seq(Frames) /\ Len(queue) \in Nat /\ Len(queue') \in Nat
      /\ Len(queue) <= QueueMax /\ Len(queue') <= QueueMax /\ QueueMax \in Nat /\ QueueMax > 0
  BY EnetTxAssumption DEF TypeInv, TypeOK
<1> SUFFICES /\ isr'.pc \in {"idle", "scan"} => \A t \in Trains : train'[t].write_index = 0
             /\ isr'.pc \in {"idle", "send"} => Len(queue') < QueueMax
             /\ isr'.pc = "push" /\ Len(queue') = QueueMax => m = FirstLocals
             /\ \A t \in Trains : train'[t].write_index <= Room(m, t)
  BY <1>2 DEF CycleInv, Room
<1>5. CASE StepElsewhere
  <2>1. m = l
    BY <1>1, <1>2, <1>5 DEF StepElsewhere
  <2> QED BY <1>1, <1>3, <1>5, <2>1 DEF StepElsewhere, LoadsSame, CycleInv
<1>6. CASE StepOfScan
  <2>1. \A t \in Trains : train'[t].write_index = 0
    BY <1>6 DEF StepOfScan, LoadsSame, CycleInv
  <2>2. isr'.pc \in {"scan", "push"} /\ (isr'.pc = "push" => m = FirstLocals)
    BY <1>2, <1>6 DEF StepOfScan
  <2> QED BY <1>3, <2>1, <2>2
<1>7. ASSUME NEW f \in Frames, f = Head(queue), StepOfPush(f)
      PROVE  /\ isr'.pc \in {"push", "send"}
             /\ Len(queue') < QueueMax
             /\ \A t \in Trains : train'[t].write_index <= Room(m, t)
  <2>1. /\ queue # <<>> /\ queue' = Tail(queue) /\ MayGo(f) /\ m = Noted(f)
        /\ isr'.pc \in {"push", "send"}
    BY <1>2, <1>7 DEF StepOfPush
  <2>2. Len(queue') < QueueMax
    BY <1>4, <2>1
  <2>3. /\ \A t \in Trains : Room(l, t) + (IF t = m.tx_cfg THEN 1 ELSE 0) <= Room(m, t)
    BY <1>1, <2>1, FrameMakesRoom
  <2>4. ASSUME NEW t \in Trains
        PROVE  train'[t].write_index <= train[t].write_index + (IF t = m.tx_cfg THEN 1 ELSE 0)
    <3>1. CASE PushLosesFrame(f)
      BY <1>3, <3>1 DEF PushLosesFrame
    <3>2. CASE PushLoadsFrame(f)
      <4>1. PICK u \in Trains : u = Noted(f).tx_cfg /\ Loaded(u, f)
        BY <3>2 DEF PushLoadsFrame
      <4>2. train'[t].write_index = IF t = u THEN train[u].write_index + 1
                                    ELSE train[t].write_index
        BY <4>1 DEF Loaded
      <4> QED BY <1>3, <2>1, <4>1, <4>2
    <3> QED BY <1>7, <3>1, <3>2 DEF StepOfPush
  <2>5. \A t \in Trains : train'[t].write_index \in Nat
    <3>1. train' \in [Trains -> TrainState]
      BY DEF TypeInv, TypeOK
    <3> QED BY <3>1, EnetTxAssumption DEF TrainState
  <2>6. \A t \in Trains : train'[t].write_index <= Room(m, t)
    BY <1>3, <2>3, <2>4, <2>5
  <2> QED BY <2>1, <2>2, <2>6
<1>8. CASE EndOfPush
  <2>1. /\ isr.pc = "push" /\ isr'.pc = "send" /\ m = l /\ queue' = queue /\ LoadsSame
        /\ ~ (queue # <<>> /\ MayGo(Head(queue)))
    BY <1>1, <1>2, <1>8 DEF EndOfPush
  <2>2. ASSUME Len(queue) = QueueMax
        PROVE  FALSE
    <3>1. l = FirstLocals /\ queue # <<>>
      BY <1>1, <1>4, <2>1, <2>2 DEF CycleInv
    <3>2. ~ l.has_sent_inet_frame /\ \A k \in FrameSlots : l.used_ports[k] = {}
      BY <3>1 DEF FirstLocals, NoPorts
    <3>3. CheckedSlot(Head(queue)) \in FrameSlots
      BY CheckedSlotIs DEF FrameSlots
    <3>4. MayGo(Head(queue))
      BY <1>1, <3>2, <3>3 DEF MayGo
    <3> QED BY <2>1, <3>1, <3>4
  <2>3. Len(queue') < QueueMax
    BY <1>4, <2>1, <2>2
  <2> QED BY <1>3, <2>1, <2>3 DEF LoadsSame
<1>9. CASE EndOfCycle
  <2>1. /\ isr.pc = "send" /\ isr'.pc = "idle" /\ queue' = queue
        /\ \A t \in Trains : train'[t].write_index = 0
    BY <1>9 DEF EndOfCycle
  <2> QED BY <1>3, <2>1 DEF CycleInv
<1>10. ASSUME NEW f \in Frames, f = Head(queue), StepOfPush(f)
       PROVE  /\ isr'.pc \in {"idle", "scan"} => \A t \in Trains : train'[t].write_index = 0
              /\ isr'.pc \in {"idle", "send"} => Len(queue') < QueueMax
              /\ isr'.pc = "push" /\ Len(queue') = QueueMax => m = FirstLocals
              /\ \A t \in Trains : train'[t].write_index <= Room(m, t)
  BY <1>4, <1>7, <1>10
<1> QED BY <1>5, <1>6, <1>8, <1>9, <1>10, CycleSteps

LEMMA CycleHolds ==
    ASSUME OneSlotEach
    PROVE  Spec => []CycleInv
<1>1. Init => CycleInv
  BY InitType, InitCycle
<1>2. TypeInv /\ TypeInv' /\ CycleInv /\ [Next]_vars => CycleInv'
  BY NextCycle
<1> QED BY <1>1, <1>2, TypesHold, PTL DEF Spec

\* When every frame names one slot, and a train has a car for each port and one
\* for the internal network, nothing that has an address is lost on its way out
\* (send_to_ethernet, push_enet_frm_to_pcie).
THEOREM NothingWithAddressLost ==
    ASSUME OneSlotEach, CarsForPorts
    PROVE  Spec => []NothingLost
<1>1. Init => NothingLost
  BY DEF Init, NothingLost
<1>2. ASSUME TypeInv, CycleInv, NothingLost, [Next]_vars
      PROVE  NothingLost'
  <2>1. CASE StepElsewhere \/ EndOfPush \/ EndOfCycle
    BY <1>2, <2>1 DEF StepElsewhere, EndOfPush, EndOfCycle, NothingLost
  <2>2. CASE StepOfScan
    <3>1. isr.pc = "idle" => Len(queue) < QueueMax
      BY <1>2 DEF CycleInv
    <3> QED BY <1>2, <2>2, <3>1 DEF StepOfScan, NothingLost
  <2>3. ASSUME NEW f \in Frames, f = Head(queue), StepOfPush(f)
        PROVE  NothingLost'
    <3>1. PICK N \in Locals : N = Noted(f)
      BY <1>2, NotedFields DEF TypeInv
    <3>2. N.tx_cfg \in Trains /\ Room(isr.locals, N.tx_cfg) <= Cardinality(Ports)
      BY <1>2, <2>3, <3>1, FrameMakesRoom DEF StepOfPush
    <3>3. train[N.tx_cfg].write_index <= Room(isr.locals, N.tx_cfg)
      BY <1>2, <3>2 DEF CycleInv
    <3>4. /\ train[N.tx_cfg].write_index \in Nat /\ Room(isr.locals, N.tx_cfg) \in Nat
          /\ Cardinality(Ports) \in Nat /\ CarNum \in Nat
      BY <1>2, <3>2, TrainFields, RoomIs, LocalsOf, EnetTxAssumption DEF TypeInv
    <3>5. train[N.tx_cfg].write_index # CarNum
      BY <3>2, <3>3, <3>4 DEF CarsForPorts
    <3>6. PushLoadsFrame(f)
      BY <2>3, <3>1, <3>5 DEF StepOfPush, PushLosesFrame
    <3>7. lost' = lost
      BY <3>6 DEF PushLoadsFrame
    <3> QED BY <1>2, <3>7 DEF NothingLost
  <2> QED BY <1>2, <2>1, <2>2, <2>3, CycleSteps
<1>3. TypeInv /\ CycleInv /\ NothingLost /\ [Next]_vars => NothingLost'
  BY <1>2
<1> QED BY <1>1, <1>3, TypesHold, CycleHolds, PTL DEF Spec

-----------------------------------------------------------------------------
(* One frame of a cycle for a port.                                        *)

\* What the interrupt knows of a frame in a car: its ports are used, or the
\* internal network's frame has been sent.
Recorded(f, l) == IF IsLan(f) THEN l.has_sent_inet_frame
                  ELSE \A k \in FrameSlots : f.kind.mask[k] \subseteq l.used_ports[k]

Apart(f, g) == /\ \A k \in FrameSlots : f.kind.mask[k] \cap g.kind.mask[k] = {}
               /\ ~ (IsLan(f) /\ IsLan(g))

AllRecorded(cars, l) == \A t \in Trains : \A i \in 1 .. Len(cars[t]) : Recorded(cars[t][i], l)
AllApart(cars) ==
    \A t, u \in Trains : \A i \in 1 .. Len(cars[t]), j \in 1 .. Len(cars[u]) :
       t # u \/ i # j => Apart(cars[t][i], cars[u][j])

Cars == [t \in Trains |-> FilledCars(t)]

PortsInv == AllRecorded(Cars, isr.locals) /\ AllApart(Cars)

LEMMA FrameApart ==
    ASSUME OneSlotEach, TypeInv, NEW f \in Frames, MayGo(f), NEW g \in Frames,
           Recorded(g, isr.locals)
    PROVE  Apart(g, f) /\ Apart(f, g)
<1>1. f.kind \in Kinds /\ g.kind \in Kinds
  BY FrameFields
<1>2. CASE IsLan(f) /\ IsLan(g)
  BY <1>2 DEF MayGo, Recorded
<1>3. ASSUME NEW x \in Frames, NEW y \in Frames, IsLan(x), ~ IsLan(y)
      PROVE  \A k \in FrameSlots : x.kind.mask[k] \cap y.kind.mask[k] = {}
  <2>1. x.kind \in Kinds /\ y.kind \in Kinds
    BY FrameFields
  <2>2. \A k \in 2 .. 4 : x.kind.mask[k] = {}
    BY <1>3, <2>1 DEF OneSlotEach, IsLan
  <2>3. PICK slot \in 2 .. 4 : \A k \in FrameSlots : y.kind.mask[k] # {} <=> k = slot
    BY <1>3, <2>1 DEF OneSlotEach, IsLan
  <2>4. y.kind.mask[1] = {}
    BY <2>3 DEF FrameSlots
  <2>5. \A k \in FrameSlots : k = 1 \/ k \in 2 .. 4
    BY DEF FrameSlots
  <2> QED BY <2>2, <2>4, <2>5
<1>4. CASE IsLan(f) /\ ~ IsLan(g)
  BY <1>3, <1>4 DEF Apart
<1>5. CASE ~ IsLan(f) /\ IsLan(g)
  BY <1>3, <1>5 DEF Apart
<1>6. CASE ~ IsLan(f) /\ ~ IsLan(g)
  <2>1. PICK slot \in 2 .. 4 : \A k \in FrameSlots : f.kind.mask[k] # {} <=> k = slot
    BY <1>1, <1>6 DEF OneSlotEach, IsLan
  <2>2. /\ f.kind.mask[1] = {} /\ slot \in FrameSlots
        /\ slot # 2 => f.kind.mask[2] = {}
        /\ slot # 3 => f.kind.mask[3] = {}
        /\ slot # 4 => f.kind.mask[4] = {}
        /\ slot = 2 \/ slot = 3 \/ slot = 4
    BY <2>1 DEF FrameSlots
  <2>3. CheckedSlot(f) = slot
    <3>1. f.kind.mask[slot] # {}
      BY <2>1, <2>2
    <3> QED BY <2>2, <3>1, CheckedSlotIs
  <2>4. isr.locals.used_ports[slot] \cap f.kind.mask[slot] = {}
    BY <1>6, <2>3 DEF MayGo
  <2>5. g.kind.mask[slot] \subseteq isr.locals.used_ports[slot]
    BY <1>6, <2>2 DEF Recorded
  <2>6. g.kind.mask[slot] \cap f.kind.mask[slot] = {}
    BY <2>4, <2>5
  <2>7. \A k \in FrameSlots : k # slot => f.kind.mask[k] = {}
    BY <2>1
  <2> QED BY <1>6, <2>6, <2>7 DEF Apart
<1> QED BY <1>2, <1>4, <1>5, <1>6

LEMMA FrameRecorded ==
    ASSUME OneSlotEach, TypeInv, NEW f \in Frames, NEW N \in Locals, N = Noted(f)
    PROVE  /\ Recorded(f, N)
           /\ \A g \in Frames : Recorded(g, isr.locals) => Recorded(g, N)
<1>1. /\ \A k \in FrameSlots : N.used_ports[k] = IF k \in {1, LaterSlot(f)}
                                                 THEN isr.locals.used_ports[k] \cup f.kind.mask[k]
                                                 ELSE isr.locals.used_ports[k]
      /\ N.has_sent_inet_frame = (isr.locals.has_sent_inet_frame \/ IsLan(f))
  BY NotedFields DEF TypeInv
<1>2. \A g \in Frames : Recorded(g, isr.locals) => Recorded(g, N)
  BY <1>1 DEF Recorded
<1>3. CASE IsLan(f)
  BY <1>1, <1>3 DEF Recorded
<1>4. CASE ~ IsLan(f)
  <2>1. f.kind \in Kinds
    BY FrameFields
  <2>2. PICK slot \in 2 .. 4 : \A k \in FrameSlots : f.kind.mask[k] # {} <=> k = slot
    BY <1>4, <2>1 DEF OneSlotEach, IsLan
  <2>3. /\ slot \in FrameSlots /\ f.kind.mask[slot] # {}
        /\ slot # 2 => f.kind.mask[2] = {}
        /\ slot # 3 => f.kind.mask[3] = {}
        /\ slot = 2 \/ slot = 3 \/ slot = 4
    BY <2>2 DEF FrameSlots
  <2>4. LaterSlot(f) = slot
    BY <2>3, LaterSlotIs
  <2>5. f.kind.mask[slot] \subseteq N.used_ports[slot]
    BY <1>1, <2>3, <2>4
  <2>6. \A k \in FrameSlots : f.kind.mask[k] \subseteq N.used_ports[k]
    BY <2>2, <2>5
  <2>7. Recorded(f, N)
    BY <1>4, <2>6 DEF Recorded
  <2> QED BY <1>2, <2>7
<1> QED BY <1>3, <1>4

\* One more car is filled, with a frame that may go.
LEMMA CarAdded ==
    ASSUME OneSlotEach, TypeInv, NEW f \in Frames, MayGo(f), NEW N \in Locals, N = Noted(f),
           NEW G \in [Trains -> Seq(Frames)], NEW H \in [Trains -> Seq(Frames)],
           AllRecorded(G, isr.locals), AllApart(G),
           NEW t \in Trains, H[t] = Append(G[t], f), \A u \in Trains \ {t} : H[u] = G[u]
    PROVE  AllRecorded(H, N) /\ AllApart(H)
<1>1. PICK n \in Nat : n = Len(G[t])
  OBVIOUS
<1>2. PICK m \in Nat : m = n + 1
  OBVIOUS
<1>3. Len(H[t]) = m /\ H[t][m] = f /\ \A i \in 1 .. n : H[t][i] = G[t][i]
  BY <1>1, <1>2
<1>4. \A i \in 1 .. m : i = m \/ i \in 1 .. n
  BY <1>2
<1>5. \A u \in Trains : \A i \in 1 .. Len(H[u]) :
        \/ u = t /\ i = m
        \/ i \in 1 .. Len(G[u]) /\ H[u][i] = G[u][i]
  BY <1>1, <1>3, <1>4
<1>6. \A u \in Trains : \A i \in 1 .. Len(G[u]) : G[u][i] \in Frames /\ Recorded(G[u][i], isr.locals)
  BY DEF AllRecorded
<1>7. \A u \in Trains : \A i \in 1 .. Len(G[u]) :
        /\ Recorded(G[u][i], N) /\ Apart(G[u][i], f) /\ Apart(f, G[u][i])
  BY <1>6, FrameApart, FrameRecorded
<1>8. Recorded(f, N)
  BY FrameRecorded
<1>9. AllRecorded(H, N)
  BY <1>3, <1>5, <1>7, <1>8 DEF AllRecorded
<1>10. ASSUME NEW u \in Trains, NEW v \in Trains, NEW i \in 1 .. Len(H[u]), NEW j \in 1 .. Len(H[v]),
              u # v \/ i # j
       PROVE  Apart(H[u][i], H[v][j])
  <2>1. CASE u = t /\ i = m
    <3>1. ~ (v = t /\ j = m)
      BY <1>10, <2>1
    <3>2. j \in 1 .. Len(G[v]) /\ H[v][j] = G[v][j]
      BY <1>5, <3>1
    <3> QED BY <1>3, <1>7, <2>1, <3>2
  <2>2. CASE ~ (u = t /\ i = m)
    <3>1. i \in 1 .. Len(G[u]) /\ H[u][i] = G[u][i]
      BY <1>5, <2>2
    <3>2. CASE v = t /\ j = m
      BY <1>3, <1>7, <3>1, <3>2
    <3>3. CASE ~ (v = t /\ j = m)
      <4>1. j \in 1 .. Len(G[v]) /\ H[v][j] = G[v][j]
        BY <1>5, <3>3
      <4> QED BY <1>10, <3>1, <4>1 DEF AllApart
    <3> QED BY <3>2, <3>3
  <2> QED BY <2>1, <2>2
<1> QED BY <1>9, <1>10 DEF AllApart

LEMMA NoCars ==
    ASSUME NEW G, \A t \in Trains : Len(G[t]) = 0
    PROVE  AllApart(G) /\ \A l : AllRecorded(G, l)
  BY DEF AllApart, AllRecorded

LEMMA InitPorts == TypeInv /\ Init => PortsInv
<1> SUFFICES ASSUME TypeInv, Init PROVE PortsInv
  OBVIOUS
<1>1. \A t \in Trains : Len(Cars[t]) = 0
  BY Loads DEF Cars, Init
<1> QED BY <1>1, NoCars DEF PortsInv

LEMMA NextPorts ==
    ASSUME OneSlotEach, TypeInv, CycleInv, PortsInv, [Next]_vars
    PROVE  PortsInv'
<1>1. PICK G \in [Trains -> Seq(Frames)] : G = Cars
  BY Loads DEF Cars
<1>2. AllRecorded(G, isr.locals) /\ AllApart(G)
  BY <1>1 DEF PortsInv
<1>3. \A t \in Trains : G[t] = FilledCars(t) /\ Len(G[t]) = train[t].write_index
  BY <1>1, Loads DEF Cars
<1>4. PICK H : H = [t \in Trains |-> FilledCars(t)']
  OBVIOUS
<1>5. PICK m : m = isr'.locals
  OBVIOUS
<1> SUFFICES AllRecorded(H, m) /\ AllApart(H)
  BY <1>4, <1>5 DEF PortsInv, AllRecorded, AllApart, Cars, Recorded
<1>6. ASSUME LoadsSame
      PROVE  H = G
  BY <1>1, <1>4, <1>6 DEF LoadsSame, Cars
<1>7. CASE StepElsewhere
  BY <1>2, <1>5, <1>6, <1>7 DEF StepElsewhere
<1>8. CASE StepOfScan
  <2>1. H = G /\ \A t \in Trains : Len(G[t]) = 0
    BY <1>3, <1>6, <1>8 DEF StepOfScan, CycleInv
  <2> QED BY <2>1, NoCars
<1>9. ASSUME NEW f \in Frames, f = Head(queue), StepOfPush(f)
      PROVE  AllRecorded(H, m) /\ AllApart(H)
  <2>1. PICK N \in Locals : N = Noted(f) /\ N = m /\ MayGo(f)
    BY <1>5, <1>9, NotedFields DEF StepOfPush, TypeInv
  <2>2. CASE PushLosesFrame(f)
    <3>1. H = G
      BY <1>6, <2>2, TrainKept DEF PushLosesFrame
    <3>2. \A t \in Trains : \A i \in 1 .. Len(G[t]) : G[t][i] \in Frames
      BY <1>1
    <3>3. AllRecorded(G, N)
      BY <1>2, <2>1, <3>2, FrameRecorded DEF AllRecorded
    <3> QED BY <1>2, <2>1, <3>1, <3>3
  <2>3. CASE PushLoadsFrame(f)
    <3>1. PICK t \in Trains : Loaded(t, f)
      BY <2>3 DEF PushLoadsFrame
    <3>2. H[t] = Append(G[t], f) /\ \A u \in Trains \ {t} : H[u] = G[u]
      BY <1>3, <1>4, <3>1 DEF Loaded
    <3>3. H \in [Trains -> Seq(Frames)]
      <4>1. \A u \in Trains : H[u] \in Seq(Frames)
        BY <1>1, <3>2, Appended
      <4> QED BY <1>4, <4>1
    <3> QED BY <1>2, <2>1, <3>2, <3>3, CarAdded
  <2> QED BY <1>9, <2>2, <2>3 DEF StepOfPush
<1>10. CASE EndOfPush
  BY <1>2, <1>5, <1>6, <1>10 DEF EndOfPush
<1>11. CASE EndOfCycle
  <2>1. \A t \in Trains : H[t] = <<>>
    BY <1>4, <1>11 DEF EndOfCycle
  <2>2. \A t \in Trains : Len(H[t]) = 0
    BY <2>1
  <2> QED BY <2>2, NoCars
<1> QED BY <1>7, <1>8, <1>9, <1>10, <1>11, CycleSteps

LEMMA PortsHold ==
    ASSUME OneSlotEach
    PROVE  Spec => []PortsInv
<1>1. Init => PortsInv
  BY InitType, InitPorts
<1>2. TypeInv /\ CycleInv /\ PortsInv /\ [Next]_vars => PortsInv'
  BY NextPorts
<1> QED BY <1>1, <1>2, TypesHold, CycleHolds, PTL DEF Spec

\* When every frame names one slot, a port sends one frame of a cycle at most,
\* and the internal network too (dequeue_pcie_enet_frame, used_ports,
\* has_sent_inet_frame).
THEOREM OneFrameForAPort ==
    ASSUME OneSlotEach
    PROVE  Spec => []OneFramePerPort
<1>1. ASSUME TypeInv, PortsInv
      PROVE  OneFramePerPort
  <2>1. \A t \in Trains : Cars[t] = FilledCars(t) /\ DOMAIN FilledCars(t) = 1 .. Len(FilledCars(t))
    BY <1>1, Loads DEF Cars
  <2> SUFFICES ASSUME NEW x \in Filled, NEW y \in Filled, x # y
               PROVE  Apart(x.f, y.f)
    BY DEF OneFramePerPort, Apart
  <2>2. PICK t \in Trains : \E i \in 1 .. Len(FilledCars(t)) :
           x = [train |-> t, i |-> i, f |-> FilledCars(t)[i]]
    BY <2>1 DEF Filled
  <2>3. PICK i \in 1 .. Len(FilledCars(t)) : x = [train |-> t, i |-> i, f |-> FilledCars(t)[i]]
    BY <2>2
  <2>4. PICK u \in Trains : \E n \in 1 .. Len(FilledCars(u)) :
           y = [train |-> u, i |-> n, f |-> FilledCars(u)[n]]
    BY <2>1 DEF Filled
  <2>5. PICK j \in 1 .. Len(FilledCars(u)) : y = [train |-> u, i |-> j, f |-> FilledCars(u)[j]]
    BY <2>4
  <2>6. t # u \/ i # j
    BY <2>3, <2>5
  <2>7. Apart(Cars[t][i], Cars[u][j])
    BY <1>1, <2>1, <2>6 DEF PortsInv, AllApart
  <2> QED BY <2>1, <2>3, <2>5, <2>7
<1>2. TypeInv /\ PortsInv => OneFramePerPort
  BY <1>1
<1> QED BY <1>2, TypesHold, PortsHold, PTL
=============================================================================
