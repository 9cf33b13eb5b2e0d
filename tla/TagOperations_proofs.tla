-------------------------- MODULE TagOperations_proofs --------------------------
(***************************************************************************)
(* The operations on the tags, for every value of the constants of         *)
(* TagOperations: the steps on a type 4 tag, and what follows of all types *)
(* from the invariants: SuccessMeansDone, ReadIsCurrent, WriteSucceeds and *)
(* the implementation of NdefTag.                                          *)
(***************************************************************************)
EXTENDS TagTypes_proofs

(* Type 4.                                                                  *)

(* The module of type 4 says of the session what TagSession says.           *)
LEMMA T4Session ==
  /\ T4!Busy <=> Busy
  /\ T4!Head1 = Head1
  /\ \A c, t, s : T4!Go(c, t, s) = Go(c, t, s)
  /\ \A x : T4!Reply(x) = Reply(x)
  /\ \A g : T4!Lost(g) = Lost(g)
  /\ \A s, n : T4!Stored(s, n) = Stored(s, n)
<1>1. \A c, t, s : T4!Go(c, t, s) = Go(c, t, s)
  BY Zenon DEF T4!Go, Go
<1>2. \A s, n : T4!Stored(s, n) = Stored(s, n)
  BY Zenon DEF T4!Stored, Stored
<1>3. (T4!Busy <=> Busy) /\ T4!Head1 = Head1
  BY DEF T4!Busy, Busy, T4!Head1, Head1
<1>4. (\A x : T4!Reply(x) = Reply(x)) /\ \A g : T4!Lost(g) = Lost(g)
  BY DEF T4!Reply, Reply, T4!Lost, Lost
<1> QED BY <1>1, <1>2, <1>3, <1>4, Zenon

(* The module of type 4 begins and refuses operations as TagSession does.   *)
LEMMA T4Calls ==
  ASSUME NEW op, NEW m, NEW t
  PROVE  (T4!Start(op, m, t) <=> Start(op, m, t)) /\ (T4!Refuse(op, m, t) <=> Refuse(op, m, t))
BY Zenon DEF T4!Start, Start, T4!Refuse, Refuse

(* The message on a tag.                                                    *)
T4Holds(t) == IF t.app /\ t.cc = "valid" /\ t.file THEN Stored(t.cells, t.len) ELSE None

(* The message on a tag of type 4.                                          *)
LEMMA T4ContentIs ==
  /\ T4!Content = T4Holds(tag) /\ T4!Content' = T4Holds(tag')
  /\ \A t : (T4Shape(t) /\ t.cc # "valid") \/ t.len = 0 => T4Holds(t) = None
  /\ \A t : T4Shape(t) /\ t.cc = "valid" => T4Holds(t) = Stored(t.cells, t.len)
<1>1. T4!Content = T4Holds(tag) /\ T4!Content' = T4Holds(tag')
  BY T4Session, Zenon DEF T4!Content, T4Holds
<1>2. \A t : (T4Shape(t) /\ t.cc # "valid") \/ t.len = 0 => T4Holds(t) = None
  BY StoredNothing DEF T4Holds
<1>3. \A t : T4Shape(t) /\ t.cc = "valid" => T4Holds(t) = Stored(t.cells, t.len)
  BY DEF T4Holds, T4Shape
<1> QED BY <1>1, <1>2, <1>3

(* Creating the files, the j-th command before the end.                     *)
T4Creating(j) ==
  /\ call.op \in {"check", "format"} /\ call.msg = None
  /\ j \in 1 .. 7 /\ Head1 = T4Creates(j) /\ T4Created(j)

(* The commands that create the files.                                      *)
LEMMA T4CreatesAre ==
  /\ T4Creates(1) = C("SelectMaster", 0) /\ T4Creates(2) = C("WriteLen", 0)
  /\ T4Creates(3) = C("WriteCc", 0) /\ T4Creates(4) = C("CreateFile", 0)
  /\ T4Creates(5) = C("CreateCc", 0) /\ T4Creates(6) = C("SelectCreated", 0)
  /\ T4Creates(7) = C("CreateApp", 0)
BY DEF T4Creates

(* The command a format is at that creates the files.                       *)
LEMMA T4CreatingHead ==
  ASSUME NEW j, T4Creating(j)
  PROVE  \/ j = 1 /\ Head1 = C("SelectMaster", 0)
         \/ j = 2 /\ Head1 = C("WriteLen", 0)
         \/ j = 3 /\ Head1 = C("WriteCc", 0)
         \/ j = 4 /\ Head1 = C("CreateFile", 0)
         \/ j = 5 /\ Head1 = C("CreateCc", 0)
         \/ j = 6 /\ Head1 = C("SelectCreated", 0)
         \/ j = 7 /\ Head1 = C("CreateApp", 0)
<1>1. \/ j = 1 \/ j = 2 \/ j = 3 \/ j = 4 \/ j = 5 \/ j = 6 \/ j = 7
  BY DEF T4Creating
<1> QED BY <1>1, T4CreatesAre DEF T4Creating

(* The command at the head of a plan.                                       *)
LEMMA T4CheckHead ==
  ASSUME CallOK, Busy, T4Checking, NEW left, left = Left
  PROVE  \/ left = 1 /\ Head1 = C("SelectMaster", 0)
         \/ left = 2 /\ Head1 = C("CheckLen", 0)
         \/ left = 3 /\ Head1 = C("SelectFile", 0)
         \/ left = 4 /\ Head1 = C("CheckCc", 0)
         \/ left = 5 /\ Head1 = C("SelectCc", 0)
         \/ left = 6 /\ Head1 = C("SelectApp", 0) /\ Follows(call.todo, T4CheckPlan("SelectApp"))
         \/ left = 6 /\ Head1 = C("SelectAppAgain", 0)
         \/ left \in 7 .. 13 /\ T4Creating(left - 6)
<1>0. /\ \A plan : Follows(call.todo, plan) => Head1 = plan[left]
      /\ left \in Nat /\ left > 0
  BY Heading, FollowsTail DEF Head1, Left
<1>1. ASSUME NEW f, left \in 1 .. 6, Head1 = T4CheckPlan(f)[left]
      PROVE  \/ left = 1 /\ Head1 = C("SelectMaster", 0)
             \/ left = 2 /\ Head1 = C("CheckLen", 0)
             \/ left = 3 /\ Head1 = C("SelectFile", 0)
             \/ left = 4 /\ Head1 = C("CheckCc", 0)
             \/ left = 5 /\ Head1 = C("SelectCc", 0)
             \/ left = 6 /\ Head1 = C(f, 0)
  BY <1>1 DEF T4CheckPlan
<1>2. CASE Left <= 6 /\ Follows(call.todo, T4CheckPlan("SelectApp"))
  <2>1. left \in 1 .. 6 /\ Head1 = T4CheckPlan("SelectApp")[left]
    BY <1>0, <1>2
  <2> QED BY <1>1, <1>2, <2>1
<1>3. CASE Left <= 13 /\ Follows(call.todo, T4CheckPlan("SelectAppAgain")) /\ T4Created(Left - 6)
  <2>1. left \in 1 .. 13 /\ Head1 = T4CheckPlan("SelectAppAgain")[left]
    BY <1>0, <1>3
  <2>2. CASE left <= 6
    BY <1>1, <2>1, <2>2
  <2>3. CASE ~(left <= 6)
    <3>1. left \in 7 .. 13 /\ left - 6 \in 1 .. 7
      BY <2>1, <2>3
    <3>2. Head1 = T4Creates(left - 6)
      BY <2>1, <3>1 DEF T4CheckPlan
    <3> QED BY <1>3, <3>1, <3>2 DEF T4Creating, T4Checking
  <2> QED BY <2>2, <2>3
<1> QED BY <1>2, <1>3 DEF T4Checking

(* An erase, or the format of a tag that has its files.                     *)
T4Wiping(z, left) ==
  /\ call.op \in {"format", "erase"} /\ call.msg = None
  /\ z = Pieces /\ z \in Nat /\ z > 0 /\ left = Left /\ left \in 1 .. z + 5
  /\ Follows(call.todo, T4ErasePlan(z)) /\ (left <= z => tag.len = 0)

(* An erase, and a format of a formatted card, wipe the message.            *)
LEMMA T4Wipes ==
  ASSUME CallOK, Busy, T4Top, call.op \in {"format", "erase"}, call.msg = None, T4Zeroing
  PROVE  T4Wiping(Pieces, Left)
<1>1. top.len \in Nat /\ Left \in Nat /\ Left > 0
  BY Heading, RoomPositive DEF T4Top
<1>2. Pieces \in Nat /\ Pieces > 0
  BY <1>1 DEF Pieces
<1> QED BY <1>1, <1>2 DEF T4Wiping, T4Zeroing

(* The command an erase is at.                                              *)
LEMMA T4WipingHead ==
  ASSUME CallOK, Busy, NEW z, NEW left, T4Wiping(z, left)
  PROVE  \/ left = 1 /\ Head1 = C("SelectMaster", 0)
         \/ left \in 2 .. z + 1 /\ Head1 = C("Zero", z + 2 - left)
         \/ left = z + 2 /\ Head1 = C("SelectFile", 0)
         \/ left = z + 3 /\ Head1 = C("ReadCc", 0)
         \/ left = z + 4 /\ Head1 = C("SelectCc", 0)
         \/ left = z + 5 /\ Head1 = C("SelectApp", 0)
<1>1. left \in 1 .. z + 5 /\ Head1 = T4ErasePlan(z)[left] /\ z \in Nat /\ z > 0
  BY Heading, FollowsTail DEF T4Wiping, Head1, Left
<1> QED BY <1>1 DEF T4ErasePlan

(* A write.                                                                 *)
T4Storing(m, n, b, left) ==
  /\ call.op = "write" /\ call.msg = m /\ m \in Messages /\ n = Size[m] /\ n \in Nat /\ n > 0
  /\ b = After /\ b \in {1, 3} /\ (b = 3 <=> top.wa = "RO")
  /\ left = Left /\ left \in 1 .. b + n + 6
  /\ Follows(call.todo, T4WritePlan(n, b)) /\ T4Written(m, n, b, left)

(* A write stores its message.                                              *)
LEMMA T4Stores ==
  ASSUME CallOK, Busy, T4Writing
  PROVE  T4Storing(call.msg, Size[call.msg], After, Left)
<1>1. call.msg \in Messages /\ Size[call.msg] \in Nat /\ Size[call.msg] > 0
  BY Sizes DEF T4Writing
<1>2. After \in {1, 3} /\ (After = 3 <=> top.wa = "RO")
  BY DEF After
<1>3. Left \in Nat /\ Left > 0 /\ Left <= After + Size[call.msg] + 6
  BY Heading DEF T4Writing
<1>4. Left \in 1 .. After + Size[call.msg] + 6
  BY <1>1, <1>2, <1>3
<1> QED BY <1>1, <1>2, <1>4 DEF T4Writing, T4Storing

(* The command a write is at.                                               *)
LEMMA T4StoringHead ==
  ASSUME CallOK, Busy, NEW m, NEW n, NEW b, NEW left, T4Storing(m, n, b, left)
  PROVE  \/ left = 1 /\ Head1 = C("SelectMaster", 0)
         \/ b = 3 /\ left = 2 /\ Head1 = C("UpdateCc", 0)
         \/ b = 3 /\ left = 3 /\ Head1 = C("SelectCc", 0)
         \/ left = b + 1 /\ Head1 = C("UpdateLen", n)
         \/ left \in b + 2 .. b + n + 1 /\ Head1 = C("Update", b + n + 2 - left)
         \/ left = b + n + 2 /\ Head1 = C("UpdateLen", 0)
         \/ left = b + n + 3 /\ Head1 = C("SelectFile", 0)
         \/ left = b + n + 4 /\ Head1 = C("ReadAccess", 0)
         \/ left = b + n + 5 /\ Head1 = C("SelectCc", 0)
         \/ left = b + n + 6 /\ Head1 = C("SelectApp", 0)
<1>1. /\ left \in 1 .. b + n + 6 /\ Head1 = T4WritePlan(n, b)[left]
      /\ n \in Nat /\ n > 0 /\ b \in {1, 3}
  BY Heading, FollowsTail DEF T4Storing, Head1, Left
<1> QED BY <1>1 DEF T4WritePlan

(* The command a read is at.                                                *)
LEMMA T4ReadHead ==
  ASSUME CallOK, Busy, T4Top, T4Reading, NEW l, l = top.len, NEW left, left = Left
  PROVE  /\ l \in 0 .. Room /\ Room \in Nat /\ left \in 1 .. l + 6
         /\ \/ left = 1 /\ Head1 = C("SelectMaster", 0)
            \/ left \in 2 .. l + 1 /\ Head1 = C("Read", l + 2 - left)
            \/ left = l + 2 /\ Head1 = C("ReadLen", 0)
            \/ left = l + 3 /\ Head1 = C("SelectFile", 0)
            \/ left = l + 4 /\ Head1 = C("ReadCc", 0)
            \/ left = l + 5 /\ Head1 = C("SelectCc", 0)
            \/ left = l + 6 /\ Head1 = C("SelectApp", 0)
<1>1. l \in 0 .. Room /\ Room \in Nat /\ left \in 1 .. l + 6
  BY Heading, RoomPositive DEF T4Reading, T4Top
<1>2. Head1 = T4ReadPlan(l)[left]
  BY Heading, FollowsTail DEF T4Reading, Head1, Left
<1> QED BY <1>1, <1>2 DEF T4ReadPlan

(* The command a format is at.                                              *)
LEMMA T4FormatHead ==
  ASSUME CallOK, Busy, T4Top, T4Formatting
  PROVE  T4Wiping(Pieces, Left) \/ (T4Creating(Left) /\ Follows(call.todo, T4FormatPlan))
<1>0. /\ \A plan : Follows(call.todo, plan) => Head1 = plan[Left]
      /\ Left \in Nat /\ Left > 0
  BY Heading, FollowsTail DEF Head1, Left
<1>1. CASE T4Zeroing
  BY <1>1, T4Wipes DEF T4Formatting
<1>2. CASE Left <= 7 /\ Follows(call.todo, T4FormatPlan) /\ T4Created(Left)
  <2>1. Left \in 1 .. 7
    BY <1>0, <1>2
  <2>2. Head1 = T4Creates(Left)
    BY <1>0, <1>2, <2>1 DEF T4FormatPlan
  <2> QED BY <1>2, <2>1, <2>2 DEF T4Creating, T4Formatting
<1> QED BY <1>1, <1>2 DEF T4Formatting

(* Who sends a command that changes the files.                              *)
LEMMA T4Sends ==
  ASSUME CallOK, Busy, T4Top, T4Doing
  PROVE  LET m == call.msg
             n == Size[call.msg] IN
         /\ Head1.name \in {"CreateApp", "SelectCreated", "CreateCc", "CreateFile", "WriteCc", "WriteLen"} =>
              \E j \in 1 .. 7 : T4Creating(j)
         /\ Head1.name \in {"Update", "UpdateLen"} => T4Storing(m, n, After, Left)
         /\ Head1.name = "Zero" => T4Wiping(Pieces, Left) /\ Left \in 2 .. Pieces + 1 /\ Head1.k = Pieces + 2 - Left
         /\ Head1.name = "Read" => T4Reading /\ Head1.k \in 1 .. top.len
<1>1. CASE T4Checking
  <2>1. PICK left : left = Left
    OBVIOUS
  <2>2. CASE left \in 7 .. 13 /\ T4Creating(left - 6)
    <3>1. PICK j \in 1 .. 7 : T4Creating(j)
      BY <2>2 DEF T4Creating
    <3>2. Head1.name \notin {"Update", "UpdateLen", "Zero", "Read"}
      BY <3>1, T4CreatingHead DEF C
    <3> QED BY <3>1, <3>2
  <2>3. CASE ~(left \in 7 .. 13 /\ T4Creating(left - 6))
    <3>1. Head1.name \in {"SelectMaster", "CheckLen", "SelectFile", "CheckCc", "SelectCc", "SelectApp",
                          "SelectAppAgain"}
      BY <1>1, <2>1, <2>3, T4CheckHead DEF C
    <3> QED BY <3>1
  <2> QED BY <2>2, <2>3
<1>2. ASSUME T4Wiping(Pieces, Left)
      PROVE  /\ Head1.name \in {"SelectMaster", "Zero", "SelectFile", "ReadCc", "SelectCc", "SelectApp"}
             /\ Head1.name = "Zero" => Left \in 2 .. Pieces + 1 /\ Head1.k = Pieces + 2 - Left
  <2>1. PICK z, left : z = Pieces /\ left = Left
    OBVIOUS
  <2> QED BY <1>2, <2>1, T4WipingHead DEF C
<1>3. CASE T4Formatting
  <2>1. CASE T4Wiping(Pieces, Left)
    BY <1>2, <2>1
  <2>2. CASE T4Creating(Left)
    <3>1. PICK j \in 1 .. 7 : T4Creating(j)
      BY <2>2 DEF T4Creating
    <3>2. Head1.name \notin {"Update", "UpdateLen", "Zero", "Read"}
      BY <3>1, T4CreatingHead DEF C
    <3> QED BY <3>1, <3>2
  <2> QED BY <1>3, <2>1, <2>2, T4FormatHead
<1>4. CASE T4Writing
  <2>1. PICK m, n, b, left : /\ m = call.msg /\ n = Size[call.msg] /\ b = After /\ left = Left
                             /\ T4Storing(m, n, b, left)
    BY <1>4, T4Stores
  <2>2. Head1.name \in {"SelectMaster", "UpdateCc", "SelectCc", "UpdateLen", "Update", "SelectFile",
                        "ReadAccess", "SelectApp"}
    BY <2>1, T4StoringHead DEF C
  <2> QED BY <2>1, <2>2
<1>5. CASE T4Erasing
  <2>1. T4Wiping(Pieces, Left)
    BY <1>5, T4Wipes DEF T4Erasing
  <2> QED BY <1>2, <2>1
<1>6. CASE T4Reading
  <2>1. PICK l, left : l = top.len /\ left = Left
    OBVIOUS
  <2>2. /\ Head1.name \in {"SelectMaster", "Read", "ReadLen", "SelectFile", "ReadCc", "SelectCc", "SelectApp"}
        /\ Head1.name = "Read" => Head1.k \in 1 .. l
    BY <1>6, <2>1, T4ReadHead DEF C
  <2> QED BY <1>6, <2>1, <2>2
<1> QED BY <1>1, <1>3, <1>4, <1>5, <1>6 DEF T4Doing

-----------------------------------------------------------------------------
(* What a command does to the files, and to the message in them.            *)

(* The commands that create files or write what a new file holds.           *)
Creators == {"CreateApp", "CreateCc", "CreateFile", "WriteCc", "WriteLen"}

(* The commands that select an application or a file.                       *)
Selects == {"SelectApp", "SelectAppAgain", "SelectCreated", "SelectCc", "SelectFile", "SelectMaster"}

(* A card that a command of the call may leave: it is one, and what         *)
(* became of its message is what the call may do to it.                     *)
T4Does(t) == T4Shape(t) /\ Effect(call, T4Holds(tag), None, T4Holds(t), None)

(* The content of the files is as before.                                   *)
LEMMA T4Same ==
  ASSUME T4Shape(tag), NEW t, T4Shape(t),
         \/ t.cc = tag.cc /\ t.len = tag.len /\ t.cells = tag.cells
         \/ tag.len = 0 /\ t.len = 0
  PROVE  T4Holds(t) = T4Holds(tag) /\ T4Does(t)
<1>1. T4Holds(t) = T4Holds(tag)
  BY T4ContentIs
<1> QED BY <1>1 DEF T4Does, Effect

(* A select changes what is selected, not the message.                      *)
LEMMA T4SelectDoes ==
  ASSUME T4Shape(tag), NEW d \in {"master", "app"}, NEW e \in {"none", "cc", "ndef"},
         d = "app" => tag.app, e = "ndef" => tag.cc = "valid",
         NEW t, t = [tag EXCEPT !.dir = d, !.ef = e]
  PROVE  T4Does(t) /\ t.dir = d /\ t.ef = e
<1>1. t.dir = d /\ t.ef = e /\ t.cc = tag.cc /\ t.len = tag.len /\ t.cells = tag.cells
  BY DEF T4Shape
<1>2. t.app = tag.app
  BY DEF T4Shape
<1>3. t.file = tag.file
  BY DEF T4Shape
<1>4. T4Shape(t)
  BY <1>1, <1>2, <1>3 DEF T4Shape
<1> QED BY <1>1, <1>4, T4Same

(* A select leaves a card.                                                  *)
LEMMA T4SelectExecuted ==
  ASSUME T4Inv, Busy, ~call.gone, ~T4!Refuses(Head1), NEW t, t = T4!Execute(Head1),
         Head1.name \in Selects
  PROVE  T4Does(t)
<1>0. T4Shape(tag) /\ tag.dir \in {"master", "app"} /\ tag.ef \in {"none", "cc", "ndef"}
  BY DEF T4Inv, T4Tag, T4Shape
<1>1. CASE Head1.name \in {"SelectApp", "SelectAppAgain", "SelectCreated"}
  <2>1. tag.app
    <3>1. CASE Head1.name = "SelectCreated"
      <4>1. PICK j \in 1 .. 7 : T4Creating(j)
        BY <3>1, T4Sends DEF T4Inv
      <4>2. j = 6
        BY <3>1, <4>1, T4CreatingHead DEF C
      <4> QED BY <4>1, <4>2 DEF T4Creating, T4Created
    <3> QED BY <1>1, <3>1 DEF T4!Refuses, T4!Updates
  <2>2. t = [tag EXCEPT !.dir = "app", !.ef = "none"]
    BY <1>1 DEF T4!Execute
  <2> QED BY <1>0, <2>1, <2>2, T4SelectDoes
<1>2. CASE Head1.name = "SelectMaster"
  <2>1. t = [tag EXCEPT !.dir = "master", !.ef = "none"]
    BY <1>2 DEF T4!Execute
  <2> QED BY <1>0, <2>1, T4SelectDoes
<1>3. CASE Head1.name = "SelectCc"
  <2>1. t = [tag EXCEPT !.dir = tag.dir, !.ef = "cc"]
    BY <1>3 DEF T4!Execute, T4Inv, T4Tag, T4Shape
  <2>2. tag.dir = "app" => tag.app
    BY <1>0 DEF T4Shape
  <2> QED BY <1>0, <2>1, <2>2, T4SelectDoes
<1>4. CASE Head1.name = "SelectFile"
  <2>1. t = [tag EXCEPT !.dir = tag.dir, !.ef = "ndef"]
    BY <1>4 DEF T4!Execute, T4Inv, T4Tag, T4Shape
  <2>2. (tag.dir = "app" => tag.app) /\ tag.cc = "valid"
    BY <1>0, <1>4 DEF T4Shape, T4!Refuses
  <2> QED BY <1>0, <2>1, <2>2, T4SelectDoes
<1> QED BY <1>1, <1>2, <1>3, <1>4 DEF Selects

(* So does a command that creates a file: it leaves no message.             *)
LEMMA T4CreatorExecuted ==
  ASSUME T4Inv, Busy, ~call.gone, ~T4!Refuses(Head1), NEW t, t = T4!Execute(Head1),
         Head1.name \in Creators
  PROVE  T4Does(t) /\ tag.len = 0
<1>0. T4Shape(tag) /\ top.wa \in Access
  BY DEF T4Inv, T4Tag, T4Top
<1>1. PICK j \in 1 .. 7 : T4Creating(j)
  BY T4Sends DEF T4Inv, Creators
<1>2. CASE Head1.name = "CreateApp"
  <2>1. t = [tag EXCEPT !.app = TRUE] /\ ~tag.app
    BY <1>2 DEF T4!Execute, T4!Refuses, T4!Updates
  <2>2. tag.len = 0 /\ t.len = 0 /\ T4Shape(t)
    BY <1>0, <2>1 DEF T4Shape
  <2> QED BY <1>0, <2>2, T4Same
<1>3. CASE Head1.name = "CreateCc"
  <2>1. t = [tag EXCEPT !.cc = "empty"] /\ tag.cc = "absent"
    BY <1>3 DEF T4!Execute, T4!Refuses, T4!Updates
  <2>2. tag.len = 0 /\ t.len = 0 /\ T4Shape(t)
    BY <1>0, <2>1 DEF T4Shape
  <2> QED BY <1>0, <2>2, T4Same
<1>4. CASE Head1.name = "CreateFile"
  <2>1. t = [tag EXCEPT !.file = TRUE] /\ ~tag.file
    BY <1>4 DEF T4!Execute, T4!Refuses, T4!Updates
  <2>2. tag.len = 0 /\ t.len = 0 /\ T4Shape(t)
    BY <1>0, <2>1 DEF T4Shape
  <2> QED BY <1>0, <2>2, T4Same
<1>5. CASE Head1.name = "WriteCc"
  <2>1. t = [tag EXCEPT !.cc = "valid", !.wa = top.wa]
    BY <1>5 DEF T4!Execute
  <2>2. j = 3
    BY <1>1, <1>5, T4CreatingHead DEF C
  <2>3. tag.app /\ tag.file /\ tag.len = 0
    BY <1>1, <2>2 DEF T4Creating, T4Created
  <2>4. t.len = 0 /\ T4Shape(t)
    BY <1>0, <2>1, <2>3 DEF T4Shape
  <2> QED BY <1>0, <2>3, <2>4, T4Same
<1>6. CASE Head1.name = "WriteLen"
  <2>1. t = [tag EXCEPT !.len = 0]
    BY <1>6 DEF T4!Execute
  <2>2. j = 2
    BY <1>1, <1>6, T4CreatingHead DEF C
  <2>3. tag.len = 0
    BY <1>1, <2>2 DEF T4Creating, T4Created
  <2>4. t = tag
    BY <1>0, <2>1, <2>3 DEF T4Shape
  <2> QED BY <1>0, <2>3, <2>4, T4Same
<1> QED BY <1>2, <1>3, <1>4, <1>5, <1>6 DEF Creators

(* The length and the cells.                                                *)
LEMMA T4Unmarks ==
  ASSUME T4Shape(tag), NEW t, T4Shape(t), t.len = 0, call.op \in {"format", "write", "erase"}
  PROVE  T4Does(t)
BY T4ContentIs DEF T4Does, Effect

(* So does an update of the length or of a piece: the message is none, or   *)
(* the one that is written.                                                 *)
LEMMA T4UpdateExecuted ==
  ASSUME T4Inv, Busy, ~call.gone, ~T4!Refuses(Head1), NEW t, t = T4!Execute(Head1),
         Head1.name \in {"Update", "UpdateLen"}
  PROVE  T4Does(t)
<1>0. T4Shape(tag) /\ top.max \in {0, Room} /\ Room \in Nat /\ Area = 1 .. Room + 1
  BY RoomPositive DEF T4Inv, T4Tag, T4Top
<1>1. PICK m, n, b, left : /\ m = call.msg /\ n = Size[m] /\ b = After /\ left = Left
                           /\ T4Storing(m, n, b, left)
  BY T4Sends DEF T4Inv
<1>2. /\ call.op = "write" /\ m \in Messages /\ n \in Nat /\ n > 0 /\ b \in {1, 3}
      /\ T4Written(m, n, b, left)
  BY <1>1 DEF T4Storing
<1>3. tag.cc = "valid"
  BY <1>0 DEF T4!Refuses, T4!Updates, T4Shape
<1>4. CASE left = b + n + 2 /\ Head1 = C("UpdateLen", 0)
  <2>1. t = [tag EXCEPT !.len = 0]
    BY <1>4 DEF T4!Execute, C
  <2>2. t.len = 0 /\ T4Shape(t)
    BY <1>0, <1>3, <2>1 DEF T4Shape
  <2> QED BY <1>0, <1>2, <2>2, T4Unmarks
<1>5. CASE left = b + 1 /\ Head1 = C("UpdateLen", n)
  <2>1. t = [tag EXCEPT !.len = n]
    BY <1>5 DEF T4!Execute, C
  <2>2. n \in 0 .. Room /\ tag.len = 0 /\ \A k \in 1 .. n : tag.cells[k] = m
    <3>1. left \in b + 1 .. b + n + 2 /\ left \in b + 1 .. b + n + 1
      BY <1>2, <1>5
    <3>2. n <= top.max /\ tag.len = 0
      BY <1>2, <3>1 DEF T4Written
    <3>3. ASSUME NEW k \in 1 .. n PROVE left <= b + n + 1 - k
      BY <1>2, <1>5
    <3>4. n \in 0 .. Room
      BY <1>0, <1>2, <3>2
    <3> QED BY <1>2, <3>2, <3>3, <3>4 DEF T4Written
  <2>3. t.len = n /\ t.cells = tag.cells /\ t.cc = "valid" /\ T4Shape(t)
    BY <1>0, <1>3, <2>1, <2>2 DEF T4Shape
  <2>4. T4Holds(t) = m
    <3>1. Stored(t.cells, n) = m
      BY <1>1, <1>2, <2>2, <2>3, StoredWhole
    <3> QED BY <2>3, <3>1, T4ContentIs
  <2> QED BY <1>1, <1>2, <2>3, <2>4 DEF T4Does, Effect
<1>6. CASE left \in b + 2 .. b + n + 1 /\ Head1 = C("Update", b + n + 2 - left)
  <2>1. PICK k : k = b + n + 2 - left
    OBVIOUS
  <2>2. t = [tag EXCEPT !.cells[k] = m]
    BY <1>1, <1>6, <2>1 DEF T4!Execute, C
  <2>3. tag.len = 0
    BY <1>2, <1>6 DEF T4Written
  <2>4. PICK c : c = [tag.cells EXCEPT ![k] = m]
    OBVIOUS
  <2>5. c \in [Area -> CellValues]
    BY <1>0, <1>2, <2>4 DEF T4Shape, CellValues
  <2>6. t.len = 0 /\ T4Shape(t)
    BY <1>0, <2>2, <2>3, <2>4, <2>5 DEF T4Shape
  <2> QED BY <1>0, <2>3, <2>6, T4Same
<1>7. Head1.name \in {"Update", "UpdateLen"}
  OBVIOUS
<1>8. \/ left = b + 1 /\ Head1 = C("UpdateLen", n)
      \/ left \in b + 2 .. b + n + 1 /\ Head1 = C("Update", b + n + 2 - left)
      \/ left = b + n + 2 /\ Head1 = C("UpdateLen", 0)
  BY <1>1, <1>7, T4StoringHead DEF C, T4Inv
<1> QED BY <1>4, <1>5, <1>6, <1>8

(* So does the overwriting of a piece: it leaves no message.                *)
LEMMA T4ZeroExecuted ==
  ASSUME T4Inv, Busy, ~call.gone, ~T4!Refuses(Head1), NEW t, t = T4!Execute(Head1),
         Head1.name = "Zero"
  PROVE  T4Does(t) /\ t.len = 0
<1>0. T4Shape(tag) /\ Room \in Nat /\ Area = 1 .. Room + 1 /\ 0 \in 0 .. Room
  BY RoomPositive DEF T4Inv, T4Tag
<1>1. call.op \in {"format", "erase"}
  BY T4Sends DEF T4Inv, T4Wiping
<1>2. PICK k : k = IF Head1.k > 2 THEN 2 ELSE Head1.k
  OBVIOUS
<1>3. t = [tag EXCEPT !.len = 0, !.cells[k] = Blank]
  BY <1>2 DEF T4!Execute
<1>4. PICK c : c = [tag.cells EXCEPT ![k] = Blank]
  OBVIOUS
<1>5. c \in [Area -> CellValues]
  BY <1>0, <1>4 DEF T4Shape, CellValues
<1>6. tag.cc = "valid"
  BY <1>0 DEF T4!Refuses, T4!Updates, T4Shape
<1>7. t = [tag EXCEPT !.len = 0, !.cells = c]
  BY <1>0, <1>3, <1>4 DEF T4Shape
<1>8. t.len = 0 /\ T4Shape(t)
  BY <1>0, <1>5, <1>6, <1>7 DEF T4Shape
<1> QED BY <1>0, <1>1, <1>8, T4Unmarks

(* So does every command of a call.                                         *)
LEMMA T4Executed ==
  ASSUME T4Inv, Busy, ~call.gone, ~T4!Refuses(Head1), NEW t, t = T4!Execute(Head1)
  PROVE  T4Does(t)
<1>1. CASE Head1.name \in Selects \cup Creators \cup {"Update", "UpdateLen", "Zero"}
  BY <1>1, T4SelectExecuted, T4CreatorExecuted, T4UpdateExecuted, T4ZeroExecuted
<1>2. CASE Head1.name \notin Selects \cup Creators \cup {"Update", "UpdateLen", "Zero"}
  <2>1. t = tag
    BY <1>2 DEF T4!Execute, Selects, Creators
  <2>2. T4Shape(tag)
    BY DEF T4Inv, T4Tag
  <2> QED BY <2>1, <2>2, T4Same
<1> QED BY <1>1, <1>2

(* A card that is activated again keeps its files.                          *)
LEMMA T4ReleasedIs ==
  ASSUME NEW t, T4Shape(t)
  PROVE  LET u == T4!Released(t) IN
         /\ T4Shape(u) /\ T4Holds(u) = T4Holds(t)
         /\ u.cc = t.cc /\ u.len = t.len /\ u.cells = t.cells
<1>1. PICK u : u = [t EXCEPT !.dir = "master", !.ef = "none"]
  OBVIOUS
<1>2. u.cc = t.cc /\ u.len = t.len /\ u.cells = t.cells
  BY <1>1 DEF T4Shape
<1>3. u.app = t.app
  BY <1>1 DEF T4Shape
<1>4. u.file = t.file
  BY <1>1 DEF T4Shape
<1>5. T4Shape(u)
  BY <1>1, <1>2, <1>3, <1>4 DEF T4Shape
<1>6. T4Holds(u) = T4Holds(t)
  BY <1>2, <1>5, T4ContentIs
<1> QED BY <1>1, <1>2, <1>5, <1>6 DEF T4!Released

-----------------------------------------------------------------------------
(* What a step does to the call and to what is known of the tag.            *)

(* What FormatNdef sends to a card that is not formatted.                   *)
FormatTodo ==
  Cmd("CreateApp") \o Cmd("SelectCreated") \o Cmd("CreateCc") \o Cmd("CreateFile")
  \o Cmd("WriteCc") \o Cmd("WriteLen") \o Cmd("SelectMaster")

(* It creates the files.                                                    *)
LEMMA FormatFirst ==
  ASSUME NEW n \in Nat, n >= 7, NEW plan, \A j \in 1 .. 7 : plan[n - 7 + j] = T4Creates(j)
  PROVE  First(FormatTodo, 7, n, plan)
<1>1. /\ plan[n] = C("CreateApp", 0) /\ plan[n - 1] = C("SelectCreated", 0)
      /\ plan[n - 2] = C("CreateCc", 0) /\ plan[n - 3] = C("CreateFile", 0)
      /\ plan[n - 4] = C("WriteCc", 0) /\ plan[n - 5] = C("WriteLen", 0)
      /\ plan[n - 6] = C("SelectMaster", 0)
  <2>1. /\ plan[n - 7 + 7] = T4Creates(7) /\ plan[n - 7 + 6] = T4Creates(6)
        /\ plan[n - 7 + 5] = T4Creates(5) /\ plan[n - 7 + 4] = T4Creates(4)
        /\ plan[n - 7 + 3] = T4Creates(3) /\ plan[n - 7 + 2] = T4Creates(2)
        /\ plan[n - 7 + 1] = T4Creates(1)
    OBVIOUS
  <2>2. /\ n - 7 + 7 = n /\ n - 7 + 6 = n - 1 /\ n - 7 + 5 = n - 2 /\ n - 7 + 4 = n - 3
        /\ n - 7 + 3 = n - 4 /\ n - 7 + 2 = n - 5 /\ n - 7 + 1 = n - 6
    OBVIOUS
  <2> QED BY <2>1, <2>2, T4CreatesAre
<1> DEFINE s1 == Cell("CreateApp", 0)
           s2 == s1 \o Cell("SelectCreated", 0)
           s3 == s2 \o Cell("CreateCc", 0)
           s4 == s3 \o Cell("CreateFile", 0)
           s5 == s4 \o Cell("WriteCc", 0)
           s6 == s5 \o Cell("WriteLen", 0)
           s7 == s6 \o Cell("SelectMaster", 0)
<1>3. First(s1, 1, n, plan)
  BY <1>1, FirstNone DEF Names
<1>4. First(s2, 2, n, plan)
  BY <1>1, <1>3, FirstOne DEF Names
<1> HIDE DEF s2
<1>5. First(s3, 3, n, plan)
  BY <1>1, <1>4, FirstOne DEF Names
<1> HIDE DEF s3
<1>6. First(s4, 4, n, plan)
  BY <1>1, <1>5, FirstOne DEF Names
<1> HIDE DEF s4
<1>7. First(s5, 5, n, plan)
  BY <1>1, <1>6, FirstOne DEF Names
<1> HIDE DEF s5
<1>8. First(s6, 6, n, plan)
  BY <1>1, <1>7, FirstOne DEF Names
<1> HIDE DEF s6
<1>9. First(s7, 7, n, plan)
  BY <1>1, <1>8, FirstOne DEF Names
<1> HIDE DEF s7
<1>10. s7 = FormatTodo
  BY CmdIsCell DEF s2, s3, s4, s5, s6, s7, FormatTodo
<1> QED BY <1>9, <1>10

(* CheckNdef that formats the tag on its way.                               *)
LEMMA T4AutoFormat ==
  ASSUME CallOK, Busy, Left = 6, Follows(call.todo, T4CheckPlan("SelectApp"))
  PROVE  LET s == T4!AutoFormat IN
         /\ s \in Seq(Commands) /\ s # <<>> /\ Len(s) = 13
         /\ Follows(s, T4CheckPlan("SelectAppAgain"))
<1>1. PICK p, f, t, s : /\ p = T4CheckPlan("SelectAppAgain") /\ f = FormatTodo /\ t = Tail(call.todo)
                        /\ s = f \o Cell("SelectAppAgain", 0)
  OBVIOUS
<1>2. First(f, 7, 13, p)
  <2>1. ASSUME NEW j \in 1 .. 7
        PROVE  p[13 - 7 + j] = T4Creates(j)
    BY <1>1 DEF T4CheckPlan
  <2> QED BY <1>1, <2>1, FormatFirst
<1>3. First(s, 8, 13, p)
  <2>1. p[6] = C("SelectAppAgain", 0) /\ "SelectAppAgain" \in Names
    BY <1>1 DEF T4CheckPlan, Names
  <2> QED BY <1>1, <1>2, <2>1, FirstOne
<1>4. t \in Seq(Commands) /\ Len(t) = 5 /\ Follows(t, p)
  <2>1. t \in Seq(Commands) /\ Len(t) = 5 /\ Follows(t, T4CheckPlan("SelectApp"))
    BY <1>1, PlanGoesOn
  <2>2. ASSUME NEW r \in 1 .. 5
        PROVE  T4CheckPlan("SelectApp")[r] = p[r]
    BY <1>1, <2>2 DEF T4CheckPlan
  <2> QED BY <2>1, <2>2 DEF Follows
<1>5. s \o t \in Seq(Commands) /\ Len(s \o t) = 13 /\ Follows(s \o t, p)
  <2>1. PICK l, n : l = 8 /\ n = 13
    OBVIOUS
  <2>2. l \in Nat /\ n \in Nat /\ Len(t) + l = n /\ First(s, l, n, p)
    BY <1>3, <1>4, <2>1
  <2>3. s \o t \in Seq(Commands) /\ Len(s \o t) = n /\ Follows(s \o t, p)
    BY <1>4, <2>2, FirstThen, FirstAll
  <2> QED BY <2>1, <2>3
<1>6. Len(s \o t) > 0
  BY <1>5
<1>7. s \o t # <<>>
  BY <1>5, <1>6, NotEmpty
<1>8. T4!AutoFormat = s \o t
  <2>1. PICK x : x = T4!FormatCommands
    OBVIOUS
  <2>2. x = f
    BY <1>1, <2>1, Zenon DEF T4!FormatCommands, FormatTodo, T4!Cmd, Cmd
  <2>3. T4!AutoFormat = x \o T4!Cmd("SelectAppAgain") \o Tail(call.todo)
    BY <2>1, Zenon DEF T4!AutoFormat
  <2>4. T4!Cmd("SelectAppAgain") = Cell("SelectAppAgain", 0)
    BY DEF T4!Cmd, Cell
  <2> QED BY <1>1, <2>2, <2>3, <2>4
<1> QED BY <1>1, <1>5, <1>7, <1>8

(* The select that may lead to it.                                          *)
Again == Head1.name = "SelectApp" /\ call.op = "check"

(* Only the first command of a check is followed by a format.               *)
LEMMA T4AgainIs ==
  ASSUME CallOK, Busy, T4Doing, Again
  PROVE  T4Checking /\ Left = 6 /\ Follows(call.todo, T4CheckPlan("SelectApp"))
<1>1. T4Checking
  BY DEF T4Doing, T4Formatting, T4Writing, T4Erasing, T4Reading, Again
<1>2. PICK left : left = Left
  OBVIOUS
<1>3. CASE left \in 7 .. 13 /\ T4Creating(left - 6)
  <2>1. PICK j : T4Creating(j)
    BY <1>3
  <2>2. Head1.name # "SelectApp"
    BY <2>1, T4CreatingHead DEF C
  <2> QED BY <2>2 DEF Again
<1>4. CASE ~(left \in 7 .. 13 /\ T4Creating(left - 6))
  BY <1>1, <1>2, <1>4, T4CheckHead DEF C, Again
<1> QED BY <1>3, <1>4

(* What an answer makes of the call.                                        *)
LEMMA T4Answered ==
  ASSUME T4Inv, T4!Answer
  PROVE  /\ Busy /\ ~call.gone /\ ~T4!Refuses(Head1) /\ tag' = T4!Execute(Head1)
         /\ top' = T4!Learnt(Head1) /\ Keeps /\ call'.clean = call.clean
         /\ call'.got = IF Head1.name = "Read" THEN Append(call.got, tag.cells[Head1.k]) ELSE call.got
         /\ Again /\ top.notFound => GoesOn(T4!AutoFormat)
         /\ T4!Verdict(Head1) = "BUSY" /\ ~(Again /\ top.notFound) =>
              (Left # 1 => GoesOn(Tail(call.todo))) /\ (Left = 1 => Succeeds)
         /\ T4!Verdict(Head1) # "BUSY" => Fails
<1>1. /\ Busy /\ ~call.gone /\ ~T4!Refuses(Head1) /\ tag' = T4!Execute(Head1) /\ top' = T4!Learnt(Head1)
      /\ call' = Go(IF Head1.name = "Read" THEN Reply(tag.cells[Head1.k]) ELSE call,
                    IF Again /\ top.notFound THEN T4!AutoFormat ELSE Tail(call.todo),
                    T4!Verdict(Head1))
  BY T4Session DEF T4!Answer, Again
<1>2. CallOK /\ T4Doing
  BY DEF T4Inv
<1>3. Again => T4!Verdict(Head1) = "BUSY" /\ T4!AutoFormat \in Seq(Commands) /\ T4!AutoFormat # <<>>
  <2>1. Again => T4!Verdict(Head1) = "BUSY"
    BY DEF Again, T4!Verdict
  <2> QED BY <1>1, <1>2, <2>1, T4AgainIs, T4AutoFormat
<1>4. ASSUME Head1.name = "Read"
      PROVE  tag.cells[Head1.k] \in CellValues
  <2>1. Head1.k \in 1 .. top.len /\ top.len \in 0 .. Room
    BY <1>1, <1>2, <1>4, T4Sends DEF T4Inv, T4Top
  <2>2. Head1.k \in Area
    BY <2>1, RoomPositive
  <2> QED BY <2>2 DEF T4Inv, T4Tag, T4Shape
<1>5. PICK read \in BOOLEAN : read = (Head1.name = "Read")
  OBVIOUS
<1>14. PICK verdict, cell, todo :
         /\ verdict = T4!Verdict(Head1) /\ cell = tag.cells[Head1.k]
         /\ todo = IF Again /\ top.notFound THEN T4!AutoFormat ELSE Tail(call.todo)
  OBVIOUS
<1>6. call' = Go(IF read THEN Reply(cell) ELSE call, todo, verdict)
  BY <1>1, <1>5, <1>14
<1>7. read => cell \in CellValues
  BY <1>4, <1>5, <1>14
<1>8. todo \in Seq(Commands) /\ (~(Again /\ top.notFound) => ((todo = <<>>) <=> (Left = 1)))
  BY <1>1, <1>2, <1>3, <1>14, Heading
<1>10. verdict \in Statuses /\ verdict # "SUCCESS"
  BY <1>14 DEF T4!Verdict, Statuses
<1>9. /\ Keeps /\ call'.clean = call.clean
      /\ call'.got = IF read THEN Append(call.got, cell) ELSE call.got
      /\ verdict = "BUSY" /\ todo # <<>> => GoesOn(todo)
      /\ verdict = "SUCCESS" \/ (verdict = "BUSY" /\ todo = <<>>) => Succeeds
      /\ verdict \notin {"BUSY", "SUCCESS"} => Fails
  BY <1>1, <1>2, <1>6, <1>7, <1>8, <1>10, AnswerGoes, Zenon
<1>11. Again /\ top.notFound => GoesOn(T4!AutoFormat)
  BY <1>3, <1>14, <1>9
<1>12. verdict = "BUSY" /\ ~(Again /\ top.notFound) =>
         (Left # 1 => GoesOn(Tail(call.todo))) /\ (Left = 1 => Succeeds)
  BY <1>14, <1>8, <1>9
<1>13. verdict # "BUSY" => Fails
  BY <1>9, <1>10
<1> QED BY <1>1, <1>5, <1>14, <1>9, <1>11, <1>12, <1>13

-----------------------------------------------------------------------------
(* What is known of the tag stays known.                                    *)
T4Knows == top.support /\ top.max = Room

(* A step keeps what the parameters say of the card.                        *)
T4KeepsTop ==
  /\ T4Top' /\ (T4Knows => T4Knows') /\ (Head1.name # "CheckCc" => top'.wa = top.wa /\ top'.max = top.max)
  /\ Head1.name \notin {"CheckLen", "UpdateLen"} => top'.len = top.len

(* What is learnt from an answer keeps what was known.                      *)
LEMMA T4LearntKeeps ==
  ASSUME T4Inv, Busy, ~call.gone, ~T4!Refuses(Head1), top' = T4!Learnt(Head1)
  PROVE  T4KeepsTop
<1>0. /\ T4Top /\ top.len \in 0 .. Room /\ Room \in Nat /\ tag.wa \in Access /\ tag.len \in 0 .. Room
      /\ Head1.k \in Nat
  BY Heading, RoomPositive DEF T4Inv, T4Top, T4Tag, T4Shape, Commands
<1> USE DEF T4KeepsTop, T4Knows
<1>1. ASSUME top' = top
      PROVE  T4KeepsTop
  BY <1>0, <1>1 DEF T4Top
<1>2. ASSUME NEW f \in {TRUE}, top' = [top EXCEPT !.formatted = f]
      PROVE  T4KeepsTop
  <2>1. T4Top' /\ top'.wa = top.wa /\ top'.max = top.max /\ top'.len = top.len
    BY <1>0, <1>2 DEF T4Top
  <2>2. top'.support = top.support
    BY <1>0, <1>2 DEF T4Top
  <2> QED BY <2>1, <2>2
<1>3. CASE Head1.name \in {"SelectAppAgain", "SelectApp", "SelectMaster"}
  <2>1. top' = top \/ top' = [top EXCEPT !.formatted = TRUE]
    BY <1>3 DEF T4!Learnt
  <2> QED BY <1>1, <1>2, <2>1
<1>4. CASE Head1.name = "CheckCc"
  <2>1. top' = top \/ top' = [top EXCEPT !.wa = tag.wa, !.max = Room]
    BY <1>4 DEF T4!Learnt
  <2>2. ASSUME top' = [top EXCEPT !.wa = tag.wa, !.max = Room]
        PROVE  T4KeepsTop
    <3>1. T4Top' /\ top'.max = Room /\ top'.len = top.len
      BY <1>0, <2>2 DEF T4Top
    <3>2. top'.support = top.support
      BY <1>0, <2>2 DEF T4Top
    <3> QED BY <1>4, <3>1, <3>2
  <2> QED BY <1>1, <2>1, <2>2
<1>5. CASE Head1.name = "CheckLen"
  <2>a. PICK s : s = IF tag.len = 0 THEN "INITIALIZED"
                     ELSE IF top.wa = "RO" THEN "READONLY" ELSE "READWRITE"
    OBVIOUS
  <2>1. PICK p \in BOOLEAN :
          /\ p = (tag.len # 0)
          /\ s = IF tag.len = 0 THEN "INITIALIZED"
                 ELSE IF top.wa = "RO" THEN "READONLY" ELSE "READWRITE"
    BY <2>a
  <2>2. s \in States
    BY <2>1 DEF States
  <2>3. top' = [top EXCEPT !.support = TRUE, !.len = tag.len, !.presence = p, !.state = s]
    BY <1>5, <2>1 DEF T4!Learnt
  <2>4. T4Top' /\ top'.wa = top.wa /\ top'.max = top.max
    BY <1>0, <2>2, <2>3 DEF T4Top
  <2>5. top'.support
    BY <1>0, <2>3 DEF T4Top
  <2> QED BY <1>5, <2>4, <2>5
<1>6. CASE Head1.name = "WriteLen"
  <2>1. top' = [top EXCEPT !.formatted = TRUE, !.presence = FALSE, !.state = "INITIALIZED"]
    BY <1>6 DEF T4!Learnt
  <2>2. "INITIALIZED" \in States
    BY DEF States
  <2>3. T4Top' /\ top'.wa = top.wa /\ top'.max = top.max /\ top'.len = top.len
    BY <1>0, <2>1, <2>2 DEF T4Top
  <2>4. top'.support = top.support
    BY <1>0, <2>1 DEF T4Top
  <2> QED BY <2>3, <2>4
<1>7. CASE Head1.name = "Zero"
  <2>1. top' = top \/ top' = [top EXCEPT !.state = "INITIALIZED", !.presence = FALSE]
    BY <1>7 DEF T4!Learnt
  <2>2. "INITIALIZED" \in States
    BY DEF States
  <2>3. ASSUME top' = [top EXCEPT !.state = "INITIALIZED", !.presence = FALSE]
        PROVE  T4KeepsTop
    <3>1. T4Top' /\ top'.wa = top.wa /\ top'.max = top.max /\ top'.len = top.len
      BY <1>0, <2>2, <2>3 DEF T4Top
    <3>2. top'.support = top.support
      BY <1>0, <2>3 DEF T4Top
    <3> QED BY <3>1, <3>2
  <2> QED BY <1>1, <2>1, <2>3
<1>8. CASE Head1.name = "UpdateLen"
  <2>1. top' = top \/ (Head1.k # 0 /\ top' = [top EXCEPT !.len = Head1.k, !.presence = TRUE])
    BY <1>8 DEF T4!Learnt
  <2>2. Head1.k # 0 => Head1.k \in 0 .. Room
    <3>1. PICK m, n, b, left : T4Storing(m, n, b, left)
      BY <1>8, T4Sends DEF T4Inv
    <3>2. \/ left = b + 1 /\ Head1 = C("UpdateLen", n)
          \/ left = b + n + 2 /\ Head1 = C("UpdateLen", 0)
      BY <1>8, <3>1, T4StoringHead DEF C, T4Inv
    <3>3. CASE left = b + 1 /\ Head1 = C("UpdateLen", n)
      <4>1. n \in Nat /\ b \in {1, 3} /\ left \in b + 1 .. b + n + 2 /\ T4Written(m, n, b, left)
        BY <3>1, <3>3 DEF T4Storing
      <4>2. n <= top.max
        BY <4>1 DEF T4Written
      <4> QED BY <1>0, <3>3, <4>1, <4>2 DEF C, T4Top
    <3> QED BY <3>2, <3>3 DEF C
  <2>3. ASSUME NEW k \in 0 .. Room, top' = [top EXCEPT !.len = k, !.presence = TRUE]
        PROVE  T4KeepsTop
    <3>1. T4Top' /\ top'.wa = top.wa /\ top'.max = top.max
      BY <1>0, <2>3 DEF T4Top
    <3>2. top'.support = top.support
      BY <1>0, <2>3 DEF T4Top
    <3> QED BY <1>8, <3>1, <3>2
  <2> QED BY <1>1, <2>1, <2>2, <2>3
<1>9. CASE Head1.name \notin {"SelectAppAgain", "SelectApp", "SelectMaster", "CheckCc", "CheckLen",
                              "WriteLen", "Zero", "UpdateLen"}
  BY <1>1, <1>9 DEF T4!Learnt
<1> QED BY <1>3, <1>4, <1>5, <1>6, <1>7, <1>8, <1>9

-----------------------------------------------------------------------------
(* The call goes on, has succeeded, or has failed.                          *)
LEMMA T4GoesKeeps ==
  ASSUME T4Inv, Keeps, call'.status = "BUSY", call'.checked = call.checked, T4Tag', T4Top',
         T4Knows => T4Knows', T4Doing'
  PROVE  T4Inv'
<1>1. EndedWell(call, T4!Content, TRUE)'
  BY NotEnded
<1> QED BY <1>1 DEF T4Inv, Keeps, T4Known, T4Knows

(* A call that succeeds keeps the invariant, if it ends well.               *)
LEMMA T4SucceedsKeeps ==
  ASSUME Keeps, Succeeds, T4Tag', T4Top', call'.checked => T4Knows', EndedWell(call, T4!Content, TRUE)'
  PROVE  T4Inv'
BY DEF T4Inv, Keeps, Succeeds, T4Doing, T4Known, T4Knows, Busy

(* A call that fails keeps it.                                              *)
LEMMA T4FailsKeeps ==
  ASSUME Keeps, Fails, T4Tag', T4Top'
  PROVE  T4Inv'
BY NotEnded DEF T4Inv, Keeps, Fails, T4Doing, T4Known, CallOK, Busy

-----------------------------------------------------------------------------
(* A refusal.                                                               *)
LEMMA T4TopNoted ==
  ASSUME T4Inv, NEW b \in BOOLEAN, top' = [top EXCEPT !.notFound = b]
  PROVE  T4KeepsTop /\ top'.wa = top.wa /\ top'.max = top.max /\ top'.len = top.len
<1>1. T4Top' /\ top'.wa = top.wa /\ top'.max = top.max /\ top'.len = top.len
  BY DEF T4Inv, T4Top
<1>2. top'.support = top.support
  BY DEF T4Inv, T4Top
<1> QED BY <1>1, <1>2 DEF T4KeepsTop, T4Knows

(* What a refusal does to the parameters.                                   *)
LEMMA T4WasRefused ==
  ASSUME T4Inv, T4!Refused
  PROVE  /\ Busy /\ ~call.gone /\ T4!Refuses(Head1) /\ tag' = tag
         /\ Keeps /\ call'.clean = call.clean /\ call'.got = call.got
         /\ T4KeepsTop /\ top'.wa = top.wa /\ top'.max = top.max /\ top'.len = top.len
         /\ Again => GoesOn(T4!AutoFormat)
         /\ ~Again => Fails
<1>1. PICK b, s :
        /\ b = CASE Head1.name \in {"SelectApp", "SelectAppAgain", "SelectCc", "SelectFile"} -> TRUE
                 [] Head1.name \in T4!Updates \cup {"UpdateCc"} -> FALSE
                 [] OTHER -> top.notFound
        /\ s = CASE Head1.name = "CreateApp" -> "ALREADY_FORMATTED"
                 [] T4!OnlyRefusal(Head1) -> "NOT_FORMATTED"
                 [] OTHER -> "REFUSED"
  OBVIOUS
<1>8. Busy /\ ~call.gone /\ T4!Refuses(Head1) /\ tag' = tag
  BY T4Session DEF T4!Refused
<1>9. top' = [top EXCEPT !.notFound = b]
  <2>1. top' = [top EXCEPT !.notFound =
              CASE Head1.name \in {"SelectApp", "SelectAppAgain", "SelectCc", "SelectFile"} -> TRUE
                [] Head1.name \in T4!Updates \cup {"UpdateCc"} -> FALSE
                [] OTHER -> @]
    BY T4Session DEF T4!Refused
  <2> QED BY <1>1, <2>1
<1>10. call' = IF Again THEN Go(call, T4!AutoFormat, "BUSY") ELSE Go(call, <<>>, s)
  <2>1. call' = IF Again THEN Go(call, T4!AutoFormat, "BUSY")
                ELSE Go(call, <<>>, CASE Head1.name = "CreateApp" -> "ALREADY_FORMATTED"
                                      [] T4!OnlyRefusal(Head1) -> "NOT_FORMATTED"
                                      [] OTHER -> "REFUSED")
    BY T4Session DEF T4!Refused, Again
  <2> QED BY <1>1, <2>1
<1>2. b \in BOOLEAN
  BY <1>1 DEF T4Inv, T4Top
<1>3. s \in Statuses \ {"BUSY", "SUCCESS"} /\ "BUSY" \in Statuses
  BY <1>1 DEF Statuses
<1>4. T4KeepsTop /\ top'.wa = top.wa /\ top'.max = top.max /\ top'.len = top.len
  BY <1>9, <1>2, T4TopNoted
<1>5. CallOK /\ T4Doing
  BY DEF T4Inv
<1>6. ASSUME Again
      PROVE  Keeps /\ call'.clean = call.clean /\ call'.got = call.got /\ GoesOn(T4!AutoFormat)
  <2>1. PICK todo, v : todo = T4!AutoFormat /\ v = "BUSY"
    OBVIOUS
  <2>2. todo \in Seq(Commands) /\ todo # <<>>
    BY <1>8, <1>5, <1>6, <2>1, T4AgainIs, T4AutoFormat
  <2>3. call' = Go(IF FALSE THEN Reply(Blank) ELSE call, todo, v)
    BY <1>10, <1>6, <2>1
  <2>4. Keeps /\ call'.clean = call.clean /\ call'.got = call.got /\ GoesOn(todo)
    BY <1>8, <1>3, <1>5, <2>1, <2>2, <2>3, AnswerGoes
  <2> QED BY <2>1, <2>4
<1>7. ASSUME ~Again
      PROVE  Keeps /\ call'.clean = call.clean /\ call'.got = call.got /\ Fails
  <2>1. <<>> \in Seq(Commands)
    BY EmptySeq
  <2>2. call' = Go(IF FALSE THEN Reply(Blank) ELSE call, <<>>, s)
    BY <1>10, <1>7
  <2> QED BY <1>8, <1>3, <1>5, <2>1, <2>2, AnswerGoes
<1> QED BY <1>8, <1>4, <1>6, <1>7

-----------------------------------------------------------------------------
(* The call goes on with the rest of its plan.                              *)
T4Moves == Keeps /\ call'.status = "BUSY" /\ call'.todo = Tail(call.todo) /\ call'.checked = call.checked

(* A call that goes on is at its next place.                                *)
LEMMA T4Moved ==
  ASSUME CallOK, Busy, T4Moves
  PROVE  /\ call'.op = call.op /\ call'.msg = call.msg /\ Left' = Left - 1 /\ Left \in Nat /\ Left > 0
         /\ \A plan : Follows(call.todo, plan) => Follows(call'.todo, plan)
BY Onwards, Heading DEF T4Moves, Keeps

(* A check goes on to its next command.                                     *)
LEMMA T4CheckMoves ==
  ASSUME CallOK, Busy, T4Moves, T4Checking, NEW left, left = Left,
         left - 1 > 6 => T4Created(left - 1 - 6)',
         left = 5 => call'.gone \/ tag'.cc # "absent",
         left <= 4 => top'.max = Room,
         left = 2 => top'.support
  PROVE  T4Doing'
<1>1. /\ call'.op = call.op /\ call'.msg = call.msg /\ Left' = left - 1 /\ left \in Nat /\ left > 0
      /\ \A plan : Follows(call.todo, plan) => Follows(call'.todo, plan)
      /\ ~call'.checked /\ call.op = "check" /\ call.msg = None
  BY T4Moved DEF T4Moves, T4Checking
<1>2. \/ left <= 6 /\ Follows(call'.todo, T4CheckPlan("SelectApp"))
      \/ left <= 13 /\ Follows(call'.todo, T4CheckPlan("SelectAppAgain"))
  BY <1>1 DEF T4Checking
<1>3. \A f : T4CheckPlan(f)' = T4CheckPlan(f)
  BY DEF T4CheckPlan, T4Creates
<1>4. T4Created(left - 1 - 6)'
  <2>1. CASE left - 1 > 6
    BY <2>1
  <2>2. CASE ~(left - 1 > 6)
    <3>1. ~(left - 1 - 6 \in 1 .. 6) /\ ~(left - 1 - 6 \in 1 .. 3)
      BY <1>1, <2>2
    <3> QED BY <3>1 DEF T4Created
  <2> QED BY <2>1, <2>2
<1>5. /\ Left' = 4 => left = 5
      /\ Left' <= 3 => left <= 4
      /\ Left' = 1 => left = 2
  BY <1>1
<1>6. T4Created(Left - 6)'
  BY <1>1, <1>4 DEF T4Created
<1>7. \/ Left' <= 6 /\ Follows(call'.todo, T4CheckPlan("SelectApp")')
      \/ Left' <= 13 /\ Follows(call'.todo, T4CheckPlan("SelectAppAgain")')
  <2>1. /\ left <= 6 => Left' <= 6
        /\ left <= 13 => Left' <= 13
    BY <1>1
  <2> QED BY <1>2, <1>3, <2>1
<1>8. T4Checking'
  BY <1>1, <1>5, <1>6, <1>7 DEF T4Checking
<1> QED BY <1>8 DEF T4Doing

(* Creating the files goes on.                                              *)
LEMMA T4CreatingMoves ==
  ASSUME CallOK, Busy, T4Moves, call.op = "format", NEW left, left = Left, T4Creating(left),
         Follows(call.todo, T4FormatPlan), T4Created(left - 1)'
  PROVE  T4Doing'
<1>1. /\ call'.op = "format" /\ call'.msg = None /\ Left' = left - 1 /\ left \in 1 .. 7
      /\ Follows(call'.todo, T4FormatPlan)
  BY T4Moved DEF T4Creating
<1>2. T4FormatPlan' = T4FormatPlan
  BY DEF T4FormatPlan, T4Creates
<1>3. Left' <= 7 /\ T4Created(Left)'
  BY <1>1 DEF T4Created
<1> QED BY <1>1, <1>2, <1>3 DEF T4Doing, T4Formatting

(* An erase goes on.                                                        *)
LEMMA T4WipingMoves ==
  ASSUME CallOK, Busy, T4Moves, NEW z, NEW left, T4Wiping(z, left), top'.len = top.len,
         left - 1 <= z => tag'.len = 0
  PROVE  T4Doing'
<1>1. /\ call'.op = call.op /\ call'.msg = None /\ Left' = left - 1 /\ left \in 1 .. z + 5
      /\ Follows(call'.todo, T4ErasePlan(z)) /\ z = Pieces /\ z \in Nat
      /\ call.op \in {"format", "erase"}
  BY T4Moved DEF T4Wiping
<1>2. Pieces' = z
  BY <1>1 DEF Pieces
<1>3. T4ErasePlan(z)' = T4ErasePlan(z)
  BY DEF T4ErasePlan
<1>4. Left' <= Pieces' + 5 /\ Follows(call'.todo, T4ErasePlan(Pieces)') /\ (Left' <= Pieces' => tag'.len = 0)
  BY <1>1, <1>2, <1>3
<1>5. T4Zeroing'
  BY <1>4 DEF T4Zeroing
<1> QED BY <1>1, <1>5 DEF T4Doing, T4Formatting, T4Erasing

(* A write goes on.                                                         *)
LEMMA T4StoringMoves ==
  ASSUME CallOK, Busy, T4Moves, NEW m, NEW n, NEW b, NEW left, T4Storing(m, n, b, left),
         top'.wa = top.wa, T4Written(m, n, b, left - 1)'
  PROVE  T4Doing'
<1>1. /\ call'.op = "write" /\ call'.msg = m /\ m \in Messages /\ n = Size[m] /\ b = After
      /\ Left' = left - 1 /\ left \in 1 .. b + n + 6 /\ n \in Nat /\ b \in {1, 3}
      /\ Follows(call'.todo, T4WritePlan(n, b))
  BY T4Moved DEF T4Storing
<1>2. After' = b
  BY <1>1 DEF After
<1>3. T4WritePlan(n, b)' = T4WritePlan(n, b)
  BY DEF T4WritePlan
<1>4. Left' <= After' + Size[call'.msg] + 6
  BY <1>1, <1>2
<1>5. T4Written(call.msg, Size[call.msg], After, Left)'
  BY <1>1, <1>2 DEF T4Written
<1>6. Follows(call'.todo, T4WritePlan(Size[call.msg], After)')
  BY <1>1, <1>2, <1>3 DEF T4WritePlan
<1> QED BY <1>1, <1>4, <1>5, <1>6 DEF T4Doing, T4Writing

(* A read goes on.                                                          *)
LEMMA T4ReadMoves ==
  ASSUME CallOK, Busy, T4Moves, T4Top, T4Reading, NEW l, l = top.len, NEW left, left = Left,
         top'.len = l,
         left - 1 <= l + 2 => tag'.cc = "valid",
         left - 1 <= l + 1 => tag'.len = l,
         Len(call'.got) = (IF left - 1 <= l THEN l + 1 - (left - 1) ELSE 0), GotCells'
  PROVE  T4Doing'
<1>1. /\ call'.op = "read" /\ call'.msg = None
      /\ Left' = left - 1 /\ left \in Nat /\ left > 0 /\ left <= l + 6 /\ l \in Nat
      /\ Follows(call'.todo, T4ReadPlan(l))
  BY T4Moved, RoomPositive DEF T4Reading, T4Top
<1>2. T4ReadPlan(l)' = T4ReadPlan(l)
  BY DEF T4ReadPlan
<1>3. /\ Left' <= top'.len + 6
      /\ Left' <= top'.len + 2 => tag'.cc = "valid"
      /\ Left' <= top'.len + 1 => tag'.len = top'.len
      /\ Len(call'.got) = (IF Left' <= top'.len THEN top'.len + 1 - Left' ELSE 0)
  BY <1>1
<1>4. Follows(call'.todo, T4ReadPlan(top.len)')
  BY <1>1, <1>2
<1> QED BY <1>1, <1>3, <1>4 DEF T4Doing, T4Reading

-----------------------------------------------------------------------------
(* No answer.                                                               *)
T4Only == T4!OnlyRefusal(Head1) \/ Head1.name = "CreateApp"

(* What a call without an answer becomes: it goes on only where the code    *)
(* looks at nothing but a refusal, and the card has gone.                   *)
LEMMA T4LostIs ==
  ASSUME T4Inv, T4!NoAnswer
  PROVE  /\ Busy /\ Keeps /\ top' = top /\ ~call'.clean /\ call'.got = call.got
         /\ \E t : /\ tag' = T4!Released(t)
                   /\ t = tag \/ (~call.gone /\ ~T4!Refuses(Head1) /\ t = T4!Execute(Head1))
         /\ T4Only /\ Left # 1 => T4Moves /\ call'.gone
         /\ ~T4Only => Fails
<1>1. PICK v : v = IF T4Only THEN "BUSY" ELSE "TIMEOUT"
  OBVIOUS
<1>2. /\ Busy /\ top' = top
      /\ \E t \in T4!Maybe(T4!Execute(Head1), T4!Refuses(Head1)) : tag' = T4!Released(t)
      /\ call' = Go(Lost(TRUE), Tail(call.todo), IF T4Only THEN "BUSY" ELSE "TIMEOUT")
  BY T4Session DEF T4!NoAnswer, T4!Loss, T4Only
<1>3. \E t : /\ tag' = T4!Released(t)
             /\ t = tag \/ (~call.gone /\ ~T4!Refuses(Head1) /\ t = T4!Execute(Head1))
  BY <1>2 DEF T4!Maybe
<1>4. CallOK /\ Tail(call.todo) \in Seq(Commands) /\ (Left # 1 => Tail(call.todo) # <<>>) /\ v \in Statuses
  BY <1>1, <1>2, Heading DEF T4Inv, Statuses
<1>5. call' = Go(IF TRUE THEN Lost(TRUE) ELSE call, Tail(call.todo), v)
  BY <1>1, <1>2
<1>6. PICK todo : todo = Tail(call.todo)
  OBVIOUS
<1>7. /\ Keeps /\ call'.got = call.got /\ ~call'.clean
      /\ v = "BUSY" /\ todo # <<>> =>
              /\ call'.status = "BUSY" /\ call'.todo = todo /\ call'.checked = call.checked
              /\ call'.gone
      /\ v \notin {"BUSY", "SUCCESS"} => Fails
  <2>1. PICK lost \in BOOLEAN : lost = TRUE
    OBVIOUS
  <2>2. call' = Go(IF lost THEN Lost(lost) ELSE call, todo, v)
    BY <1>5, <1>6, <2>1
  <2> QED BY <1>2, <1>4, <1>6, <2>1, <2>2, LossGoes
<1> QED BY <1>1, <1>2, <1>3, <1>4, <1>6, <1>7 DEF T4Moves

(* The files after it.                                                      *)
LEMMA T4LostTag ==
  ASSUME T4Inv, T4!NoAnswer
  PROVE  /\ T4Tag' /\ Effect(call, T4!Content, None, T4!Content', None)
         /\ Head1.name \in {"SelectApp", "SelectCc", "SelectFile", "CreateApp"} =>
              tag'.cc = tag.cc /\ tag'.len = tag.len /\ tag'.cells = tag.cells
<1>1. PICK t : /\ tag' = T4!Released(t)
               /\ t = tag \/ (~call.gone /\ ~T4!Refuses(Head1) /\ t = T4!Execute(Head1))
  BY T4LostIs
<1>2. T4Shape(tag) /\ Busy
  BY T4LostIs DEF T4Inv, T4Tag
<1>3. T4Does(t)
  <2>1. CASE t = tag
    BY <1>2, <2>1, T4Same
  <2> QED BY <1>1, <1>2, <2>1, T4Executed
<1>4. /\ T4Shape(tag') /\ T4Holds(tag') = T4Holds(t)
      /\ tag'.cc = t.cc /\ tag'.len = t.len /\ tag'.cells = t.cells
  BY <1>1, <1>3, T4ReleasedIs DEF T4Does
<1>5. Effect(call, T4!Content, None, T4!Content', None)
  BY <1>3, <1>4, T4ContentIs DEF T4Does
<1>6. T4Tag'
  BY <1>4 DEF T4Tag, T4Shape
<1>7. Head1.name \in {"SelectApp", "SelectCc", "SelectFile", "CreateApp"} =>
        t.cc = tag.cc /\ t.len = tag.len /\ t.cells = tag.cells
  <2>1. CASE Head1.name = "SelectApp" /\ t = T4!Execute(Head1)
    <3>1. t = [tag EXCEPT !.dir = "app", !.ef = "none"]
      BY <2>1 DEF T4!Execute
    <3> QED BY <1>2, <3>1 DEF T4Shape
  <2>2. CASE Head1.name = "SelectCc" /\ t = T4!Execute(Head1)
    <3>1. t = [tag EXCEPT !.ef = "cc"]
      BY <2>2 DEF T4!Execute
    <3> QED BY <1>2, <3>1 DEF T4Shape
  <2>3. CASE Head1.name = "SelectFile" /\ t = T4!Execute(Head1)
    <3>1. t = [tag EXCEPT !.ef = "ndef"]
      BY <2>3 DEF T4!Execute
    <3> QED BY <1>2, <3>1 DEF T4Shape
  <2>4. CASE Head1.name = "CreateApp" /\ t = T4!Execute(Head1)
    <3>1. t = [tag EXCEPT !.app = TRUE]
      BY <2>4 DEF T4!Execute
    <3> QED BY <1>2, <3>1 DEF T4Shape
  <2> QED BY <1>1, <2>1, <2>2, <2>3, <2>4
<1> QED BY <1>4, <1>5, <1>6, <1>7

(* A call whose card is gone goes on where only a refusal is looked at.     *)
LEMMA T4LostMoves ==
  ASSUME T4Inv, T4!NoAnswer, T4Only
  PROVE  T4Moves /\ T4Doing'
<1>1. /\ Busy /\ Keeps /\ top' = top /\ call'.got = call.got /\ (Left # 1 => T4Moves /\ call'.gone)
      /\ CallOK /\ T4Doing /\ T4Top
  BY T4LostIs DEF T4Inv
<1>2. /\ Head1.name \in {"SelectApp", "SelectCc", "SelectFile", "CreateApp"}
      /\ call.op = "check" => Head1.name = "CreateApp"
      /\ call.op = "read" => Head1.name \in {"SelectApp", "CreateApp"}
  BY DEF T4Only, T4!OnlyRefusal
<1>3. tag'.cc = tag.cc /\ tag'.len = tag.len /\ tag'.cells = tag.cells
  BY <1>2, T4LostTag
<1>4. ASSUME NEW j
      PROVE  T4Moves /\ call'.gone => T4Created(j)'
  BY DEF T4Created
<1>5. ASSUME NEW z, NEW left, T4Wiping(z, left)
      PROVE  T4Moves /\ T4Doing'
  <2>1. left \in {z + 2, z + 4, z + 5} /\ left = Left /\ z \in Nat /\ z > 0
    BY <1>1, <1>2, <1>5, T4WipingHead DEF C, T4Wiping
  <2>2. left # 1 /\ ~(left - 1 <= z)
    BY <2>1
  <2> QED BY <1>1, <1>5, <2>1, <2>2, T4WipingMoves
<1>6. CASE T4Checking
  <2>1. PICK left : left = Left
    OBVIOUS
  <2>2. left \in 7 .. 13 /\ T4Creating(left - 6)
    BY <1>1, <1>2, <1>6, <2>1, T4CheckHead DEF C, T4Checking
  <2>3. left - 6 = 7
    <3>1. PICK j : j = left - 6 /\ T4Creating(j)
      BY <2>2
    <3>2. Head1.name = "CreateApp"
      BY <1>2, <1>6 DEF T4Checking
    <3>3. j = 7
      <4>1. T4Creating(j)
        BY <3>1
      <4> QED BY <3>2, <4>1, T4CreatingHead DEF C
    <3> QED BY <3>1, <3>3
  <2>4. left = 13 /\ left # 1 /\ left # 5 /\ ~(left <= 4) /\ left # 2
    BY <2>2, <2>3
  <2> QED BY <1>1, <1>4, <1>6, <2>1, <2>4, T4CheckMoves
<1>7. CASE T4Formatting
  <2>1. CASE T4Wiping(Pieces, Left)
    BY <1>5, <2>1
  <2>2. CASE T4Creating(Left) /\ Follows(call.todo, T4FormatPlan)
    <3>1. PICK j : j = Left /\ T4Creating(j)
      BY <2>2
    <3>2. j = 7
      BY <1>2, <3>1, T4CreatingHead DEF C
    <3>3. Left # 1
      BY <3>1, <3>2
    <3> QED BY <1>1, <1>4, <1>7, <2>2, <3>1, <3>3, T4CreatingMoves DEF T4Formatting
  <2> QED BY <1>1, <1>7, <2>1, <2>2, T4FormatHead
<1>8. CASE T4Writing
  <2>1. PICK m, n, b, left : T4Storing(m, n, b, left)
    BY <1>1, <1>8, T4Stores
  <2>2. left \in {b + n + 6, b + n + 5, b + n + 3} \/ (b = 3 /\ left = 3)
    BY <1>1, <1>2, <2>1, T4StoringHead DEF C
  <2>3. /\ left = Left /\ n \in Nat /\ n > 0 /\ b \in {1, 3} /\ T4Written(m, n, b, left)
    BY <2>1 DEF T4Storing
  <2>4. left # 1
    BY <2>2, <2>3
  <2>5. ASSUME call'.gone
        PROVE  T4Written(m, n, b, left - 1)'
    <3>1. ~(left - 1 \in b + 1 .. b + n + 1)
      BY <2>2, <2>3
    <3>2. ASSUME NEW k \in 1 .. n, left - 1 <= b + n + 1 - k
          PROVE  tag'.cells[k] = m
      <4>1. left <= b + n + 1 - k
        BY <2>2, <2>3, <3>2
      <4> QED BY <1>3, <2>3, <4>1 DEF T4Written
    <3>3. left - 1 <= b => left <= b
      BY <2>2, <2>3
    <3> QED BY <1>3, <2>3, <2>5, <3>1, <3>2, <3>3 DEF T4Written
  <2> QED BY <1>1, <2>1, <2>3, <2>4, <2>5, T4StoringMoves
<1>9. CASE T4Erasing
  BY <1>1, <1>5, <1>9, T4Wipes DEF T4Erasing
<1>10. CASE T4Reading
  <2>1. PICK l, left : l = top.len /\ left = Left
    OBVIOUS
  <2>2. l \in 0 .. Room /\ Room \in Nat /\ left = l + 6
    BY <1>1, <1>2, <1>10, <2>1, T4ReadHead DEF C, T4Reading
  <2>3. left # 1 /\ ~(left - 1 <= l + 2) /\ ~(left - 1 <= l + 1) /\ ~(left - 1 <= l) /\ ~(left <= l)
    BY <2>2
  <2>4. Len(call'.got) = 0 /\ GotCells'
    BY <1>1, <1>3, <1>10, <2>1, <2>3 DEF T4Reading, GotCells
  <2> QED BY <1>1, <1>10, <2>1, <2>3, <2>4, T4ReadMoves
<1> QED BY <1>1, <1>6, <1>7, <1>8, <1>9, <1>10 DEF T4Doing

(* A command or an answer that is lost keeps the invariant.                 *)
LEMMA T4LossKeeps ==
  ASSUME T4Inv, T4!NoAnswer
  PROVE  /\ T4Inv' /\ WriteStep(T4!Writable) /\ Busy /\ Keeps
         /\ Effect(call, T4!Content, None, T4!Content', None)
<1>1. /\ Busy /\ Keeps /\ top' = top /\ ~call'.clean /\ (~T4Only => Fails) /\ T4Tag'
      /\ Effect(call, T4!Content, None, T4!Content', None)
  BY T4LostIs, T4LostTag
<1>2. WriteStep(T4!Writable)
  BY <1>1 DEF WriteStep
<1>3. T4Top' /\ (T4Knows => T4Knows')
  BY <1>1 DEF T4Inv, T4Top, T4Knows
<1>4. CASE T4Only
  BY <1>1, <1>2, <1>3, <1>4, T4LostMoves, T4GoesKeeps DEF T4Moves
<1>5. CASE ~T4Only
  BY <1>1, <1>2, <1>3, <1>5, T4FailsKeeps
<1> QED BY <1>4, <1>5

-----------------------------------------------------------------------------
(* A refusal: the call fails, or CheckNdef goes on to create the files.     *)
LEMMA T4RefusedWrite ==
  ASSUME T4Inv, T4!Refused, call.op = "write"
  PROVE  ~T4!Writable
<1> SUFFICES ASSUME T4!Writable
             PROVE  FALSE
  OBVIOUS
<1>1. /\ Busy /\ ~call.gone /\ T4!Refuses(Head1) /\ CallOK
      /\ tag.app /\ tag.cc = "valid" /\ tag.file /\ tag.wa = "RW" /\ top.wa = "RW"
  BY T4WasRefused DEF T4Inv, T4!Writable
<1>2. T4Writing
  BY <1>1 DEF T4Inv, T4Doing, T4Checking, T4Formatting, T4Erasing, T4Reading
<1>3. PICK m, n, b, left : T4Storing(m, n, b, left)
  BY <1>1, <1>2, T4Stores
<1>4. n \in Nat /\ n > 0 /\ b = 1 /\ T4Written(m, n, b, left)
  BY <1>1, <1>3 DEF T4Storing
<1>5. \/ left = 1 /\ Head1 = C("SelectMaster", 0)
      \/ left = b + 1 /\ Head1 = C("UpdateLen", n)
      \/ left \in b + 2 .. b + n + 1 /\ Head1 = C("Update", b + n + 2 - left)
      \/ left = b + n + 2 /\ Head1 = C("UpdateLen", 0)
      \/ left = b + n + 3 /\ Head1 = C("SelectFile", 0)
      \/ left = b + n + 4 /\ Head1 = C("ReadAccess", 0)
      \/ left = b + n + 5 /\ Head1 = C("SelectCc", 0)
      \/ left = b + n + 6 /\ Head1 = C("SelectApp", 0)
  BY <1>1, <1>3, <1>4, T4StoringHead
<1>6. /\ left <= b + n + 5 => tag.dir = "app"
      /\ left \in b + 1 .. b + n + 2 => tag.ef = "ndef"
  BY <1>1, <1>4 DEF T4Written
<1>7. CASE Head1.name \in {"UpdateLen", "Update"}
  <2>1. left \in b + 1 .. b + n + 2
    BY <1>4, <1>5, <1>7 DEF C
  <2> QED BY <1>1, <1>6, <1>7, <2>1 DEF T4!Refuses, T4!Updates
<1>8. CASE Head1.name \in {"SelectFile", "SelectCc"}
  <2>1. left <= b + n + 5
    BY <1>4, <1>5, <1>8 DEF C
  <2> QED BY <1>1, <1>6, <1>8, <2>1 DEF T4!Refuses, T4!Updates
<1>9. CASE Head1.name \in {"SelectApp", "ReadAccess", "SelectMaster"}
  BY <1>1, <1>9 DEF T4!Refuses, T4!Updates
<1> QED BY <1>5, <1>7, <1>8, <1>9 DEF C

(* A check of a card without the application goes on with its format.       *)
LEMMA T4AgainMoves ==
  ASSUME CallOK, Busy, T4Doing, Again, Keeps, GoesOn(T4!AutoFormat)
  PROVE  T4Doing'
<1>1. PICK s : s = T4!AutoFormat
  OBVIOUS
<1>2. /\ T4Checking /\ s \in Seq(Commands) /\ Len(s) = 13
      /\ Follows(s, T4CheckPlan("SelectAppAgain"))
  BY <1>1, T4AgainIs, T4AutoFormat
<1>3. /\ call'.op = "check" /\ call'.msg = None /\ ~call'.checked /\ call'.todo = s /\ Left' = 13
  BY <1>1, <1>2 DEF T4Checking, Keeps, GoesOn, Left
<1>4. T4CheckPlan("SelectAppAgain")' = T4CheckPlan("SelectAppAgain")
  BY DEF T4CheckPlan, T4Creates
<1>5. T4Created(Left - 6)'
  <2>1. ~(Left' - 6 \in 1 .. 6) /\ ~(Left' - 6 \in 1 .. 3)
    BY <1>3
  <2> QED BY <2>1 DEF T4Created
<1>6. T4Checking'
  BY <1>2, <1>3, <1>4, <1>5 DEF T4Checking
<1> QED BY <1>6 DEF T4Doing

(* A refusal keeps the invariant.                                           *)
LEMMA T4RefusedKeeps ==
  ASSUME T4Inv, T4!Refused
  PROVE  /\ T4Inv' /\ WriteStep(T4!Writable) /\ Busy /\ Keeps
         /\ Effect(call, T4!Content, None, T4!Content', None)
<1>1. /\ Busy /\ ~call.gone /\ T4!Refuses(Head1) /\ tag' = tag /\ Keeps
      /\ T4KeepsTop /\ (Again => GoesOn(T4!AutoFormat)) /\ (~Again => Fails) /\ CallOK /\ T4Doing
  BY T4WasRefused DEF T4Inv
<1>2. T4Tag' /\ Effect(call, T4!Content, None, T4!Content', None) /\ T4Top' /\ (T4Knows => T4Knows')
  BY <1>1, T4ContentIs DEF T4Inv, T4Tag, T4Shape, Effect, T4KeepsTop
<1>3. WriteStep(T4!Writable)
  BY <1>1, T4RefusedWrite DEF WriteStep, Keeps
<1>4. CASE ~Again
  BY <1>1, <1>2, <1>3, <1>4, T4FailsKeeps
<1>5. CASE Again
  <2>1. T4Doing'
    BY <1>1, <1>5, T4AgainMoves
  <2> QED BY <1>1, <1>2, <1>3, <1>5, <2>1, T4GoesKeeps DEF GoesOn
<1> QED BY <1>4, <1>5

-----------------------------------------------------------------------------
(* An answer.                                                               *)
Looks == {"CheckCc", "CheckLen", "ReadCc", "ReadAccess", "ReadLen", "Read"}

(* What an answer makes of call, card and parameters.                       *)
LEMMA T4AnswerIs ==
  ASSUME T4Inv, T4!Answer
  PROVE  /\ Busy /\ CallOK /\ T4Doing /\ ~call.gone /\ ~T4!Refuses(Head1)
         /\ tag' = T4!Execute(Head1) /\ top' = T4!Learnt(Head1) /\ Keeps
         /\ T4Shape(tag) /\ T4Tag' /\ T4Top /\ T4KeepsTop /\ T4Known
         /\ Effect(call, T4!Content, None, T4!Content', None)
         /\ T4!Verdict(Head1) = "BUSY" /\ ~(Again /\ top.notFound) /\ Left # 1 => T4Moves /\ ~call'.gone
         /\ Head1.name = "SelectMaster" /\ Left = 1 => Succeeds
         /\ T4!Verdict(Head1) # "BUSY" => Fails
<1>1. /\ Busy /\ ~call.gone /\ ~T4!Refuses(Head1) /\ tag' = T4!Execute(Head1) /\ top' = T4!Learnt(Head1)
      /\ Keeps
      /\ T4!Verdict(Head1) = "BUSY" /\ ~(Again /\ top.notFound) =>
              (Left # 1 => GoesOn(Tail(call.todo))) /\ (Left = 1 => Succeeds)
      /\ T4!Verdict(Head1) # "BUSY" => Fails
  BY T4Answered
<1>2. CallOK /\ T4Doing /\ T4Shape(tag) /\ T4Top /\ T4Known
  BY DEF T4Inv, T4Tag
<1>3. T4Does(tag')
  <2>1. PICK t : t = T4!Execute(Head1)
    OBVIOUS
  <2>2. T4Does(t)
    BY <1>1, <2>1, T4Executed
  <2> QED BY <1>1, <2>1, <2>2
<1>4. T4Tag' /\ Effect(call, T4!Content, None, T4!Content', None)
  BY <1>3, T4ContentIs DEF T4Does, T4Tag, T4Shape
<1>5. T4KeepsTop
  BY <1>1, T4LearntKeeps
<1>6. Head1.name = "SelectMaster" => T4!Verdict(Head1) = "BUSY" /\ ~Again
  BY DEF T4!Verdict, Again
<1> QED BY <1>1, <1>2, <1>4, <1>5, <1>6 DEF GoesOn, T4Moves

(* A select and a read change no file.                                      *)
LEMMA T4SameFiles ==
  ASSUME T4Shape(tag), tag' = T4!Execute(Head1), Head1.name \in Selects \cup Looks
  PROVE  /\ tag'.cc = tag.cc /\ tag'.len = tag.len /\ tag'.cells = tag.cells
         /\ tag'.app = tag.app /\ tag'.file = tag.file
         /\ Head1.name \in Looks \cup {"SelectCc", "SelectFile"} => tag'.dir = tag.dir
         /\ Head1.name \in Looks => tag'.ef = tag.ef
         /\ Head1.name = "SelectFile" => tag'.ef = "ndef"
         /\ Head1.name = "SelectApp" => tag'.dir = "app"
<1>1. PICK d, e : tag' = [tag EXCEPT !.dir = d, !.ef = e]
                  /\ (Head1.name \in Looks \cup {"SelectCc", "SelectFile"} => d = tag.dir)
                  /\ (Head1.name \in Looks => e = tag.ef)
                  /\ (Head1.name = "SelectFile" => e = "ndef")
                  /\ (Head1.name = "SelectApp" => d = "app")
  <2>1. CASE Head1.name \in {"SelectApp", "SelectAppAgain", "SelectCreated"}
    <3>1. tag' = [tag EXCEPT !.dir = "app", !.ef = "none"]
      BY <2>1 DEF T4!Execute
    <3> QED BY <2>1, <3>1 DEF Looks
  <2>2. CASE Head1.name = "SelectMaster"
    <3>1. tag' = [tag EXCEPT !.dir = "master", !.ef = "none"]
      BY <2>2 DEF T4!Execute
    <3> QED BY <2>2, <3>1 DEF Looks
  <2>3. CASE Head1.name = "SelectCc"
    <3>1. tag' = [tag EXCEPT !.dir = tag.dir, !.ef = "cc"]
      BY <2>3 DEF T4!Execute, T4Shape
    <3> QED BY <2>3, <3>1 DEF Looks
  <2>4. CASE Head1.name = "SelectFile"
    <3>1. tag' = [tag EXCEPT !.dir = tag.dir, !.ef = "ndef"]
      BY <2>4 DEF T4!Execute, T4Shape
    <3> QED BY <2>4, <3>1 DEF Looks
  <2>5. CASE Head1.name \in Looks
    <3>1. tag' = [tag EXCEPT !.dir = tag.dir, !.ef = tag.ef]
      BY <2>5 DEF T4!Execute, T4Shape, Looks
    <3> QED BY <2>5, <3>1 DEF Looks
  <2> QED BY <2>1, <2>2, <2>3, <2>4, <2>5 DEF Selects
<1>2. tag'.cc = tag.cc /\ tag'.len = tag.len /\ tag'.cells = tag.cells /\ tag'.dir = d /\ tag'.ef = e
  BY <1>1 DEF T4Shape
<1>3. tag'.app = tag.app
  BY <1>1 DEF T4Shape
<1>4. tag'.file = tag.file
  BY <1>1 DEF T4Shape
<1> QED BY <1>1, <1>2, <1>3, <1>4

(* One more file is there.                                                  *)
LEMMA T4CreatesOne ==
  ASSUME T4Shape(tag), Busy, ~call.gone, ~T4!Refuses(Head1), tag' = T4!Execute(Head1),
         NEW j, T4Creating(j)
  PROVE  T4Created(j - 1)' /\ (j = 1 => tag'.len = 0)
<1>1. /\ j \in 1 .. 6 => tag.app /\ tag.len = 0
      /\ j \in 1 .. 3 => tag.file
  BY DEF T4Creating, T4Created
<1>2. CASE j = 1 /\ Head1 = C("SelectMaster", 0)
  <2>1. Head1.name = "SelectMaster"
    BY <1>2 DEF C
  <2>2. tag'.len = 0
    BY <1>1, <1>2, <2>1, T4SameFiles DEF Selects
  <2> QED BY <1>2, <2>2 DEF T4Created
<1>3. CASE j = 2 /\ Head1 = C("WriteLen", 0)
  <2>1. tag' = [tag EXCEPT !.len = 0]
    BY <1>3 DEF T4!Execute, C
  <2>2. tag' = tag
    BY <1>1, <1>3, <2>1 DEF T4Shape
  <2> QED BY <1>1, <1>3, <2>2 DEF T4Created
<1>4. CASE j = 3 /\ Head1 = C("WriteCc", 0)
  <2>1. tag' = [tag EXCEPT !.cc = "valid", !.wa = top.wa]
    BY <1>4 DEF T4!Execute, C
  <2>2. tag'.len = tag.len
    BY <2>1 DEF T4Shape
  <2>3. tag'.app = tag.app
    BY <2>1 DEF T4Shape
  <2>4. tag'.file = tag.file
    BY <2>1 DEF T4Shape
  <2> QED BY <1>1, <1>4, <2>2, <2>3, <2>4 DEF T4Created
<1>5. CASE j = 4 /\ Head1 = C("CreateFile", 0)
  <2>1. tag' = [tag EXCEPT !.file = TRUE]
    BY <1>5 DEF T4!Execute, C
  <2>2. tag'.len = tag.len /\ tag'.file
    BY <2>1 DEF T4Shape
  <2>3. tag'.app = tag.app
    BY <2>1 DEF T4Shape
  <2> QED BY <1>1, <1>5, <2>2, <2>3 DEF T4Created
<1>6. CASE j = 5 /\ Head1 = C("CreateCc", 0)
  <2>1. tag' = [tag EXCEPT !.cc = "empty"]
    BY <1>6 DEF T4!Execute, C
  <2>2. tag'.len = tag.len
    BY <2>1 DEF T4Shape
  <2>3. tag'.app = tag.app
    BY <2>1 DEF T4Shape
  <2> QED BY <1>1, <1>6, <2>2, <2>3 DEF T4Created
<1>7. CASE j = 6 /\ Head1 = C("SelectCreated", 0)
  <2>1. Head1.name = "SelectCreated"
    BY <1>7 DEF C
  <2>2. tag'.len = tag.len /\ tag'.app = tag.app
    BY <2>1, T4SameFiles DEF Selects
  <2> QED BY <1>1, <1>7, <2>2 DEF T4Created
<1>8. CASE j = 7 /\ Head1 = C("CreateApp", 0)
  <2>1. tag' = [tag EXCEPT !.app = TRUE]
    BY <1>8 DEF T4!Execute, C
  <2>2. Head1.name = "CreateApp"
    BY <1>8 DEF C
  <2>3. ~tag.app
    BY <2>2 DEF T4!Refuses, T4!Updates
  <2>4. tag'.len = 0 /\ tag'.app
    BY <2>1, <2>3 DEF T4Shape
  <2> QED BY <1>8, <2>4 DEF T4Created
<1> QED BY <1>2, <1>3, <1>4, <1>5, <1>6, <1>7, <1>8, T4CreatingHead

(* An answer to a check keeps the invariant.                                *)
LEMMA T4AnswerCheck ==
  ASSUME T4Inv, T4Checking, T4!Answer
  PROVE  T4Inv' /\ WriteStep(T4!Writable)
<1>1. /\ Busy /\ CallOK /\ T4Doing /\ ~call.gone /\ ~T4!Refuses(Head1)
      /\ tag' = T4!Execute(Head1) /\ top' = T4!Learnt(Head1) /\ Keeps
      /\ T4Shape(tag) /\ T4Tag' /\ T4Top /\ T4KeepsTop
      /\ T4!Verdict(Head1) = "BUSY" /\ ~(Again /\ top.notFound) /\ Left # 1 => T4Moves
      /\ Head1.name = "SelectMaster" /\ Left = 1 => Succeeds
      /\ T4!Verdict(Head1) # "BUSY" => Fails
      /\ call.op = "check"
  BY T4AnswerIs DEF T4Checking
<1>2. WriteStep(T4!Writable)
  BY <1>1 DEF WriteStep, Keeps
<1>3. PICK left : left = Left
  OBVIOUS
<1>4. /\ left = 4 => tag.cc # "absent"
      /\ left <= 3 => top.max = Room
      /\ left = 1 => top.support
  BY <1>1, <1>3 DEF T4Checking
\* What is left to show when the call goes on.
<1>5. ASSUME T4Doing', call'.status = "BUSY", call'.checked = call.checked
      PROVE  T4Inv' /\ WriteStep(T4!Writable)
  BY <1>1, <1>2, <1>5, T4GoesKeeps DEF T4KeepsTop
<1>6. ASSUME left # 1, ~(Again /\ top.notFound), T4!Verdict(Head1) = "BUSY",
             left - 1 > 6 => T4Created(left - 1 - 6)',
             left = 5 => tag'.cc # "absent",
             left <= 4 => top'.max = Room,
             left = 2 => top'.support
      PROVE  T4Inv' /\ WriteStep(T4!Writable)
  <2>1. T4Moves /\ T4Doing'
    BY <1>1, <1>3, <1>6, T4CheckMoves
  <2> QED BY <1>5, <2>1 DEF T4Moves
<1>7. CASE left = 1 /\ Head1 = C("SelectMaster", 0)
  <2>1. Succeeds /\ call'.op = "check" /\ T4Knows'
    BY <1>1, <1>3, <1>4, <1>7 DEF C, Keeps, T4KeepsTop, T4Knows
  <2>2. EndedWell(call, T4!Content, TRUE)'
    BY <2>1, NotEnded
  <2> QED BY <1>1, <1>2, <2>1, <2>2, T4SucceedsKeeps DEF T4KeepsTop
<1>8. CASE left = 2 /\ Head1 = C("CheckLen", 0)
  <2>1. Head1.name = "CheckLen"
    BY <1>8 DEF C
  <2>2. T4!Verdict(Head1) = "BUSY" /\ ~Again
    BY <2>1 DEF T4!Verdict, Again
  <2>3. top'.support
    <3>1. PICK x, y, z : top' = [top EXCEPT !.support = TRUE, !.len = x, !.presence = y, !.state = z]
      BY <1>1, <2>1 DEF T4!Learnt
    <3> QED BY <1>1, <3>1 DEF T4Top
  <2>4. top'.max = Room
    BY <1>1, <1>4, <1>8, <2>1 DEF T4KeepsTop
  <2> QED BY <1>6, <1>8, <2>2, <2>3, <2>4
<1>9. CASE left = 3 /\ Head1 = C("SelectFile", 0)
  <2>1. Head1.name = "SelectFile"
    BY <1>9 DEF C
  <2>2. T4!Verdict(Head1) = "BUSY" /\ ~Again
    BY <1>1, <2>1 DEF T4!Verdict, Again
  <2>3. top'.max = Room
    BY <1>1, <1>4, <1>9, <2>1 DEF T4KeepsTop
  <2> QED BY <1>6, <1>9, <2>2, <2>3
<1>10. CASE left = 4 /\ Head1 = C("CheckCc", 0)
  <2>1. Head1.name = "CheckCc"
    BY <1>10 DEF C
  <2>2. CASE tag.cc = "empty"
    <3>1. T4!Verdict(Head1) # "BUSY"
      BY <2>1, <2>2 DEF T4!Verdict
    <3> QED BY <1>1, <1>2, <3>1, T4FailsKeeps DEF T4KeepsTop
  <2>3. CASE tag.cc # "empty"
    <3>1. T4!Verdict(Head1) = "BUSY" /\ ~Again /\ tag.cc = "valid"
      BY <1>1, <1>4, <1>10, <2>1, <2>3 DEF T4!Verdict, Again, T4Shape
    <3>2. top' = [top EXCEPT !.wa = tag.wa, !.max = Room]
      BY <1>1, <2>1, <3>1 DEF T4!Learnt
    <3>3. top'.max = Room
      BY <1>1, <3>2 DEF T4Top
    <3> QED BY <1>6, <1>10, <3>1, <3>3
  <2> QED BY <2>2, <2>3
<1>11. CASE left = 5 /\ Head1 = C("SelectCc", 0)
  <2>1. Head1.name = "SelectCc"
    BY <1>11 DEF C
  <2>2. T4!Verdict(Head1) = "BUSY" /\ ~Again /\ tag.cc # "absent"
    BY <1>1, <2>1 DEF T4!Verdict, Again, T4!Refuses, T4!Updates
  <2>3. tag'.cc = tag.cc
    BY <1>1, <2>1, T4SameFiles DEF Selects
  <2> QED BY <1>6, <1>11, <2>2, <2>3
<1>12. CASE left = 6 /\ Head1 = C("SelectApp", 0)
  <2>1. Head1.name = "SelectApp"
    BY <1>12 DEF C
  <2>2. T4!Verdict(Head1) = "BUSY" /\ Again
    BY <1>1, <2>1 DEF T4!Verdict, Again
  <2>3. CASE top.notFound
    <3>1. GoesOn(T4!AutoFormat)
      BY <2>2, <2>3, T4Answered
    <3>2. T4Doing'
      BY <1>1, <2>2, <3>1, T4AgainMoves
    <3> QED BY <1>5, <3>1, <3>2 DEF GoesOn
  <2>4. CASE ~top.notFound
    BY <1>6, <1>12, <2>2, <2>4
  <2> QED BY <2>3, <2>4
<1>13. CASE left = 6 /\ Head1 = C("SelectAppAgain", 0)
  <2>1. Head1.name = "SelectAppAgain"
    BY <1>13 DEF C
  <2>2. T4!Verdict(Head1) = "BUSY" /\ ~Again
    BY <2>1 DEF T4!Verdict, Again
  <2> QED BY <1>6, <1>13, <2>2
<1>14. CASE left \in 7 .. 13 /\ T4Creating(left - 6)
  <2>1. PICK j : j = left - 6 /\ T4Creating(j)
    BY <1>14
  <2>2. T4Created(j - 1)'
    BY <1>1, <2>1, T4CreatesOne
  <2>3. Head1.name \in Creators \cup {"SelectCreated", "SelectMaster"}
    BY <2>1, T4CreatingHead DEF C, Creators
  <2>4. T4!Verdict(Head1) = "BUSY" /\ ~Again
    BY <2>3 DEF T4!Verdict, Again, Creators
  <2>5. left - 1 - 6 = j - 1 /\ left # 1 /\ left # 5 /\ ~(left <= 4) /\ left # 2
    BY <1>14, <2>1
  <2>6. T4Created(left - 1 - 6)'
    BY <2>2, <2>5 DEF T4Created
  <2> QED BY <1>6, <2>4, <2>5, <2>6
<1> QED BY <1>1, <1>3, <1>7, <1>8, <1>9, <1>10, <1>11, <1>12, <1>13, <1>14, T4CheckHead

-----------------------------------------------------------------------------
(* A format or an erase that succeeds leaves no message.                    *)
LEMMA T4Wiped ==
  ASSUME T4Inv, T4!Answer, Succeeds, call.op \in {"format", "erase"}, call.msg = None, tag'.len = 0
  PROVE  T4Inv'
<1>1. Keeps /\ T4Tag' /\ T4KeepsTop /\ T4Known
  BY T4AnswerIs
<1>2. /\ call'.op = call.op /\ call'.msg = None /\ call'.status = "SUCCESS"
      /\ call'.checked => call.checked
  BY <1>1 DEF Succeeds, Keeps
<1>3. T4!Content' = None
  BY T4ContentIs
<1>4. EndedWell(call, T4!Content, TRUE)'
  BY <1>2, <1>3 DEF EndedWell, Ended
<1>5. T4Top' /\ (call'.checked => T4Knows')
  BY <1>1, <1>2 DEF T4KeepsTop, T4Known, T4Knows
<1> QED BY <1>1, <1>4, <1>5, T4SucceedsKeeps

(* An answer to an erase, or to a format of a formatted card, keeps the     *)
(* invariant.                                                               *)
LEMMA T4AnswerWipe ==
  ASSUME T4Inv, T4!Answer, NEW z, NEW left, T4Wiping(z, left)
  PROVE  T4Inv' /\ WriteStep(T4!Writable)
<1>1. /\ Busy /\ CallOK /\ ~T4!Refuses(Head1) /\ ~call.gone
      /\ tag' = T4!Execute(Head1) /\ Keeps
      /\ T4Shape(tag) /\ T4Tag' /\ T4KeepsTop
      /\ T4!Verdict(Head1) = "BUSY" /\ ~(Again /\ top.notFound) /\ Left # 1 => T4Moves
      /\ Head1.name = "SelectMaster" /\ Left = 1 => Succeeds
  BY T4AnswerIs
<1>2. /\ call.op \in {"format", "erase"} /\ call.msg = None /\ left = Left /\ left \in 1 .. z + 5
      /\ z \in Nat /\ z > 0 /\ (left <= z => tag.len = 0)
  BY DEF T4Wiping
<1>3. WriteStep(T4!Writable)
  BY <1>1, <1>2 DEF WriteStep, Keeps
<1>4. \/ left = 1 /\ Head1 = C("SelectMaster", 0)
      \/ left \in 2 .. z + 1 /\ Head1 = C("Zero", z + 2 - left)
      \/ left = z + 2 /\ Head1 = C("SelectFile", 0)
      \/ left = z + 3 /\ Head1 = C("ReadCc", 0)
      \/ left = z + 4 /\ Head1 = C("SelectCc", 0)
      \/ left = z + 5 /\ Head1 = C("SelectApp", 0)
  BY <1>1, T4WipingHead
<1>5. CASE left = 1 /\ Head1 = C("SelectMaster", 0)
  <2>1. Head1.name = "SelectMaster"
    BY <1>5 DEF C
  <2>2. tag'.len = 0
    BY <1>1, <1>2, <1>5, <2>1, T4SameFiles DEF Selects
  <2>3. Succeeds
    BY <1>1, <1>2, <1>5, <2>1
  <2> QED BY <1>2, <1>3, <2>2, <2>3, T4Wiped
<1>6. CASE left # 1
  <2>1. Head1.name \in {"Zero", "SelectFile", "ReadCc", "SelectCc", "SelectApp"}
    BY <1>4, <1>6 DEF C
  <2>2. T4!Verdict(Head1) = "BUSY" /\ ~Again
    BY <1>2, <2>1 DEF T4!Verdict, Again
  <2>3. T4Moves /\ top'.len = top.len
    BY <1>1, <1>2, <1>6, <2>1, <2>2 DEF T4KeepsTop
  <2>4. ASSUME left - 1 <= z
        PROVE  tag'.len = 0
    <3>1. left \in 2 .. z + 1 /\ Head1.name = "Zero"
      BY <1>2, <1>4, <1>6, <2>4 DEF C
    <3>2. PICK t : t = T4!Execute(Head1)
      OBVIOUS
    <3>3. t.len = 0
      BY <1>1, <3>1, <3>2, T4ZeroExecuted
    <3> QED BY <1>1, <3>2, <3>3
  <2>5. T4Doing'
    BY <1>1, <2>3, <2>4, T4WipingMoves
  <2> QED BY <1>1, <1>3, <2>3, <2>5, T4GoesKeeps DEF T4Moves, T4KeepsTop
<1> QED BY <1>2, <1>4, <1>5, <1>6

(* An answer to a format that creates the files keeps the invariant.        *)
LEMMA T4AnswerCreate ==
  ASSUME T4Inv, T4!Answer, call.op = "format", T4Creating(Left), Follows(call.todo, T4FormatPlan)
  PROVE  T4Inv' /\ WriteStep(T4!Writable)
<1>1. /\ Busy /\ CallOK /\ ~T4!Refuses(Head1) /\ ~call.gone
      /\ tag' = T4!Execute(Head1) /\ Keeps
      /\ T4Shape(tag) /\ T4Tag' /\ T4KeepsTop
      /\ T4!Verdict(Head1) = "BUSY" /\ ~(Again /\ top.notFound) /\ Left # 1 => T4Moves
      /\ Head1.name = "SelectMaster" /\ Left = 1 => Succeeds
  BY T4AnswerIs
<1>2. WriteStep(T4!Writable)
  BY <1>1 DEF WriteStep, Keeps
<1>3. PICK left : left = Left /\ T4Creating(left)
  OBVIOUS
<1>4. T4Created(left - 1)' /\ (left = 1 => tag'.len = 0)
  BY <1>1, <1>3, T4CreatesOne
<1>5. /\ Head1.name \in Creators \cup {"SelectCreated", "SelectMaster"}
      /\ left = 1 => Head1.name = "SelectMaster"
  BY <1>3, T4CreatingHead DEF C, Creators
<1>6. CASE left = 1
  BY <1>1, <1>2, <1>3, <1>4, <1>5, <1>6, T4Wiped DEF T4Creating
<1>7. CASE left # 1
  <2>1. T4!Verdict(Head1) = "BUSY" /\ ~Again
    BY <1>5 DEF T4!Verdict, Again, Creators
  <2>2. T4Moves
    BY <1>1, <1>3, <1>7, <2>1
  <2>3. T4Doing'
    BY <1>1, <1>3, <1>4, <2>2, T4CreatingMoves
  <2> QED BY <1>1, <1>2, <2>2, <2>3, T4GoesKeeps DEF T4Moves, T4KeepsTop
<1> QED BY <1>6, <1>7

(* An answer to a format keeps the invariant.                               *)
LEMMA T4AnswerFormat ==
  ASSUME T4Inv, T4!Answer, T4Formatting \/ T4Erasing
  PROVE  T4Inv' /\ WriteStep(T4!Writable)
<1>1. Busy /\ CallOK /\ T4Top
  BY T4AnswerIs
<1>2. T4Wiping(Pieces, Left) \/ (call.op = "format" /\ T4Creating(Left) /\ Follows(call.todo, T4FormatPlan))
  BY <1>1, T4FormatHead, T4Wipes DEF T4Formatting, T4Erasing
<1>3. CASE T4Wiping(Pieces, Left)
  <2>1. PICK z, left : T4Wiping(z, left)
    BY <1>3
  <2> QED BY <2>1, T4AnswerWipe
<1> QED BY <1>2, <1>3, T4AnswerCreate

(* An answer to a read keeps the invariant.                                 *)
LEMMA T4AnswerRead ==
  ASSUME T4Inv, T4Reading, T4!Answer
  PROVE  T4Inv' /\ WriteStep(T4!Writable)
<1>1. /\ Busy /\ CallOK /\ ~call.gone /\ ~T4!Refuses(Head1)
      /\ tag' = T4!Execute(Head1) /\ Keeps
      /\ T4Shape(tag) /\ T4Tag' /\ T4Top /\ T4KeepsTop /\ T4Known
      /\ T4!Verdict(Head1) = "BUSY" /\ ~(Again /\ top.notFound) /\ Left # 1 => T4Moves
      /\ Head1.name = "SelectMaster" /\ Left = 1 => Succeeds
      /\ T4!Verdict(Head1) # "BUSY" => Fails
      /\ call.op = "read" /\ call.msg = None
  BY T4AnswerIs DEF T4Reading
<1>2. WriteStep(T4!Writable)
  BY <1>1 DEF WriteStep, Keeps
<1>3. PICK l, left : l = top.len /\ left = Left
  OBVIOUS
<1>4. /\ l \in 0 .. Room /\ Room \in Nat /\ left \in 1 .. l + 6
      /\ left <= l + 2 => tag.cc = "valid"
      /\ left <= l + 1 => tag.len = l
      /\ Len(call.got) = (IF left <= l THEN l + 1 - left ELSE 0) /\ GotCells
  BY <1>1, <1>3, T4ReadHead DEF T4Reading
<1>5. \/ left = 1 /\ Head1 = C("SelectMaster", 0)
      \/ left \in 2 .. l + 1 /\ Head1 = C("Read", l + 2 - left)
      \/ left = l + 2 /\ Head1 = C("ReadLen", 0)
      \/ left = l + 3 /\ Head1 = C("SelectFile", 0)
      \/ left = l + 4 /\ Head1 = C("ReadCc", 0)
      \/ left = l + 5 /\ Head1 = C("SelectCc", 0)
      \/ left = l + 6 /\ Head1 = C("SelectApp", 0)
  BY <1>1, <1>3, T4ReadHead
<1>6. /\ Head1.name \in Looks \cup {"SelectMaster", "SelectFile", "SelectCc", "SelectApp"}
      /\ Head1.name \notin {"CheckLen", "UpdateLen"} /\ ~Again
  BY <1>1, <1>5 DEF C, Looks, Again
<1>7. tag'.cc = tag.cc /\ tag'.len = tag.len /\ tag'.cells = tag.cells /\ top'.len = l
  BY <1>1, <1>3, <1>6, T4SameFiles DEF Selects, T4KeepsTop
<1>8. call'.got = IF Head1.name = "Read" THEN Append(call.got, tag.cells[Head1.k]) ELSE call.got
  BY T4Answered
\* What is left to show when the call goes on.
<1>9. ASSUME left # 1, T4!Verdict(Head1) = "BUSY",
             left - 1 <= l + 2 => tag'.cc = "valid",
             left - 1 <= l + 1 => tag'.len = l,
             Len(call'.got) = (IF left - 1 <= l THEN l + 1 - (left - 1) ELSE 0), GotCells'
      PROVE  T4Inv' /\ WriteStep(T4!Writable)
  <2>1. T4Moves
    BY <1>1, <1>3, <1>6, <1>9
  <2>2. T4Doing'
    BY <1>1, <1>3, <1>7, <1>9, <2>1, T4ReadMoves
  <2> QED BY <1>1, <1>2, <2>1, <2>2, T4GoesKeeps DEF T4Moves, T4KeepsTop
<1>10. CASE left = 1 /\ Head1 = C("SelectMaster", 0)
  <2>1. Head1.name = "SelectMaster"
    BY <1>10 DEF C
  <2>2. Succeeds /\ call'.got = call.got
    BY <1>1, <1>3, <1>8, <1>10, <2>1
  <2>3. /\ call'.op = "read" /\ call'.msg = None /\ call'.status = "SUCCESS"
        /\ call'.checked => call.checked
    BY <1>1, <2>2 DEF Succeeds, Keeps
  <2>4. tag.cc = "valid" /\ tag.len = l /\ Len(call.got) = l
    BY <1>4, <1>10
  <2>5. T4!Content' = Stored(tag'.cells, l)
    <3>1. T4Shape(tag')
      BY <1>1 DEF T4Tag, T4Shape
    <3> QED BY <1>7, <2>4, <3>1, T4ContentIs
  <2>6. Stored(call'.got, Len(call'.got)) = T4!Content'
    <3>1. Stored(call.got, l) = Stored(tag.cells, l)
      BY <1>4, <2>4, StoredSame DEF GotCells
    <3> QED BY <1>7, <2>2, <2>4, <2>5, <3>1
  <2>7. EndedWell(call, T4!Content, TRUE)'
    BY <2>3, <2>6 DEF EndedWell, Ended
  <2>8. T4Top' /\ (call'.checked => T4Knows')
    BY <1>1, <2>3 DEF T4KeepsTop, T4Known, T4Knows
  <2> QED BY <1>1, <1>2, <2>2, <2>7, <2>8, T4SucceedsKeeps
<1>11. CASE left \in 2 .. l + 1 /\ Head1 = C("Read", l + 2 - left)
  <2>1. PICK k : k = l + 2 - left
    OBVIOUS
  <2>2. Head1.name = "Read" /\ Head1.k = k
    BY <1>11, <2>1 DEF C
  <2>3. T4!Verdict(Head1) = "BUSY"
    BY <2>2 DEF T4!Verdict
  <2>4. k \in Area /\ k = Len(call.got) + 1
    BY <1>4, <1>11, <2>1, RoomPositive
  <2>5. tag.cells[k] \in CellValues
    BY <1>1, <2>4 DEF T4Shape
  <2>6. GotCells' /\ Len(call'.got) = k
    BY <1>1, <1>4, <1>7, <1>8, <2>2, <2>4, <2>5, OneMoreCell
  <2>7. /\ left # 1 /\ left <= l + 1 /\ left <= l + 2
        /\ Len(call'.got) = (IF left - 1 <= l THEN l + 1 - (left - 1) ELSE 0)
    BY <1>4, <1>11, <2>1, <2>6
  <2> QED BY <1>4, <1>7, <1>9, <2>3, <2>6, <2>7
<1>12. CASE left = l + 2 /\ Head1 = C("ReadLen", 0)
  <2>1. Head1.name = "ReadLen"
    BY <1>12 DEF C
  <2>2. CASE tag.len # top.len
    <3>1. T4!Verdict(Head1) # "BUSY"
      BY <2>1, <2>2 DEF T4!Verdict
    <3> QED BY <1>1, <1>2, <3>1, T4FailsKeeps DEF T4KeepsTop
  <2>3. CASE tag.len = top.len
    <3>1. T4!Verdict(Head1) = "BUSY"
      BY <2>1, <2>3 DEF T4!Verdict
    <3>2. call'.got = call.got /\ GotCells'
      BY <1>4, <1>7, <1>8, <2>1 DEF GotCells
    <3>3. /\ left # 1 /\ left <= l + 2
          /\ Len(call.got) = (IF left - 1 <= l THEN l + 1 - (left - 1) ELSE 0)
      BY <1>4, <1>12
    <3> QED BY <1>3, <1>4, <1>7, <1>9, <2>3, <3>1, <3>2, <3>3
  <2> QED BY <2>2, <2>3
<1>13. CASE left \in l + 3 .. l + 6
  <2>1. /\ Head1.name \in {"SelectFile", "ReadCc", "SelectCc", "SelectApp"}
        /\ left = l + 3 => Head1.name = "SelectFile"
    BY <1>4, <1>5, <1>13 DEF C
  <2>2. T4!Verdict(Head1) = "BUSY"
    BY <1>1, <2>1 DEF T4!Verdict
  <2>3. call'.got = call.got /\ GotCells'
    BY <1>4, <1>7, <1>8, <2>1 DEF GotCells
  <2>4. /\ left # 1 /\ (left - 1 <= l + 2 => left = l + 3) /\ ~(left - 1 <= l + 1)
        /\ Len(call.got) = (IF left - 1 <= l THEN l + 1 - (left - 1) ELSE 0)
    BY <1>4, <1>13
  <2>5. Head1.name = "SelectFile" => tag.cc = "valid"
    BY <1>1 DEF T4!Refuses, T4!Updates, T4Shape
  <2> QED BY <1>7, <1>9, <2>1, <2>2, <2>3, <2>4, <2>5
<1> QED BY <1>4, <1>5, <1>10, <1>11, <1>12, <1>13

-----------------------------------------------------------------------------
(* A write.                                                                 *)
LEMMA T4AnswerWrite ==
  ASSUME T4Inv, T4Writing, T4!Answer
  PROVE  T4Inv' /\ WriteStep(T4!Writable)
<1>1. /\ Busy /\ CallOK /\ ~call.gone /\ ~T4!Refuses(Head1)
      /\ tag' = T4!Execute(Head1) /\ Keeps
      /\ T4Shape(tag) /\ T4Tag' /\ T4Top /\ T4KeepsTop /\ T4Known
      /\ T4!Verdict(Head1) = "BUSY" /\ ~(Again /\ top.notFound) /\ Left # 1 => T4Moves
      /\ Head1.name = "SelectMaster" /\ Left = 1 => Succeeds
      /\ T4!Verdict(Head1) # "BUSY" => Fails
  BY T4AnswerIs
<1>2. PICK m, n, b, left : T4Storing(m, n, b, left)
  BY <1>1, T4Stores
<1>3. /\ call.op = "write" /\ call.msg = m /\ m \in Messages /\ n = Size[m] /\ n \in Nat /\ n > 0
      /\ b \in {1, 3} /\ left = Left /\ left \in 1 .. b + n + 6
  BY <1>2 DEF T4Storing
<1>4. /\ left <= b + n + 5 => tag.dir = "app"
      /\ left \in b + 1 .. b + n + 2 => tag.ef = "ndef" /\ n <= top.max
      /\ left \in b + 1 .. b + n + 1 => tag.len = 0
      /\ \A k \in 1 .. n : left <= b + n + 1 - k => tag.cells[k] = m
      /\ left <= b => tag.len = n /\ tag.cc = "valid"
  BY <1>1, <1>2 DEF T4Storing, T4Written
<1>5. \/ left = 1 /\ Head1 = C("SelectMaster", 0)
      \/ b = 3 /\ left = 2 /\ Head1 = C("UpdateCc", 0)
      \/ b = 3 /\ left = 3 /\ Head1 = C("SelectCc", 0)
      \/ left = b + 1 /\ Head1 = C("UpdateLen", n)
      \/ left \in b + 2 .. b + n + 1 /\ Head1 = C("Update", b + n + 2 - left)
      \/ left = b + n + 2 /\ Head1 = C("UpdateLen", 0)
      \/ left = b + n + 3 /\ Head1 = C("SelectFile", 0)
      \/ left = b + n + 4 /\ Head1 = C("ReadAccess", 0)
      \/ left = b + n + 5 /\ Head1 = C("SelectCc", 0)
      \/ left = b + n + 6 /\ Head1 = C("SelectApp", 0)
  BY <1>1, <1>2, T4StoringHead
<1>6. /\ Head1.name \in {"SelectMaster", "UpdateCc", "SelectCc", "UpdateLen", "Update", "SelectFile",
                         "ReadAccess", "SelectApp"}
      /\ ~Again
  BY <1>3, <1>5 DEF C, Again
<1>7. top'.wa = top.wa /\ top'.max = top.max /\ T4Top' /\ (T4Knows => T4Knows')
  BY <1>1, <1>6 DEF T4KeepsTop
\* What is left to show when the call goes on.
<1>8. ASSUME left # 1, T4!Verdict(Head1) = "BUSY", T4Written(m, n, b, left - 1)'
      PROVE  T4Inv' /\ WriteStep(T4!Writable)
  <2>1. T4Moves
    BY <1>1, <1>3, <1>6, <1>8
  <2>2. T4Doing'
    BY <1>1, <1>2, <1>7, <1>8, <2>1, T4StoringMoves
  <2>3. WriteStep(T4!Writable)
    BY <2>1 DEF WriteStep, T4Moves
  <2> QED BY <1>1, <1>7, <2>1, <2>2, <2>3, T4GoesKeeps DEF T4Moves
\* And when it fails.
<1>9. ASSUME T4!Verdict(Head1) # "BUSY", ~(call.checked /\ n <= Room /\ T4!Writable)
      PROVE  T4Inv' /\ WriteStep(T4!Writable)
  <2>1. WriteStep(T4!Writable)
    BY <1>1, <1>3, <1>9 DEF WriteStep, Keeps
  <2> QED BY <1>1, <1>7, <1>9, <2>1, T4FailsKeeps
<1>10. CASE left = 1 /\ Head1 = C("SelectMaster", 0)
  <2>1. Head1.name = "SelectMaster"
    BY <1>10 DEF C
  <2>2. Succeeds
    BY <1>1, <1>3, <1>10, <2>1
  <2>3. /\ call'.op = "write" /\ call'.msg = m /\ call'.status = "SUCCESS"
        /\ call'.checked => call.checked
    BY <1>1, <1>3, <2>2 DEF Succeeds, Keeps
  <2>4. tag'.cc = "valid" /\ tag'.len = n /\ tag'.cells = tag.cells
    BY <1>1, <1>3, <1>4, <1>10, <2>1, T4SameFiles DEF Selects
  <2>5. T4!Content' = m
    <3>1. ASSUME NEW k \in 1 .. n PROVE left <= b + n + 1 - k
      BY <1>3, <1>10
    <3>2. \A k \in 1 .. n : tag'.cells[k] = m
      BY <1>4, <2>4, <3>1
    <3>3. Stored(tag'.cells, n) = m
      BY <1>3, <3>2, StoredWhole
    <3>4. T4Shape(tag')
      BY <1>1 DEF T4Tag, T4Shape
    <3> QED BY <2>4, <3>3, <3>4, T4ContentIs
  <2>6. EndedWell(call, T4!Content, TRUE)' /\ WriteStep(T4!Writable)
    BY <2>3, <2>5 DEF EndedWell, Ended, WriteStep
  <2>7. call'.checked => T4Knows'
    BY <1>1, <1>7, <2>3 DEF T4Known, T4Knows
  <2> QED BY <1>1, <1>7, <2>2, <2>6, <2>7, T4SucceedsKeeps
<1>11. CASE b = 3 /\ left = 2 /\ Head1 = C("UpdateCc", 0)
  <2>1. Head1.name = "UpdateCc"
    BY <1>11 DEF C
  <2>2. T4!Refuses(Head1)
    BY <2>1 DEF T4!Refuses, T4!Updates
  <2> QED BY <1>1, <2>2
<1>12. CASE b = 3 /\ left = 3 /\ Head1 = C("SelectCc", 0)
  <2>1. Head1.name = "SelectCc"
    BY <1>12 DEF C
  <2>2. /\ tag'.cc = tag.cc /\ tag'.len = tag.len /\ tag'.cells = tag.cells /\ tag'.dir = tag.dir
        /\ T4!Verdict(Head1) = "BUSY"
    BY <1>1, <2>1, T4SameFiles DEF Selects, Looks, T4!Verdict
  <2>3. T4Written(m, n, b, left - 1)'
    <3>1. \A k \in 1 .. n : left <= b + n + 1 - k
      BY <1>3, <1>12
    <3>2. ~(left - 1 \in b + 1 .. b + n + 2) /\ ~(left - 1 \in b + 1 .. b + n + 1)
      BY <1>3, <1>12
    <3>3. left <= b /\ left <= b + n + 5
      BY <1>3, <1>12
    <3> QED BY <1>4, <2>2, <3>1, <3>2, <3>3 DEF T4Written
  <2> QED BY <1>8, <1>12, <2>2, <2>3
<1>13. CASE left = b + 1 /\ Head1 = C("UpdateLen", n)
  <2>1. Head1.name = "UpdateLen"
    BY <1>13 DEF C
  <2>2. tag' = [tag EXCEPT !.len = n] /\ tag.cc = "valid"
    BY <1>1, <1>13, <2>1 DEF T4!Execute, C, T4!Refuses, T4!Updates, T4Shape
  <2>3. tag'.len = n /\ tag'.cc = "valid" /\ tag'.cells = tag.cells /\ tag'.dir = tag.dir
    BY <1>1, <2>2 DEF T4Shape
  <2>4. T4!Verdict(Head1) = "BUSY"
    BY <2>1 DEF T4!Verdict
  <2>5. T4Written(m, n, b, left - 1)'
    <3>1. \A k \in 1 .. n : left <= b + n + 1 - k
      BY <1>3, <1>13
    <3>2. ~(left - 1 \in b + 1 .. b + n + 2) /\ ~(left - 1 \in b + 1 .. b + n + 1)
      BY <1>3, <1>13
    <3>3. left <= b + n + 5 /\ left # 1
      BY <1>3, <1>13
    <3> QED BY <1>4, <2>3, <3>1, <3>2, <3>3 DEF T4Written
  <2>6. left # 1
    BY <1>3, <1>13
  <2> QED BY <1>8, <2>4, <2>5, <2>6
<1>14. CASE left \in b + 2 .. b + n + 1 /\ Head1 = C("Update", b + n + 2 - left)
  <2>1. PICK j : j = b + n + 2 - left
    OBVIOUS
  <2>2. Head1.name = "Update" /\ j \in 1 .. n
    BY <1>3, <1>14, <2>1 DEF C
  <2>3. PICK c : c = [tag.cells EXCEPT ![j] = m]
    OBVIOUS
  <2>4. tag' = [tag EXCEPT !.cells = c]
    <3>1. tag' = [tag EXCEPT !.cells[j] = m]
      BY <1>1, <1>3, <1>14, <2>1 DEF T4!Execute, C
    <3> QED BY <1>1, <2>3, <3>1 DEF T4Shape
  <2>5. tag'.len = tag.len /\ tag'.cells = c /\ tag'.dir = tag.dir /\ tag'.ef = tag.ef
    BY <1>1, <2>4 DEF T4Shape
  <2>6. T4!Verdict(Head1) = "BUSY"
    BY <2>2 DEF T4!Verdict
  <2>7. ASSUME NEW k \in 1 .. n, k = j \/ left <= b + n + 1 - k
        PROVE  c[k] = m
    <3>1. n <= Room /\ Room \in Nat
      <4>1. left \in b + 1 .. b + n + 2
        BY <1>3, <1>14
      <4>2. n <= top.max
        BY <1>4, <4>1
      <4>3. top.max \in {0, Room} /\ Room \in Nat
        BY <1>1, RoomPositive DEF T4Top
      <4> QED BY <1>3, <4>2, <4>3
    <3>2. k \in Area /\ j \in Area
      BY <1>3, <2>2, <3>1, RoomPositive
    <3>3. c[k] = IF k = j THEN m ELSE tag.cells[k]
      BY <1>1, <2>3, <3>2 DEF T4Shape
    <3> QED BY <1>4, <2>7, <3>3
  <2>8. T4Written(m, n, b, left - 1)'
    <3>1. \A k \in 1 .. n : left - 1 <= b + n + 1 - k => k = j \/ left <= b + n + 1 - k
      BY <1>3, <1>14, <2>1
    <3>2. left \in b + 1 .. b + n + 2 /\ left \in b + 1 .. b + n + 1 /\ left <= b + n + 5 /\ ~(left - 1 <= b)
      BY <1>3, <1>14
    <3> QED BY <1>4, <1>7, <2>5, <2>7, <3>1, <3>2 DEF T4Written
  <2>9. left # 1
    BY <1>3, <1>14
  <2> QED BY <1>8, <2>6, <2>8, <2>9
<1>15. CASE left = b + n + 2 /\ Head1 = C("UpdateLen", 0)
  <2>1. Head1.name = "UpdateLen"
    BY <1>15 DEF C
  <2>2. tag' = [tag EXCEPT !.len = 0]
    BY <1>1, <1>15 DEF T4!Execute, C
  <2>3. tag'.len = 0 /\ tag'.dir = tag.dir /\ tag'.ef = tag.ef /\ tag'.cells = tag.cells
    BY <1>1, <2>2 DEF T4Shape
  <2>4. T4!Verdict(Head1) = "BUSY"
    BY <2>1 DEF T4!Verdict
  <2>5. T4Written(m, n, b, left - 1)'
    <3>1. left \in b + 1 .. b + n + 2 /\ left <= b + n + 5 /\ ~(left - 1 <= b)
      BY <1>3, <1>15
    <3>2. \A k \in 1 .. n : ~(left - 1 <= b + n + 1 - k)
      BY <1>3, <1>15
    <3> QED BY <1>4, <1>7, <2>3, <3>1, <3>2 DEF T4Written
  <2>6. left # 1
    BY <1>3, <1>15
  <2> QED BY <1>8, <2>4, <2>5, <2>6
<1>16. CASE left = b + n + 3 /\ Head1 = C("SelectFile", 0)
  <2>1. Head1.name = "SelectFile"
    BY <1>16 DEF C
  <2>2. tag'.dir = tag.dir /\ tag'.ef = "ndef"
    BY <1>1, <2>1, T4SameFiles DEF Selects
  <2>3. top.max \in Nat /\ Room \in Nat
    BY <1>1, RoomPositive DEF T4Top
  <2>4. CASE n > top.max
    <3>1. T4!Verdict(Head1) # "BUSY"
      BY <1>3, <2>1, <2>4 DEF T4!Verdict
    <3>2. ~(call.checked /\ n <= Room)
      BY <1>1, <1>3, <2>3, <2>4 DEF T4Known
    <3> QED BY <1>9, <3>1, <3>2
  <2>5. CASE ~(n > top.max)
    <3>1. T4!Verdict(Head1) = "BUSY"
      BY <1>3, <2>1, <2>5 DEF T4!Verdict
    <3>2. n <= top'.max
      BY <1>3, <1>7, <2>3, <2>5
    <3>3. left <= b + n + 5 /\ ~(left - 1 <= b) /\ ~(left - 1 \in b + 1 .. b + n + 1) /\ left # 1
      BY <1>3, <1>16
    <3>4. \A k \in 1 .. n : ~(left - 1 <= b + n + 1 - k)
      BY <1>3, <1>16
    <3>5. T4Written(m, n, b, left - 1)'
      BY <1>4, <2>2, <3>2, <3>3, <3>4 DEF T4Written
    <3> QED BY <1>8, <3>1, <3>3, <3>5
  <2> QED BY <2>4, <2>5
\* What is left to show before the file is selected.
<1>17. ASSUME left \in b + n + 4 .. b + n + 6, T4!Verdict(Head1) = "BUSY", tag'.dir = "app"
       PROVE  T4Inv' /\ WriteStep(T4!Writable)
  <2>1. /\ ~(left - 1 <= b) /\ ~(left - 1 \in b + 1 .. b + n + 1) /\ ~(left - 1 \in b + 1 .. b + n + 2)
        /\ left # 1
    BY <1>3, <1>17
  <2>2. \A k \in 1 .. n : ~(left - 1 <= b + n + 1 - k)
    BY <1>3, <1>17
  <2>3. T4Written(m, n, b, left - 1)'
    BY <1>17, <2>1, <2>2 DEF T4Written
  <2> QED BY <1>8, <1>17, <2>1, <2>3
<1>18. CASE left = b + n + 4 /\ Head1 = C("ReadAccess", 0)
  <2>1. Head1.name = "ReadAccess"
    BY <1>18 DEF C
  <2>2. tag'.dir = tag.dir
    BY <1>1, <2>1, T4SameFiles DEF Looks
  <2>3. tag.dir = "app" /\ left \in b + n + 4 .. b + n + 6
    BY <1>3, <1>4, <1>18
  <2>4. CASE tag.cc = "valid" /\ tag.wa = "RO"
    <3>1. T4!Verdict(Head1) # "BUSY" /\ ~T4!Writable
      BY <2>1, <2>4 DEF T4!Verdict, T4!Writable
    <3> QED BY <1>9, <3>1
  <2>5. CASE ~(tag.cc = "valid" /\ tag.wa = "RO")
    <3>1. T4!Verdict(Head1) = "BUSY"
      BY <2>1, <2>5 DEF T4!Verdict
    <3> QED BY <1>17, <2>2, <2>3, <3>1
  <2> QED BY <2>4, <2>5
<1>19. CASE left = b + n + 5 /\ Head1 = C("SelectCc", 0)
  <2>1. Head1.name = "SelectCc"
    BY <1>19 DEF C
  <2>2. tag'.dir = tag.dir /\ T4!Verdict(Head1) = "BUSY"
    BY <1>1, <2>1, T4SameFiles DEF Selects, T4!Verdict
  <2>3. tag.dir = "app" /\ left \in b + n + 4 .. b + n + 6
    BY <1>3, <1>4, <1>19
  <2> QED BY <1>17, <2>2, <2>3
<1>20. CASE left = b + n + 6 /\ Head1 = C("SelectApp", 0)
  <2>1. Head1.name = "SelectApp"
    BY <1>20 DEF C
  <2>2. tag'.dir = "app" /\ T4!Verdict(Head1) = "BUSY"
    BY <1>1, <2>1, T4SameFiles DEF Selects, T4!Verdict
  <2>3. left \in b + n + 4 .. b + n + 6
    BY <1>3, <1>20
  <2> QED BY <1>17, <2>2, <2>3
<1> QED BY <1>5, <1>10, <1>11, <1>12, <1>13, <1>14, <1>15, <1>16, <1>18, <1>19, <1>20

(* Every answer of a type 4 tag keeps the invariant.                        *)
LEMMA T4AnswerKeeps ==
  ASSUME T4Inv, T4!Answer
  PROVE  /\ T4Inv' /\ WriteStep(T4!Writable) /\ Busy /\ Keeps
         /\ Effect(call, T4!Content, None, T4!Content', None)
<1>1. Busy /\ Keeps /\ Effect(call, T4!Content, None, T4!Content', None) /\ T4Doing
  BY T4AnswerIs
<1>2. T4Checking \/ T4Formatting \/ T4Writing \/ T4Erasing \/ T4Reading
  BY <1>1 DEF T4Doing
<1> QED BY <1>1, <1>2, T4AnswerCheck, T4AnswerFormat, T4AnswerWrite, T4AnswerRead

-----------------------------------------------------------------------------
(* An operation begins.                                                     *)
LEMMA FirstTwo ==
  ASSUME NEW n \in Nat, NEW plan, NEW s, NEW l \in Nat, First(s, l, n, plan),
         NEW a \in Names, NEW b \in Names, plan[n - l] = C(a, 0), plan[n - (l + 1)] = C(b, 0),
         NEW j, j = l + 2
  PROVE  First(s \o (Cmd(a) \o Cmd(b)), j, n, plan)
<1>1. PICK t : t = Cmd(a) \o Cmd(b)
  OBVIOUS
<1>2. t \in Seq(Commands) /\ Len(t) = 2 /\ t[1] = plan[n - l] /\ t[2] = plan[n - (l + 1)]
  <2>1. PICK p : p = [r \in 1 .. 2 |-> IF r = 1 THEN C(b, 0) ELSE C(a, 0)]
    OBVIOUS
  <2>2. p[2] = C(a, 0) /\ p[1] = C(b, 0)
    BY <2>1
  <2>3. t \in Seq(Commands) /\ Len(t) = 2 /\ Follows(t, p)
    BY <1>1, <2>2, TwoCommands
  <2>4. t[1] = p[2] /\ t[2] = p[1]
    BY <2>3 DEF Follows
  <2> QED BY <2>2, <2>3, <2>4
<1>3. /\ s \in Seq(Commands) /\ Len(s) = l /\ \A i \in 1 .. l : s[i] = plan[n + 1 - i]
  BY DEF First
<1>4. /\ s \o t \in Seq(Commands) /\ Len(s \o t) = j
      /\ \A i \in 1 .. l : (s \o t)[i] = s[i]
      /\ (s \o t)[l + 1] = t[1] /\ (s \o t)[l + 2] = t[2]
  <2>1. /\ s \o t \in Seq(Commands) /\ Len(s \o t) = Len(s) + Len(t)
        /\ \A i \in 1 .. Len(s) : (s \o t)[i] = s[i]
        /\ \A i \in 1 .. Len(t) : (s \o t)[Len(s) + i] = t[i]
    BY <1>2, <1>3, Together
  <2> QED BY <1>2, <1>3, <2>1
<1>5. ASSUME NEW i \in 1 .. j PROVE (s \o t)[i] = plan[n + 1 - i]
  <2>1. CASE i \in 1 .. l
    BY <1>3, <1>4, <2>1
  <2>2. CASE i = l + 1
    <3>1. n + 1 - i = n - l
      BY <2>2
    <3> QED BY <1>2, <1>4, <2>2, <3>1
  <2>3. CASE i = l + 2
    <3>1. n + 1 - i = n - (l + 1)
      BY <2>3
    <3> QED BY <1>2, <1>4, <2>3, <3>1
  <2>4. i \in 1 .. l \/ i = l + 1 \/ i = l + 2
    OBVIOUS
  <2> QED BY <2>1, <2>2, <2>3, <2>4
<1> QED BY <1>1, <1>4, <1>5 DEF First

(* What reading, writing and erasing begin with: three files are selected.  *)
LEMMA T4FilesFirst ==
  ASSUME NEW n \in Nat, n >= 4, NEW plan, NEW third \in Names,
         plan[n] = C("SelectApp", 0), plan[n - 1] = C("SelectCc", 0), plan[n - 2] = C(third, 0),
         plan[n - 3] = C("SelectFile", 0)
  PROVE  First(Cmd("SelectApp") \o Cmd("SelectCc") \o Cmd(third) \o Cmd("SelectFile"), 4, n, plan)
<1> USE DEF Names
<1> DEFINE s1 == Cell("SelectApp", 0)
           s2 == s1 \o Cell("SelectCc", 0)
           s3 == s2 \o Cell(third, 0)
<1>1. PICK l1 \in Nat, l2 \in Nat, l3 \in Nat : l1 = 1 /\ l2 = 2 /\ l3 = 3
  OBVIOUS
<1>2. First(s1, l1, n, plan)
  BY <1>1, FirstNone
<1>3. First(s2, l2, n, plan)
  BY <1>1, <1>2, FirstOne
<1> HIDE DEF s2
<1>4. First(s3, l3, n, plan)
  BY <1>1, <1>3, FirstOne
<1> HIDE DEF s3
<1>5. First(s3 \o Cell("SelectFile", 0), 4, n, plan)
  BY <1>1, <1>4, FirstOne
<1> QED BY <1>5, CmdIsCell DEF s2, s3

(* The commands of EraseNdef.                                               *)
LEMMA T4EraseStarts ==
  ASSUME NEW z \in Nat, z > 0
  PROVE  LET s == Cmd("SelectApp") \o Cmd("SelectCc") \o Cmd("ReadCc") \o Cmd("SelectFile")
                  \o Cells("Zero", 1, z) \o Cmd("SelectMaster")
         IN  s \in Seq(Commands) /\ Len(s) = z + 5 /\ Follows(s, T4ErasePlan(z))
<1>a. PICK p : p = T4ErasePlan(z)
  OBVIOUS
<1>0. PICK n \in Nat : n = z + 5 /\ p = T4ErasePlan(z)
  BY <1>a
<1>1. /\ p[n] = C("SelectApp", 0) /\ p[n - 1] = C("SelectCc", 0) /\ p[n - 2] = C("ReadCc", 0)
      /\ p[n - 3] = C("SelectFile", 0) /\ p[1] = C("SelectMaster", 0)
  <2>1. p[z + 5] = C("SelectApp", 0) /\ p[z + 4] = C("SelectCc", 0)
    BY <1>0 DEF T4ErasePlan
  <2>2. p[z + 3] = C("ReadCc", 0) /\ p[z + 2] = C("SelectFile", 0)
    BY <1>0 DEF T4ErasePlan
  <2>3. p[1] = C("SelectMaster", 0)
    BY <1>0 DEF T4ErasePlan
  <2>4. n = z + 5 /\ n - 1 = z + 4 /\ n - 2 = z + 3 /\ n - 3 = z + 2
    BY <1>0
  <2> QED BY <2>1, <2>2, <2>3, <2>4
<1>2. ASSUME NEW k \in 1 .. z, NEW r, r = z + 2 - k
      PROVE  p[r] = C("Zero", k)
  <2>1. r \in 1 .. z + 5 /\ r \in 2 .. z + 1 /\ z + 2 - r = k /\ r # 1
    BY <1>2
  <2> QED BY <1>0, <2>1 DEF T4ErasePlan
<1> DEFINE s4 == Cmd("SelectApp") \o Cmd("SelectCc") \o Cmd("ReadCc") \o Cmd("SelectFile")
           s5 == s4 \o Cells("Zero", 1, z)
           s6 == s5 \o Cell("SelectMaster", 0)
<1>3. First(s4, 4, n, p)
  BY <1>0, <1>1, T4FilesFirst DEF Names
<1> HIDE DEF s4
<1>4. First(s5, z + 4, n, p)
  <2>1. PICK l \in Nat : l = 4
    OBVIOUS
  <2>2. /\ \A k \in 1 .. z : p[n - l + 1 - k] = C("Zero", k)
        /\ z + 4 = l + (z + 1 - 1) /\ 1 <= z + 1 /\ "Zero" \in Names
    BY <1>0, <1>2, <2>1 DEF Names
  <2> QED BY <1>3, <2>1, <2>2, FirstMany
<1> HIDE DEF s5
<1>5. First(s6, z + 5, n, p)
  <2>1. PICK l \in Nat : l = z + 4
    OBVIOUS
  <2>2. p[n - l] = C("SelectMaster", 0) /\ z + 5 = l + 1 /\ "SelectMaster" \in Names
    BY <1>0, <1>1, <2>1 DEF Names
  <2> QED BY <1>4, <2>1, <2>2, FirstOne
<1> HIDE DEF s6
<1>6. s6 \in Seq(Commands) /\ Len(s6) = n /\ Follows(s6, p)
  BY <1>0, <1>5, FirstAll
<1>7. s6 = Cmd("SelectApp") \o Cmd("SelectCc") \o Cmd("ReadCc") \o Cmd("SelectFile")
           \o Cells("Zero", 1, z) \o Cmd("SelectMaster")
  BY CmdIsCell DEF s4, s5, s6
<1> QED BY <1>0, <1>6, <1>7

(* The commands of ReadNdef.                                                *)
LEMMA T4ReadStarts ==
  ASSUME NEW z \in Nat
  PROVE  LET s == Cmd("SelectApp") \o Cmd("SelectCc") \o Cmd("ReadCc") \o Cmd("SelectFile")
                  \o Cmd("ReadLen") \o Cells("Read", 1, z) \o Cmd("SelectMaster")
         IN  s \in Seq(Commands) /\ Len(s) = z + 6 /\ Follows(s, T4ReadPlan(z))
<1>a. PICK p : p = T4ReadPlan(z)
  OBVIOUS
<1>0. PICK n \in Nat : n = z + 6 /\ p = T4ReadPlan(z)
  BY <1>a
<1>1. /\ p[n] = C("SelectApp", 0) /\ p[n - 1] = C("SelectCc", 0) /\ p[n - 2] = C("ReadCc", 0)
      /\ p[n - 3] = C("SelectFile", 0) /\ p[n - 4] = C("ReadLen", 0) /\ p[1] = C("SelectMaster", 0)
  <2>1. p[z + 6] = C("SelectApp", 0) /\ p[z + 5] = C("SelectCc", 0)
    BY <1>0 DEF T4ReadPlan
  <2>2. p[z + 4] = C("ReadCc", 0) /\ p[z + 3] = C("SelectFile", 0)
    BY <1>0 DEF T4ReadPlan
  <2>3. p[z + 2] = C("ReadLen", 0) /\ p[1] = C("SelectMaster", 0)
    BY <1>0 DEF T4ReadPlan
  <2>4. n = z + 6 /\ n - 1 = z + 5 /\ n - 2 = z + 4 /\ n - 3 = z + 3 /\ n - 4 = z + 2
    BY <1>0
  <2> QED BY <2>1, <2>2, <2>3, <2>4
<1>2. ASSUME NEW k \in 1 .. z, NEW r, r = z + 2 - k
      PROVE  p[r] = C("Read", k)
  <2>1. r \in 1 .. z + 6 /\ r \in 2 .. z + 1 /\ z + 2 - r = k /\ r # 1
    BY <1>2
  <2> QED BY <1>0, <2>1 DEF T4ReadPlan
<1> DEFINE s4 == Cmd("SelectApp") \o Cmd("SelectCc") \o Cmd("ReadCc") \o Cmd("SelectFile")
           s5 == s4 \o Cell("ReadLen", 0)
           s6 == s5 \o Cells("Read", 1, z)
           s7 == s6 \o Cell("SelectMaster", 0)
<1>3. First(s4, 4, n, p)
  BY <1>0, <1>1, T4FilesFirst DEF Names
<1> HIDE DEF s4
<1>4. First(s5, 5, n, p)
  <2>1. PICK l \in Nat : l = 4
    OBVIOUS
  <2>2. p[n - l] = C("ReadLen", 0) /\ 5 = l + 1 /\ "ReadLen" \in Names
    BY <1>1, <2>1 DEF Names
  <2> QED BY <1>3, <2>1, <2>2, FirstOne
<1> HIDE DEF s5
<1>5. First(s6, z + 5, n, p)
  <2>1. PICK l \in Nat : l = 5
    OBVIOUS
  <2>2. /\ \A k \in 1 .. z : p[n - l + 1 - k] = C("Read", k)
        /\ z + 5 = l + (z + 1 - 1) /\ 1 <= z + 1 /\ "Read" \in Names
    BY <1>0, <1>2, <2>1 DEF Names
  <2> QED BY <1>4, <2>1, <2>2, FirstMany
<1> HIDE DEF s6
<1>6. First(s7, z + 6, n, p)
  <2>1. PICK l \in Nat : l = z + 5
    OBVIOUS
  <2>2. p[n - l] = C("SelectMaster", 0) /\ z + 6 = l + 1 /\ "SelectMaster" \in Names
    BY <1>0, <1>1, <2>1 DEF Names
  <2> QED BY <1>5, <2>1, <2>2, FirstOne
<1> HIDE DEF s7
<1>7. s7 \in Seq(Commands) /\ Len(s7) = n /\ Follows(s7, p)
  BY <1>0, <1>6, FirstAll
<1>8. s7 = Cmd("SelectApp") \o Cmd("SelectCc") \o Cmd("ReadCc") \o Cmd("SelectFile")
           \o Cmd("ReadLen") \o Cells("Read", 1, z) \o Cmd("SelectMaster")
  BY CmdIsCell DEF s4, s5, s6, s7
<1> QED BY <1>0, <1>7, <1>8

-----------------------------------------------------------------------------
(* The commands of WriteNdef.                                               *)
LEMMA T4WriteStarts ==
  ASSUME NEW z \in Nat, z > 0, NEW b \in {1, 3}
  PROVE  LET s == Cmd("SelectApp") \o Cmd("SelectCc") \o Cmd("ReadAccess") \o Cmd("SelectFile")
                  \o Cell("UpdateLen", 0) \o Cells("Update", 1, z) \o Cell("UpdateLen", z)
                  \o (IF b = 3 THEN Cmd("SelectCc") \o Cmd("UpdateCc") ELSE <<>>)
                  \o Cmd("SelectMaster")
         IN  s \in Seq(Commands) /\ Len(s) = b + z + 6 /\ Follows(s, T4WritePlan(z, b))
<1>a. PICK p : p = T4WritePlan(z, b)
  OBVIOUS
<1>0. PICK n \in Nat : n = b + z + 6 /\ p = T4WritePlan(z, b)
  BY <1>a
<1>1. /\ p[n] = C("SelectApp", 0) /\ p[n - 1] = C("SelectCc", 0) /\ p[n - 2] = C("ReadAccess", 0)
      /\ p[n - 3] = C("SelectFile", 0) /\ p[n - 4] = C("UpdateLen", 0)
      /\ p[b + 1] = C("UpdateLen", z) /\ p[1] = C("SelectMaster", 0)
      /\ b = 3 => p[3] = C("SelectCc", 0) /\ p[2] = C("UpdateCc", 0)
  <2>1. p[b + z + 6] = C("SelectApp", 0) /\ p[b + z + 5] = C("SelectCc", 0)
    BY <1>0 DEF T4WritePlan
  <2>2. p[b + z + 4] = C("ReadAccess", 0) /\ p[b + z + 3] = C("SelectFile", 0)
    BY <1>0 DEF T4WritePlan
  <2>3. p[b + z + 2] = C("UpdateLen", 0)
    BY <1>0 DEF T4WritePlan
  <2>4. p[b + 1] = C("UpdateLen", z)
    BY <1>0 DEF T4WritePlan
  <2>5. p[1] = C("SelectMaster", 0)
    BY <1>0 DEF T4WritePlan
  <2>6. b = 3 => p[3] = C("SelectCc", 0) /\ p[2] = C("UpdateCc", 0)
    BY <1>0 DEF T4WritePlan
  <2>7. n = b + z + 6 /\ n - 1 = b + z + 5 /\ n - 2 = b + z + 4 /\ n - 3 = b + z + 3 /\ n - 4 = b + z + 2
    BY <1>0
  <2> QED BY <2>1, <2>2, <2>3, <2>4, <2>5, <2>6, <2>7
<1>2. ASSUME NEW k \in 1 .. z, NEW r, r = b + z + 2 - k
      PROVE  p[r] = C("Update", k)
  <2>1. /\ r \in 1 .. b + z + 6 /\ r \in b + 2 .. b + z + 1 /\ b + z + 2 - r = k
        /\ r # 1 /\ r # 2 /\ r # b + 1 /\ ~(b = 3 /\ r = 3)
    BY <1>2
  <2>2. p[r] = C("Update", b + z + 2 - r)
    <3>1. CASE b = 1
      BY <1>0, <2>1, <3>1, SMTT(30) DEF T4WritePlan
    <3>2. CASE b = 3
      BY <1>0, <2>1, <3>2, SMTT(30) DEF T4WritePlan
    <3> QED BY <3>1, <3>2
  <2> QED BY <2>1, <2>2
<1> DEFINE s4 == Cmd("SelectApp") \o Cmd("SelectCc") \o Cmd("ReadAccess") \o Cmd("SelectFile")
           s5 == s4 \o Cell("UpdateLen", 0)
           s6 == s5 \o Cells("Update", 1, z)
           s7 == s6 \o Cell("UpdateLen", z)
           s8 == s7 \o (IF b = 3 THEN Cmd("SelectCc") \o Cmd("UpdateCc") ELSE <<>>)
           s9 == s8 \o Cell("SelectMaster", 0)
<1>3. First(s4, 4, n, p)
  BY <1>0, <1>1, T4FilesFirst DEF Names
<1> HIDE DEF s4
<1>4. First(s5, 5, n, p)
  <2>1. PICK l \in Nat : l = 4
    OBVIOUS
  <2>2. p[n - l] = C("UpdateLen", 0) /\ 5 = l + 1 /\ "UpdateLen" \in Names
    BY <1>1, <2>1 DEF Names
  <2> QED BY <1>3, <2>1, <2>2, FirstOne
<1> HIDE DEF s5
<1>5. First(s6, z + 5, n, p)
  <2>1. PICK l \in Nat : l = 5
    OBVIOUS
  <2>2. /\ \A k \in 1 .. z : p[n - l + 1 - k] = C("Update", k)
        /\ z + 5 = l + (z + 1 - 1) /\ 1 <= z + 1 /\ "Update" \in Names
    BY <1>0, <1>2, <2>1 DEF Names
  <2> QED BY <1>4, <2>1, <2>2, FirstMany
<1> HIDE DEF s6
<1>6. First(s7, z + 6, n, p)
  <2>1. PICK l \in Nat : l = z + 5
    OBVIOUS
  <2>2. p[n - l] = C("UpdateLen", z) /\ z + 6 = l + 1 /\ "UpdateLen" \in Names
    <3>1. n - l = b + 1
      BY <1>0, <2>1
    <3> QED BY <1>1, <2>1, <3>1 DEF Names
  <2> QED BY <1>5, <2>1, <2>2, FirstOne
<1> HIDE DEF s7
<1>7. First(s8, n - 1, n, p)
  <2>1. CASE b = 3
    <3>1. PICK l \in Nat : l = z + 6
      OBVIOUS
    <3>2. n - l = 3 /\ n - (l + 1) = 2 /\ n - 1 = l + 2 /\ "SelectCc" \in Names /\ "UpdateCc" \in Names
      BY <1>0, <2>1, <3>1 DEF Names
    <3>3. First(s7 \o (Cmd("SelectCc") \o Cmd("UpdateCc")), n - 1, n, p)
      BY <1>1, <1>6, <2>1, <3>1, <3>2, FirstTwo
    <3> QED BY <2>1, <3>3
  <2>2. CASE b # 3
    <3>1. s7 \in Seq(Commands) /\ n - 1 = z + 6
      BY <1>0, <1>6, <2>2 DEF First
    <3>2. s8 = s7
      BY <2>2, <3>1
    <3> QED BY <1>6, <3>1, <3>2
  <2> QED BY <2>1, <2>2
<1> HIDE DEF s8
<1>8. First(s9, n, n, p)
  <2>1. PICK l \in Nat : l = n - 1
    BY <1>0
  <2>2. p[n - l] = C("SelectMaster", 0) /\ n = l + 1 /\ "SelectMaster" \in Names
    <3>1. n - l = 1
      BY <1>0, <2>1
    <3> QED BY <1>1, <2>1, <3>1 DEF Names
  <2> QED BY <1>7, <2>1, <2>2, FirstOne
<1> HIDE DEF s9
<1>9. s9 \in Seq(Commands) /\ Len(s9) = n /\ Follows(s9, p)
  BY <1>8, FirstAll
<1>10. s9 = Cmd("SelectApp") \o Cmd("SelectCc") \o Cmd("ReadAccess") \o Cmd("SelectFile")
            \o Cell("UpdateLen", 0) \o Cells("Update", 1, z) \o Cell("UpdateLen", z)
            \o (IF b = 3 THEN Cmd("SelectCc") \o Cmd("UpdateCc") ELSE <<>>)
            \o Cmd("SelectMaster")
  BY CmdIsCell DEF s4, s5, s6, s7, s8, s9
<1> QED BY <1>0, <1>9, <1>10

(* An operation that sends its first command keeps the invariant.           *)
LEMMA T4Begins ==
  ASSUME T4Inv, ~Busy, NEW op \in Operations, NEW m \in Messages \cup {None},
         NEW todo \in Seq(Commands), todo # <<>>, Start(op, m, todo), tag' = tag, T4Top',
         op # "check" => top' = top,
         T4Checking' \/ T4Formatting' \/ T4Writing' \/ T4Erasing' \/ T4Reading'
  PROVE  T4Inv' /\ WriteStep(T4!Writable)
<1>1. /\ CallOK' /\ call'.op = op /\ call'.status = "BUSY"
      /\ call'.checked => call.checked /\ op # "check"
  BY Started DEF T4Inv, CallOK
<1>2. T4Known'
  BY <1>1 DEF T4Inv, T4Known
<1>3. EndedWell(call, T4!Content, TRUE)' /\ WriteStep(T4!Writable)
  BY <1>1, NotEnded DEF WriteStep
<1> QED BY <1>1, <1>2, <1>3 DEF T4Inv, T4Tag, T4Doing

(* So does one that is refused at once.                                     *)
LEMMA T4Refuses ==
  ASSUME T4Inv, ~Busy, NEW op \in Operations, NEW m \in Messages \cup {None},
         NEW status \in Statuses, status \notin {"BUSY", "SUCCESS"}, Refuse(op, m, status),
         tag' = tag, top' = top, op = "write" => ~call.checked
  PROVE  T4Inv' /\ WriteStep(T4!Writable)
<1>1. /\ CallOK' /\ call'.op = op /\ call'.msg = m /\ call'.status = status
      /\ call'.checked = call.checked
  BY WasRefused DEF T4Inv, CallOK
<1>2. T4Top' /\ T4Known' /\ T4Doing' /\ T4Tag'
  BY <1>1 DEF T4Inv, T4Top, T4Known, Busy, T4Doing, T4Tag
<1>3. EndedWell(call, T4!Content, TRUE)' /\ WriteStep(T4!Writable)
  BY <1>1 DEF WriteStep, EndedWell, Ended
<1> QED BY <1>1, <1>2, <1>3 DEF T4Inv

(* What begins on a type 4 tag is an operation.                             *)
LEMMA T4Begun ==
  ASSUME T4!Operation
  PROVE  ~Busy /\ tag' = tag /\ Begun
<1> USE DEF Operations
<1>1. ~Busy
  BY T4Session DEF T4!Operation
<1>2. CASE T4!CheckNdef
  BY <1>1, <1>2, T4Calls, StartBegins DEF T4!CheckNdef
<1>3. CASE T4!FormatNdef
  BY <1>1, <1>3, T4Calls, StartBegins DEF T4!FormatNdef
<1>4. CASE T4!ReadNdef
  BY <1>1, <1>4, T4Calls, StartBegins DEF T4!ReadNdef
<1>5. CASE T4!EraseNdef
  BY <1>1, <1>5, T4Calls, StartBegins DEF T4!EraseNdef
<1>6. ASSUME NEW wa, T4!SetWriteAccess(wa)
      PROVE  ~Busy /\ tag' = tag /\ Begun
  BY <1>1, <1>6 DEF T4!SetWriteAccess, Begun
<1>7. ASSUME NEW m \in Messages, T4!WriteNdef(m)
      PROVE  ~Busy /\ tag' = tag /\ Begun
  BY <1>1, <1>7, T4Calls, StartBegins DEF T4!WriteNdef
<1> QED BY <1>2, <1>3, <1>4, <1>5, <1>6, <1>7 DEF T4!Operation

-----------------------------------------------------------------------------
(* CheckNdef begins.                                                        *)
LEMMA T4CheckBegins ==
  ASSUME T4Inv, ~Busy, T4!CheckNdef
  PROVE  T4Inv' /\ WriteStep(T4!Writable)
<1> USE DEF Names
<1>1. PICK s, p : /\ s = Cmd("SelectApp") \o Cmd("SelectCc") \o Cmd("CheckCc")
                         \o Cmd("SelectFile") \o Cmd("CheckLen") \o Cmd("SelectMaster")
                  /\ p = T4CheckPlan("SelectApp")
  OBVIOUS
<1>2. /\ Start("check", None, s) /\ tag' = tag
      /\ top' = [top EXCEPT !.support = FALSE, !.formatted = FALSE, !.presence = FALSE]
  <2>1. PICK x : /\ x = T4!Cmd("SelectApp") \o T4!Cmd("SelectCc") \o T4!Cmd("CheckCc")
                        \o T4!Cmd("SelectFile") \o T4!Cmd("CheckLen") \o T4!Cmd("SelectMaster")
                 /\ T4!Start("check", None, x) /\ tag' = tag
                 /\ top' = [top EXCEPT !.support = FALSE, !.formatted = FALSE, !.presence = FALSE]
    BY DEF T4!CheckNdef
  <2>2. x = s
    BY <1>1, <2>1, Zenon DEF T4!Cmd, Cmd
  <2> QED BY <2>1, <2>2, T4Calls
<1>3. s \in Seq(Commands) /\ Len(s) = 6 /\ Follows(s, p)
  <2>1. /\ p[6] = C("SelectApp", 0) /\ p[5] = C("SelectCc", 0) /\ p[4] = C("CheckCc", 0)
        /\ p[3] = C("SelectFile", 0) /\ p[2] = C("CheckLen", 0) /\ p[1] = C("SelectMaster", 0)
    BY <1>1 DEF T4CheckPlan
  <2>2. PICK n \in Nat, l \in Nat : n = 6 /\ l = 4
    OBVIOUS
  <2> DEFINE s4 == Cmd("SelectApp") \o Cmd("SelectCc") \o Cmd("CheckCc") \o Cmd("SelectFile")
             s5 == s4 \o Cell("CheckLen", 0)
             s6 == s5 \o Cell("SelectMaster", 0)
  <2>3. First(s4, l, n, p)
    BY <2>1, <2>2, T4FilesFirst
  <2> HIDE DEF s4
  <2>4. First(s5, n - 1, n, p)
    BY <2>1, <2>2, <2>3, FirstOne
  <2> HIDE DEF s5
  <2>5. First(s6, n, n, p)
    <3>1. PICK j \in Nat : j = n - 1
      BY <2>2
    <3>2. p[n - j] = C("SelectMaster", 0) /\ n = j + 1
      BY <2>1, <2>2, <3>1
    <3> QED BY <2>4, <3>1, <3>2, FirstOne
  <2> HIDE DEF s6
  <2>6. s6 \in Seq(Commands) /\ Len(s6) = n /\ Follows(s6, p)
    BY <2>5, FirstAll
  <2>7. s6 = s
    BY <1>1, CmdIsCell DEF s4, s5, s6
  <2> QED BY <2>2, <2>6, <2>7
<1>4. T4Top'
  BY <1>2 DEF T4Inv, T4Top
<1>5. call'.op = "check" /\ call'.msg = None /\ call'.todo = s /\ ~call'.checked
  BY <1>2, <1>3, Started DEF T4Inv, CallOK, Operations
<1>6. T4Checking'
  <2>1. T4CheckPlan("SelectApp")' = p /\ Left' = 6
    BY <1>1, <1>3, <1>5 DEF T4CheckPlan, T4Creates, Left
  <2> QED BY <1>3, <1>5, <2>1 DEF T4Checking
<1>7. s # <<>>
  <2>1. Len(s) > 0
    BY <1>3
  <2> QED BY <1>3, <2>1, NotEmpty
<1> QED BY <1>2, <1>3, <1>4, <1>6, <1>7, T4Begins DEF Operations

(* An erase, which is also what a format of a formatted tag is.             *)
EraseTodo ==
  Cmd("SelectApp") \o Cmd("SelectCc") \o Cmd("ReadCc") \o Cmd("SelectFile")
  \o Cells("Zero", 1, Pieces) \o Cmd("SelectMaster")

(* The commands of an erase and of a format.                                *)
LEMMA T4Todos == T4!EraseCommands = EraseTodo /\ T4!FormatCommands = FormatTodo
<1>1. T4!EraseCommands = EraseTodo
  BY Zenon DEF T4!EraseCommands, EraseTodo, Pieces, T4!Cmd, Cmd, T4!Cells, Cells
<1>2. T4!FormatCommands = FormatTodo
  BY Zenon DEF T4!FormatCommands, FormatTodo, T4!Cmd, Cmd
<1> QED BY <1>1, <1>2

(* An erase, or a format of a formatted card, begins.                       *)
LEMMA T4ZeroBegins ==
  ASSUME T4Inv, ~Busy, NEW op \in {"format", "erase"}, Start(op, None, EraseTodo),
         tag' = tag, top' = top
  PROVE  T4Inv' /\ WriteStep(T4!Writable)
<1>1. PICK s, z : s = EraseTodo /\ z = Pieces
  OBVIOUS
<1>2. z \in Nat /\ z > 0
  <2>1. top.len \in Nat
    BY RoomPositive DEF T4Inv, T4Top
  <2> QED BY <1>1, <2>1 DEF Pieces
<1>3. s \in Seq(Commands) /\ Len(s) = z + 5 /\ Follows(s, T4ErasePlan(z))
  BY <1>1, <1>2, T4EraseStarts DEF EraseTodo
<1>4. /\ call'.op = op /\ call'.msg = None /\ call'.todo = s
  BY <1>1, <1>3, Started DEF T4Inv, CallOK, Operations
<1>5. Pieces' = z /\ Left' = z + 5
  BY <1>1, <1>3, <1>4 DEF Pieces, Left
<1>6. T4Zeroing'
  BY <1>2, <1>3, <1>4, <1>5 DEF T4Zeroing, T4ErasePlan
<1>7. T4Formatting' \/ T4Erasing'
  BY <1>4, <1>6 DEF T4Formatting, T4Erasing
<1>8. s # <<>>
  <2>1. Len(s) > 0
    BY <1>2, <1>3
  <2> QED BY <1>3, <2>1, NotEmpty
<1>9. T4Top' /\ op \in Operations
  BY DEF T4Inv, T4Top, Operations
<1> QED BY <1>1, <1>3, <1>7, <1>8, <1>9, T4Begins

(* EraseNdef begins.                                                        *)
LEMMA T4EraseBegins ==
  ASSUME T4Inv, ~Busy, T4!EraseNdef
  PROVE  T4Inv' /\ WriteStep(T4!Writable)
<1>1. tag' = tag /\ top' = top /\ Start("erase", None, EraseTodo)
  <2>1. PICK x : x = T4!EraseCommands /\ tag' = tag /\ top' = top /\ T4!Start("erase", None, x)
    BY DEF T4!EraseNdef
  <2> QED BY <2>1, T4Todos, T4Calls
<1> QED BY <1>1, T4ZeroBegins

(* FormatNdef begins.                                                       *)
LEMMA T4FormatBegins ==
  ASSUME T4Inv, ~Busy, T4!FormatNdef
  PROVE  T4Inv' /\ WriteStep(T4!Writable)
<1>1. /\ tag' = tag /\ top' = top
      /\ Start("format", None, EraseTodo) \/ Start("format", None, FormatTodo)
  <2>1. PICK x, y : /\ x = T4!EraseCommands /\ y = T4!FormatCommands
                    /\ tag' = tag /\ top' = top
                    /\ T4!Start("format", None, x) \/ T4!Start("format", None, y)
    BY DEF T4!FormatNdef
  <2> QED BY <2>1, T4Todos, T4Calls
<1>2. CASE Start("format", None, EraseTodo)
  BY <1>1, <1>2, T4ZeroBegins
<1>3. CASE Start("format", None, FormatTodo)
  <2>a. PICK p, s : p = T4FormatPlan /\ s = FormatTodo
    OBVIOUS
  <2>1. PICK n \in Nat : n = 7 /\ p = T4FormatPlan /\ s = FormatTodo
    BY <2>a
  <2>2. s \in Seq(Commands) /\ Len(s) = 7 /\ Follows(s, p)
    <3>1. \A j \in 1 .. 7 : n - 7 + j = j /\ p[j] = T4Creates(j)
      BY <2>1 DEF T4FormatPlan
    <3>2. First(s, 7, n, p)
      BY <2>1, <3>1, FormatFirst
    <3> QED BY <2>1, <3>2, FirstAll
  <2>3. call'.op = "format" /\ call'.msg = None /\ call'.todo = s
    BY <1>3, <2>1, <2>2, Started DEF T4Inv, CallOK, Operations
  <2>4. T4Formatting'
    <3>1. T4FormatPlan' = p /\ Left' = 7
      BY <2>1, <2>2, <2>3 DEF T4FormatPlan, T4Creates, Left
    <3>2. T4Created(Left)'
      BY <3>1 DEF T4Created
    <3> QED BY <2>2, <2>3, <3>1, <3>2 DEF T4Formatting
  <2>5. s # <<>>
    <3>1. Len(s) > 0
      BY <2>2
    <3> QED BY <2>2, <3>1, NotEmpty
  <2>6. T4Top' /\ "format" \in Operations
    BY <1>1 DEF T4Inv, T4Top, Operations
  <2> QED BY <1>1, <1>3, <2>1, <2>2, <2>4, <2>5, <2>6, T4Begins
<1> QED BY <1>1, <1>2, <1>3

(* WriteNdef begins.                                                        *)
LEMMA T4WriteBegins ==
  ASSUME T4Inv, ~Busy, NEW m \in Messages, T4!WriteNdef(m)
  PROVE  T4Inv' /\ WriteStep(T4!Writable)
<1>1. PICK n, b : n = Size[m] /\ b = After
  OBVIOUS
<1>2. n \in Nat /\ n > 0 /\ b \in {1, 3} /\ (b = 3 <=> top.wa = "RO")
  BY <1>1, Sizes DEF After
<1> DEFINE s == Cmd("SelectApp") \o Cmd("SelectCc") \o Cmd("ReadAccess") \o Cmd("SelectFile")
                \o Cell("UpdateLen", 0) \o Cells("Update", 1, n) \o Cell("UpdateLen", n)
                \o (IF b = 3 THEN Cmd("SelectCc") \o Cmd("UpdateCc") ELSE <<>>)
                \o Cmd("SelectMaster")
<1>3. /\ tag' = tag /\ top' = top
      /\ \/ Start("write", m, s)
         \/ ~top.formatted /\ ~top.support /\ Refuse("write", m, "NOT_FORMATTED")
  <2>1. PICK x : /\ x = T4!Cmd("SelectApp") \o T4!Cmd("SelectCc") \o T4!Cmd("ReadAccess") \o T4!Cmd("SelectFile")
                        \o T4!Cell("UpdateLen", 0) \o T4!Cells("Update", 1, Size[m]) \o T4!Cell("UpdateLen", Size[m])
                        \o (IF top.wa = "RO" THEN T4!Cmd("SelectCc") \o T4!Cmd("UpdateCc") ELSE <<>>)
                        \o T4!Cmd("SelectMaster")
                 /\ tag' = tag /\ top' = top
                 /\ \/ T4!Start("write", m, x)
                    \/ ~top.formatted /\ ~top.support /\ T4!Refuse("write", m, "NOT_FORMATTED")
    BY DEF T4!WriteNdef
  <2>2. x = s
    BY <1>1, <1>2, <2>1, Zenon DEF T4!Cmd, Cmd, T4!Cell, Cell, T4!Cells, Cells
  <2> HIDE DEF s
  <2> QED BY <2>1, <2>2, T4Calls
<1>4. s \in Seq(Commands) /\ Len(s) = b + n + 6 /\ Follows(s, T4WritePlan(n, b))
  BY <1>2, T4WriteStarts
<1> HIDE DEF s
<1>5. T4Top' /\ m \in Messages \cup {None} /\ "write" \in Operations
  BY <1>3 DEF T4Inv, T4Top, Operations
<1>6. CASE ~top.formatted /\ ~top.support /\ Refuse("write", m, "NOT_FORMATTED")
  <2>1. ~call.checked
    BY <1>6 DEF T4Inv, T4Known
  <2> QED BY <1>3, <1>5, <1>6, <2>1, T4Refuses DEF Statuses
<1>7. CASE Start("write", m, s)
  <2>1. call'.op = "write" /\ call'.msg = m /\ call'.todo = s
    BY <1>4, <1>5, <1>7, Started DEF T4Inv, CallOK
  <2>2. s # <<>>
    <3>1. Len(s) > 0
      BY <1>2, <1>4
    <3> QED BY <1>4, <3>1, NotEmpty
  <2>3. After' = b /\ Size[call'.msg] = n /\ Left' = b + n + 6
    BY <1>1, <1>3, <1>4, <2>1 DEF After, Left
  <2>4. T4Written(m, n, b, b + n + 6)'
    <3>1. /\ ~(b + n + 6 <= b + n + 5) /\ ~(b + n + 6 \in b + 1 .. b + n + 2)
          /\ ~(b + n + 6 \in b + 1 .. b + n + 1) /\ ~(b + n + 6 <= b)
          /\ \A k \in 1 .. n : ~(b + n + 6 <= b + n + 1 - k)
      BY <1>2
    <3> QED BY <3>1 DEF T4Written
  <2>5. Follows(call.todo, T4WritePlan(Size[call.msg], After))'
    <3>1. T4WritePlan(Size[call.msg], After)' = T4WritePlan(n, b)
      BY <2>3 DEF T4WritePlan
    <3> QED BY <1>4, <2>1, <3>1
  <2>6. T4Writing'
    BY <1>2, <2>1, <2>3, <2>4, <2>5 DEF T4Writing
  <2> QED BY <1>3, <1>4, <1>5, <1>7, <2>2, <2>6, T4Begins
<1> QED BY <1>3, <1>6, <1>7

(* ReadNdef begins.                                                         *)
LEMMA T4ReadBegins ==
  ASSUME T4Inv, ~Busy, T4!ReadNdef
  PROVE  T4Inv' /\ WriteStep(T4!Writable)
<1>1. PICK n : n = top.len
  OBVIOUS
<1>2. n \in Nat
  BY <1>1, RoomPositive DEF T4Inv, T4Top
<1> DEFINE s == Cmd("SelectApp") \o Cmd("SelectCc") \o Cmd("ReadCc") \o Cmd("SelectFile")
                \o Cmd("ReadLen") \o Cells("Read", 1, n) \o Cmd("SelectMaster")
<1>3. /\ tag' = tag /\ top' = top
      /\ Start("read", None, s) \/ Refuse("read", None, "PROTOCOL_ERROR")
  <2>1. PICK x : /\ x = T4!Cmd("SelectApp") \o T4!Cmd("SelectCc") \o T4!Cmd("ReadCc") \o T4!Cmd("SelectFile")
                        \o T4!Cmd("ReadLen") \o T4!Cells("Read", 1, top.len) \o T4!Cmd("SelectMaster")
                 /\ tag' = tag /\ top' = top
                 /\ T4!Start("read", None, x) \/ T4!Refuse("read", None, "PROTOCOL_ERROR")
    BY DEF T4!ReadNdef
  <2>2. x = s
    BY <1>1, <2>1, Zenon DEF T4!Cmd, Cmd, T4!Cells, Cells
  <2> HIDE DEF s
  <2> QED BY <2>1, <2>2, T4Calls
<1>4. s \in Seq(Commands) /\ Len(s) = n + 6 /\ Follows(s, T4ReadPlan(n))
  BY <1>2, T4ReadStarts
<1> HIDE DEF s
<1>5. T4Top' /\ None \in Messages \cup {None} /\ "read" \in Operations
  BY <1>3 DEF T4Inv, T4Top, Operations
<1>6. CASE Refuse("read", None, "PROTOCOL_ERROR")
  BY <1>3, <1>5, <1>6, T4Refuses DEF Statuses
<1>7. CASE Start("read", None, s)
  <2>1. call'.op = "read" /\ call'.msg = None /\ call'.todo = s /\ call'.got = <<>>
    BY <1>4, <1>5, <1>7, Started DEF T4Inv, CallOK
  <2>2. s # <<>>
    <3>1. Len(s) > 0
      BY <1>2, <1>4
    <3> QED BY <1>4, <3>1, NotEmpty
  <2>3. top'.len = n /\ Left' = n + 6
    BY <1>1, <1>3, <1>4, <2>1 DEF Left
  <2>4. Follows(call.todo, T4ReadPlan(top.len))'
    <3>1. T4ReadPlan(top.len)' = T4ReadPlan(n)
      BY <2>3 DEF T4ReadPlan
    <3> QED BY <1>4, <2>1, <3>1
  <2>5. GotCells'
    BY <2>1 DEF GotCells
  <2>6. T4Reading'
    BY <1>2, <2>1, <2>3, <2>4, <2>5 DEF T4Reading
  <2> QED BY <1>3, <1>4, <1>5, <1>7, <2>2, <2>6, T4Begins
<1> QED BY <1>3, <1>6, <1>7

(* SetConfig of the write access keeps the invariant.                       *)
LEMMA T4SetsAccess ==
  ASSUME T4Inv, ~Busy, NEW wa \in Access, T4!SetWriteAccess(wa)
  PROVE  T4Inv' /\ WriteStep(T4!Writable)
<1>1. top' = [top EXCEPT !.wa = wa] /\ tag' = tag /\ call' = call
  BY DEF T4!SetWriteAccess
<1>2. T4Top' /\ top'.max = top.max /\ top'.support = top.support
  BY <1>1 DEF T4Inv, T4Top, Access
<1>3. T4Tag' /\ CallOK'
  BY <1>1 DEF T4Inv, T4Tag, CallOK, Busy
<1>4. T4Doing' /\ T4Known'
  BY <1>1, <1>2 DEF T4Inv, T4Doing, T4Known, Busy
<1>5. EndedWell(call, T4!Content, TRUE)' /\ WriteStep(T4!Writable)
  <2>1. T4!Content' = T4!Content
    BY <1>1, T4ContentIs
  <2> QED BY <1>1, <2>1 DEF T4Inv, EndedWell, Ended, WriteStep
<1> QED BY <1>2, <1>3, <1>4, <1>5 DEF T4Inv

(* Every step on a type 4 tag keeps its invariant.                          *)
LEMMA T4NextKeeps ==
  ASSUME T4Inv, T4!Next
  PROVE  /\ T4Inv' /\ WriteStep(T4!Writable)
         /\ \/ ~Busy /\ tag' = tag /\ Begun
            \/ Busy /\ Keeps /\ Effect(call, T4!Content, None, T4!Content', None)
<1>1. CASE T4!Answer
  BY <1>1, T4AnswerKeeps
<1>2. CASE T4!Refused
  BY <1>2, T4RefusedKeeps
<1>3. CASE T4!NoAnswer
  BY <1>3, T4LossKeeps
<1>4. CASE T4!Operation
  BY <1>4, T4Begun, T4CheckBegins, T4FormatBegins, T4WriteBegins, T4ReadBegins, T4EraseBegins,
     T4SetsAccess DEF T4!Operation, T4!Access, Access
<1> QED BY <1>1, <1>2, <1>3, <1>4 DEF T4!Next

-----------------------------------------------------------------------------
(* The initial states, and a reset.                                         *)
LEMMA FirstCall ==
  ASSUME call = Returned("SUCCESS")
  PROVE  CallOK /\ ~Busy /\ call.op = "none" /\ call.status = "SUCCESS" /\ ~call.checked
<1>1. call \in Calls
  BY DEF Returned, Calls, Statuses
<1>2. call.op = "none" /\ call.status = "SUCCESS" /\ ~call.checked /\ call.todo = <<>>
  BY DEF Returned
<1> QED BY <1>1, <1>2 DEF CallOK, Busy

(* The initial states of a type 1 tag.                                      *)
LEMMA T1Starts ==
  ASSUME call = Returned("SUCCESS"), tag \in T1!Tags, top = T1!Reset
  PROVE  T1Inv /\ T1!Content \in Messages \cup {None}
<1>1. CallOK /\ ~Busy /\ call.op = "none" /\ ~call.checked
  BY FirstCall
<1>2. T1Top
  <2>1. 0 \in 0 .. Room /\ "UNKNOWN" \in States
    BY RoomPositive DEF States
  <2> QED BY <2>1 DEF T1!Reset, T1Top, Access
<1>3. T1Tag /\ T1!Content \in Messages \cup {None}
  <2>1. CASE \E d \in BOOLEAN :
               tag = [dynamic |-> d, nmn |-> FALSE, rwa |-> "RW", locked |-> FALSE, tlv |-> FALSE,
                      len |-> 0, cells |-> Empty]
    <3>1. 0 \in 0 .. Room /\ Empty \in [Area -> CellValues]
      BY RoomPositive, EmptyCells
    <3> QED BY <2>1, <3>1, T1ContentIs DEF T1Tag, Access
  <2>2. CASE \E d \in BOOLEAN, a \in Access, m \in Fitting :
               tag = [dynamic |-> d, nmn |-> TRUE, rwa |-> a, locked |-> a = "RO", tlv |-> TRUE,
                      len |-> Size[m], cells |-> Filled(m)]
    <3>1. PICK m, c : /\ m \in Fitting /\ c = Filled(m)
                      /\ \E d \in BOOLEAN, a \in Access :
                                    tag = [dynamic |-> d, nmn |-> TRUE, rwa |-> a, locked |-> a = "RO",
                                           tlv |-> TRUE, len |-> Size[m], cells |-> c]
      BY <2>2
    <3>2. c \in [Area -> CellValues] /\ Size[m] \in 0 .. Room /\ m \in Messages
          /\ Stored(c, Size[m]) = m
      BY <3>1, FilledStored
    <3>3. T1Tag
      BY <3>1, <3>2 DEF T1Tag
    <3> QED BY <3>1, <3>2, <3>3, T1ContentIs
  <2>4. T1!Access = Access /\ T1!Fitting = Fitting
    BY Zenon DEF T1!Access, Access, T1!Fitting, Fitting
  <2>5. T1!Empty = Empty
    BY Zenon DEF T1!Empty, Empty, T1!Area, Area
  <2>6. \A m : T1!Filled(m) = Filled(m)
    BY Zenon DEF T1!Filled, Filled, T1!Area, Area
  <2> QED BY <2>1, <2>2, <2>5, <2>4, <2>6 DEF T1!Tags
<1> QED BY <1>1, <1>2, <1>3, NotEnded DEF T1Inv, T1Doing, T1Known

(* The initial states of a type 2 tag.                                      *)
LEMMA T2Starts ==
  ASSUME call = Returned("SUCCESS"), tag \in T2!Tags, top = T2!Reset
  PROVE  T2Inv /\ T2!Content \in Messages \cup {None} /\ T2!Hidden = None
<1>1. CallOK /\ ~Busy /\ call.op = "none" /\ ~call.checked
  BY FirstCall
<1>2. T2Top
  <2>1. 0 \in 0 .. Room /\ "UNKNOWN" \in States
    BY RoomPositive DEF States
  <2> QED BY <2>1 DEF T2!Reset, T2Top, Access
<1>3. T2Tag /\ T2!Content \in Messages \cup {None} /\ T2!Hidden = None
  <2>1. CASE \E o \in BOOLEAN :
               tag = [nmn |-> "00", otp |-> o, rwa |-> "RW", locked |-> FALSE, tlv |-> FALSE,
                      len |-> 0, cells |-> Empty]
    <3>1. 0 \in 0 .. Room /\ Empty \in [Area -> CellValues]
      BY RoomPositive, EmptyCells
    <3> QED BY <2>1, <3>1, T2ContentIs DEF T2Tag, Access
  <2>2. CASE \E o \in BOOLEAN, l \in BOOLEAN, m \in Fitting :
               tag = [nmn |-> "E1", otp |-> o, rwa |-> IF l THEN "RO" ELSE "RW", locked |-> l,
                      tlv |-> TRUE, len |-> Size[m], cells |-> Filled(m)]
    <3>1. PICK m, c : /\ m \in Fitting /\ c = Filled(m)
                      /\ \E o \in BOOLEAN, l \in BOOLEAN :
                                    tag = [nmn |-> "E1", otp |-> o, rwa |-> IF l THEN "RO" ELSE "RW",
                                           locked |-> l, tlv |-> TRUE, len |-> Size[m], cells |-> c]
      BY <2>2
    <3>2. c \in [Area -> CellValues] /\ Size[m] \in 0 .. Room /\ m \in Messages
          /\ Stored(c, Size[m]) = m
      BY <3>1, FilledStored
    <3>3. T2Tag
      BY <3>1, <3>2 DEF T2Tag, Access
    <3> QED BY <3>1, <3>2, <3>3, T2ContentIs
  <2>4. T2!Access = Access /\ T2!Fitting = Fitting
    BY Zenon DEF T2!Access, Access, T2!Fitting, Fitting
  <2>5. T2!Empty = Empty
    BY Zenon DEF T2!Empty, Empty, T2!Area, Area
  <2>6. \A m : T2!Filled(m) = Filled(m)
    BY Zenon DEF T2!Filled, Filled, T2!Area, Area
  <2> QED BY <2>1, <2>2, <2>5, <2>4, <2>6 DEF T2!Tags
<1> QED BY <1>1, <1>2, <1>3, NotEnded DEF T2Inv, T2Doing, T2Known

(* The initial states of a type 3 tag.                                      *)
LEMMA T3Starts ==
  ASSUME call = Returned("SUCCESS"), tag \in T3!Tags, top = T3!Reset
  PROVE  T3Inv /\ T3!Content \in Messages \cup {None}
<1>1. CallOK /\ ~Busy /\ call.op = "none" /\ ~call.checked
  BY FirstCall
<1>2. T3Top /\ T3Seen
  <2>1. 0 \in 0 .. Room /\ "UNKNOWN" \in States
    BY RoomPositive DEF States
  <2> QED BY <2>1 DEF T3!Reset, T3Top, T3Seen
<1>3. T3Tag /\ T3!Content \in Messages \cup {None}
  <2>1. CASE tag = [ndef |-> FALSE, rwa |-> "RW", locked |-> FALSE, len |-> 0, cells |-> Empty]
    <3>1. 0 \in 0 .. Room /\ Empty \in [Area -> CellValues]
      BY RoomPositive, EmptyCells
    <3> QED BY <2>1, <3>1, T3ContentIs DEF T3Tag, Access
  <2>2. CASE \E m \in Fitting, a \in Access, l \in BOOLEAN :
               tag = [ndef |-> TRUE, rwa |-> a, locked |-> l, len |-> Size[m], cells |-> Filled(m)]
    <3>1. PICK m, c : /\ m \in Fitting /\ c = Filled(m)
                      /\ \E a \in Access, l \in BOOLEAN :
                                    tag = [ndef |-> TRUE, rwa |-> a, locked |-> l, len |-> Size[m], cells |-> c]
      BY <2>2
    <3>2. c \in [Area -> CellValues] /\ Size[m] \in 0 .. Room /\ m \in Messages
          /\ Stored(c, Size[m]) = m
      BY <3>1, FilledStored
    <3>3. T3Tag
      BY <3>1, <3>2 DEF T3Tag
    <3> QED BY <3>1, <3>2, <3>3, T3ContentIs
  <2>4. T3!Access = Access /\ T3!Fitting = Fitting
    BY Zenon DEF T3!Access, Access, T3!Fitting, Fitting
  <2>5. T3!Empty = Empty
    BY Zenon DEF T3!Empty, Empty, T3!Area, Area
  <2>6. \A m : T3!Filled(m) = Filled(m)
    BY Zenon DEF T3!Filled, Filled, T3!Area, Area
  <2> QED BY <2>1, <2>2, <2>5, <2>4, <2>6 DEF T3!Tags
<1> QED BY <1>1, <1>2, <1>3, NotEnded DEF T3Inv, T3Doing, T3Known

(* The initial states of a type 4 tag.                                      *)
LEMMA T4Starts ==
  ASSUME call = Returned("SUCCESS"), tag \in T4!Tags, top = T4!Reset
  PROVE  T4Inv /\ T4!Content \in Messages \cup {None}
<1>1. CallOK /\ ~Busy /\ call.op = "none" /\ ~call.checked
  BY FirstCall
<1>2. T4Top
  <2>1. 0 \in 0 .. Room /\ "UNKNOWN" \in States
    BY RoomPositive DEF States
  <2> QED BY <2>1 DEF T4!Reset, T4Top, Access
<1>3. T4Tag /\ T4!Content \in Messages \cup {None}
  <2>1. CASE tag = [app |-> FALSE, cc |-> "absent", file |-> FALSE, wa |-> "RW", len |-> 0,
                    cells |-> Empty, dir |-> "master", ef |-> "none"]
    <3>1. 0 \in 0 .. Room /\ Empty \in [Area -> CellValues]
      BY RoomPositive, EmptyCells
    <3>2. T4Tag
      BY <2>1, <3>1 DEF T4Tag, T4Shape, Access
    <3> QED BY <2>1, <3>2, T4ContentIs DEF T4Tag
  <2>2. CASE \E a \in Access, m \in Fitting :
               tag = [app |-> TRUE, cc |-> "valid", file |-> TRUE, wa |-> a, len |-> Size[m],
                      cells |-> Filled(m), dir |-> "master", ef |-> "none"]
    <3>1. PICK m, c : /\ m \in Fitting /\ c = Filled(m)
                      /\ \E a \in Access :
                                    tag = [app |-> TRUE, cc |-> "valid", file |-> TRUE, wa |-> a,
                                           len |-> Size[m], cells |-> c, dir |-> "master", ef |-> "none"]
      BY <2>2
    <3>2. c \in [Area -> CellValues] /\ Size[m] \in 0 .. Room /\ m \in Messages
          /\ Stored(c, Size[m]) = m
      BY <3>1, FilledStored
    <3>3. T4Tag
      BY <3>1, <3>2 DEF T4Tag, T4Shape
    <3>4. tag.cc = "valid" /\ tag.len = Size[m] /\ tag.cells = c
      BY <3>1
    <3> QED BY <3>2, <3>3, <3>4, T4ContentIs DEF T4Tag
  <2>4. T4!Access = Access /\ T4!Fitting = Fitting
    BY Zenon DEF T4!Access, Access, T4!Fitting, Fitting
  <2>5. T4!Empty = Empty
    BY Zenon DEF T4!Empty, Empty, T4!Area, Area
  <2>6. \A m : T4!Filled(m) = Filled(m)
    BY Zenon DEF T4!Filled, Filled, T4!Area, Area
  <2>7. \/ tag = T4!NoApp
        \/ \E a \in T4!Access, m \in T4!Fitting :
             tag = [app |-> TRUE, cc |-> "valid", file |-> TRUE, wa |-> a, len |-> Size[m],
                    cells |-> T4!Filled(m), dir |-> "master", ef |-> "none"]
    BY DEF T4!Tags
  <2> QED BY <2>1, <2>2, <2>4, <2>5, <2>6, <2>7 DEF T4!NoApp
<1> QED BY <1>1, <1>2, <1>3, NotEnded DEF T4Inv, T4Doing, T4Known

(* phalTop_Reset with a type 1 tag.                                         *)
LEMMA T1Resets ==
  ASSUME T1Inv, call' = Returned("SUCCESS"), tag' = tag, top' = T1!ResetTop
  PROVE  T1Inv'
<1>1. CallOK' /\ ~Busy' /\ call'.op = "none" /\ ~call'.checked
  BY ReturnedCall DEF Busy
<1>2. T1Top' /\ T1Tag'
  <2>1. 0 \in 0 .. Room /\ "UNKNOWN" \in States
    BY RoomPositive DEF States
  <2>2. T1Top'
    BY <2>1 DEF T1!ResetTop, T1!Reset, T1Top, Access
  <2> QED BY <2>2 DEF T1Inv, T1Tag
<1> QED BY <1>1, <1>2, NotEnded DEF T1Inv, T1Doing, T1Known

(* phalTop_Reset with a type 2 tag.                                         *)
LEMMA T2Resets ==
  ASSUME T2Inv, call' = Returned("SUCCESS"), tag' = tag, top' = T2!ResetTop
  PROVE  T2Inv'
<1>1. CallOK' /\ ~Busy' /\ call'.op = "none" /\ ~call'.checked
  BY ReturnedCall DEF Busy
<1>2. T2Top' /\ T2Tag'
  <2>1. 0 \in 0 .. Room /\ "UNKNOWN" \in States
    BY RoomPositive DEF States
  <2>2. T2Top'
    BY <2>1 DEF T2!ResetTop, T2!Reset, T2Top, Access
  <2> QED BY <2>2 DEF T2Inv, T2Tag
<1> QED BY <1>1, <1>2, NotEnded DEF T2Inv, T2Doing, T2Known

(* phalTop_Reset with a type 3 tag.                                         *)
LEMMA T3Resets ==
  ASSUME T3Inv, call' = Returned("SUCCESS"), tag' = tag, top' = T3!ResetTop
  PROVE  T3Inv'
<1>1. CallOK' /\ ~Busy' /\ call'.op = "none" /\ ~call'.checked
  BY ReturnedCall DEF Busy
<1>2. T3Top' /\ T3Seen' /\ T3Tag'
  <2>1. 0 \in 0 .. Room /\ "UNKNOWN" \in States
    BY RoomPositive DEF States
  <2>2. T3Top' /\ top'.support = top.support /\ top'.max = 0
    BY <2>1 DEF T3!ResetTop, T3!Reset, T3Top, T3Inv
  <2>3. T3Seen'
    BY <2>2 DEF T3Seen, T3Inv
  <2> QED BY <2>2, <2>3 DEF T3Inv, T3Tag
<1> QED BY <1>1, <1>2, NotEnded DEF T3Inv, T3Doing, T3Known

(* phalTop_Reset with a type 4 tag.                                         *)
LEMMA T4Resets ==
  ASSUME T4Inv, call' = Returned("SUCCESS"), tag' = tag, top' = T4!ResetTop
  PROVE  T4Inv'
<1>1. CallOK' /\ ~Busy' /\ call'.op = "none" /\ ~call'.checked
  BY ReturnedCall DEF Busy
<1>2. T4Top' /\ T4Tag'
  <2>1. 0 \in 0 .. Room /\ "UNKNOWN" \in States
    BY RoomPositive DEF States
  <2>2. T4Top'
    BY <2>1 DEF T4!ResetTop, T4!Reset, T4Top, Access, T4Inv
  <2> QED BY <2>2 DEF T4Inv, T4Tag
<1> QED BY <1>1, <1>2, NotEnded DEF T4Inv, T4Doing, T4Known

-----------------------------------------------------------------------------
(* What the composition says of a tag is what the module of its type        *)
(* says.                                                                    *)
LEMMA OfType ==
  /\ type = "T1T" => Content = T1!Content /\ Hidden = None /\ (Writable <=> T1!Writable)
  /\ type = "T2T" => Content = T2!Content /\ Hidden = T2!Hidden /\ (Writable <=> T2!Writable)
  /\ type = "T3T" => Content = T3!Content /\ Hidden = None /\ (Writable <=> T3!Writable)
  /\ type = "T4T" => Content = T4!Content /\ Hidden = None /\ (Writable <=> T4!Writable)
<1>1. /\ type = "T1T" => Content = T1!Content
      /\ type = "T2T" => Content = T2!Content
      /\ type = "T3T" => Content = T3!Content
      /\ type = "T4T" => Content = T4!Content
  BY DEF Content
<1>2. /\ type = "T1T" => (Writable <=> T1!Writable)
      /\ type = "T2T" => (Writable <=> T2!Writable)
      /\ type = "T3T" => (Writable <=> T3!Writable)
      /\ type = "T4T" => (Writable <=> T4!Writable)
  BY DEF Writable
<1>3. /\ type = "T2T" => Hidden = T2!Hidden
      /\ type # "T2T" => Hidden = None
  BY DEF Hidden
<1> QED BY <1>1, <1>2, <1>3

(* The message on the tag depends on nothing but the tag.                   *)
LEMMA SameContent ==
  ASSUME type \in {"T1T", "T2T", "T3T", "T4T"}, type' = type, tag' = tag
  PROVE  Content' = Content /\ Hidden' = Hidden
<1>1. /\ T1!Content' = T1!Content /\ T2!Content' = T2!Content /\ T3!Content' = T3!Content
      /\ T4!Content' = T4!Content /\ T2!Hidden' = T2!Hidden
  BY T1ContentIs, T2ContentIs, T3ContentIs, T4ContentIs
     DEF T1!Content, T2!Content, T3!Content, T2!Hidden
<1> QED BY <1>1, OfType DEF Content, Hidden

(* And so after a step.                                                     *)
LEMMA OfTypeNext ==
  /\ type' = "T1T" => Content' = T1!Content' /\ Hidden' = None
  /\ type' = "T2T" => Content' = T2!Content' /\ Hidden' = T2!Hidden'
  /\ type' = "T3T" => Content' = T3!Content' /\ Hidden' = None
  /\ type' = "T4T" => Content' = T4!Content' /\ Hidden' = None
<1>1. /\ type' = "T1T" => Content' = T1!Content'
      /\ type' = "T2T" => Content' = T2!Content'
      /\ type' = "T3T" => Content' = T3!Content'
      /\ type' = "T4T" => Content' = T4!Content'
  BY DEF Content
<1>2. /\ type' = "T2T" => Hidden' = T2!Hidden'
      /\ type' # "T2T" => Hidden' = None
  BY DEF Hidden
<1> QED BY <1>1, <1>2

(* The invariant holds at first; the tag holds a message or none.           *)
LEMMA InitInvariant == Init => TagInvariant /\ Content \in Messages \cup {None} /\ Hidden = None
<1> SUFFICES ASSUME Init PROVE TagInvariant /\ Content \in Messages \cup {None} /\ Hidden = None
  OBVIOUS
<1>1. call = Returned("SUCCESS")
  BY DEF Init
<1>2. CASE type = "T1T" /\ tag \in T1!Tags /\ top = T1!Reset
  BY <1>1, <1>2, T1Starts, OfType DEF TagInvariant
<1>3. CASE type = "T2T" /\ tag \in T2!Tags /\ top = T2!Reset
  BY <1>1, <1>3, T2Starts, OfType DEF TagInvariant
<1>4. CASE type = "T3T" /\ tag \in T3!Tags /\ top = T3!Reset
  BY <1>1, <1>4, T3Starts, OfType DEF TagInvariant
<1>5. CASE type = "T4T" /\ tag \in T4!Tags /\ top = T4!Reset
  BY <1>1, <1>5, T4Starts, OfType DEF TagInvariant
<1> QED BY <1>2, <1>3, <1>4, <1>5 DEF Init

(* phalTop_Reset keeps the invariant, and the message on the tag.           *)
LEMMA ResetKeeps ==
  ASSUME TagInvariant, Reset
  PROVE  TagInvariant' /\ WriteStep(Writable) /\ ~Busy /\ ~Busy' /\ type' = type /\ tag' = tag
<1>1. ~Busy /\ type' = type /\ tag' = tag /\ call' = Returned("SUCCESS")
  BY DEF Reset
<1>2. call'.op = "none" /\ ~Busy'
  BY <1>1, ReturnedCall DEF Busy
<1>3. WriteStep(Writable)
  BY <1>2 DEF WriteStep
<1>4. type = "T1T" => T1Inv'
  <2> SUFFICES ASSUME type = "T1T" PROVE T1Inv'
    OBVIOUS
  <2>1. top' = T1!ResetTop
    BY DEF Reset
  <2>2. T1Inv
    BY DEF TagInvariant
  <2> QED BY <1>1, <2>1, <2>2, T1Resets
<1>5. type = "T2T" => T2Inv'
  <2> SUFFICES ASSUME type = "T2T" PROVE T2Inv'
    OBVIOUS
  <2>1. top' = T2!ResetTop
    BY DEF Reset
  <2>2. T2Inv
    BY DEF TagInvariant
  <2> QED BY <1>1, <2>1, <2>2, T2Resets
<1>6. type = "T3T" => T3Inv'
  <2> SUFFICES ASSUME type = "T3T" PROVE T3Inv'
    OBVIOUS
  <2>1. top' = T3!ResetTop
    BY DEF Reset
  <2>2. T3Inv
    BY DEF TagInvariant
  <2> QED BY <1>1, <2>1, <2>2, T3Resets
<1>7. type = "T4T" => T4Inv'
  <2> SUFFICES ASSUME type = "T4T" PROVE T4Inv'
    OBVIOUS
  <2>1. top' = T4!ResetTop
    BY DEF Reset
  <2>2. T4Inv
    BY DEF TagInvariant
  <2> QED BY <1>1, <2>1, <2>2, T4Resets
<1> QED BY <1>1, <1>2, <1>3, <1>4, <1>5, <1>6, <1>7 DEF TagInvariant

(* So does every step of an operation, which does to the message what the   *)
(* operation may do.                                                        *)
LEMMA OperationKeeps ==
  ASSUME TagInvariant, Operation
  PROVE  /\ TagInvariant' /\ WriteStep(Writable) /\ type' = type
         /\ \/ ~Busy /\ tag' = tag /\ Begun
            \/ Busy /\ Keeps /\ Effect(call, Content, Hidden, Content', Hidden')
<1>1. type' = type
  BY DEF Operation
<1>2. PICK c, h, d, g, w : c = Content /\ h = Hidden /\ d = Content' /\ g = Hidden' /\ w = Writable
  OBVIOUS
<1>3. ASSUME type = "T1T", T1!Next
      PROVE  /\ TagInvariant' /\ WriteStep(w)
             /\ \/ ~Busy /\ tag' = tag /\ Begun
                \/ Busy /\ Keeps /\ Effect(call, c, h, d, g)
  <2>1. c = T1!Content /\ h = None /\ (w <=> T1!Writable) /\ d = T1!Content' /\ g = None
    BY <1>1, <1>2, <1>3, OfType, OfTypeNext
  <2>2. T1Inv
    BY <1>3 DEF TagInvariant
  <2>3. /\ T1Inv' /\ WriteStep(T1!Writable)
        /\ \/ ~Busy /\ tag' = tag /\ Begun
           \/ Busy /\ Keeps /\ Effect(call, T1!Content, None, T1!Content', None)
    BY <1>3, <2>2, T1NextKeeps
  <2>4. TagInvariant'
    BY <1>1, <1>3, <2>3 DEF TagInvariant
  <2>5. WriteStep(w)
    BY <2>1, <2>3 DEF WriteStep
  <2> QED BY <2>1, <2>3, <2>4, <2>5
<1>4. ASSUME type = "T2T", T2!Next
      PROVE  /\ TagInvariant' /\ WriteStep(w)
             /\ \/ ~Busy /\ tag' = tag /\ Begun
                \/ Busy /\ Keeps /\ Effect(call, c, h, d, g)
  <2>1. c = T2!Content /\ h = T2!Hidden /\ (w <=> T2!Writable) /\ d = T2!Content' /\ g = T2!Hidden'
    BY <1>1, <1>2, <1>4, OfType, OfTypeNext
  <2>2. T2Inv
    BY <1>4 DEF TagInvariant
  <2>3. /\ T2Inv' /\ WriteStep(T2!Writable)
        /\ \/ ~Busy /\ tag' = tag /\ Begun
           \/ Busy /\ Keeps /\ Effect(call, T2!Content, T2!Hidden, T2!Content', T2!Hidden')
    BY <1>4, <2>2, T2NextKeeps
  <2>4. TagInvariant'
    BY <1>1, <1>4, <2>3 DEF TagInvariant
  <2>5. WriteStep(w)
    BY <2>1, <2>3 DEF WriteStep
  <2> QED BY <2>1, <2>3, <2>4, <2>5
<1>5. ASSUME type = "T3T", T3!Next
      PROVE  /\ TagInvariant' /\ WriteStep(w)
             /\ \/ ~Busy /\ tag' = tag /\ Begun
                \/ Busy /\ Keeps /\ Effect(call, c, h, d, g)
  <2>1. c = T3!Content /\ h = None /\ (w <=> T3!Writable) /\ d = T3!Content' /\ g = None
    BY <1>1, <1>2, <1>5, OfType, OfTypeNext
  <2>2. T3Inv
    BY <1>5 DEF TagInvariant
  <2>3. /\ T3Inv' /\ WriteStep(T3!Writable)
        /\ \/ ~Busy /\ tag' = tag /\ Begun
           \/ Busy /\ Keeps /\ Effect(call, T3!Content, None, T3!Content', None)
    BY <1>5, <2>2, T3NextKeeps
  <2>4. TagInvariant'
    BY <1>1, <1>5, <2>3 DEF TagInvariant
  <2>5. WriteStep(w)
    BY <2>1, <2>3 DEF WriteStep
  <2> QED BY <2>1, <2>3, <2>4, <2>5
<1>6. ASSUME type = "T4T", T4!Next
      PROVE  /\ TagInvariant' /\ WriteStep(w)
             /\ \/ ~Busy /\ tag' = tag /\ Begun
                \/ Busy /\ Keeps /\ Effect(call, c, h, d, g)
  <2>1. c = T4!Content /\ h = None /\ (w <=> T4!Writable) /\ d = T4!Content' /\ g = None
    BY <1>1, <1>2, <1>6, OfType, OfTypeNext
  <2>2. T4Inv
    BY <1>6 DEF TagInvariant
  <2>3. /\ T4Inv' /\ WriteStep(T4!Writable)
        /\ \/ ~Busy /\ tag' = tag /\ Begun
           \/ Busy /\ Keeps /\ Effect(call, T4!Content, None, T4!Content', None)
    BY <1>6, <2>2, T4NextKeeps
  <2>4. TagInvariant'
    BY <1>1, <1>6, <2>3 DEF TagInvariant
  <2>5. WriteStep(w)
    BY <2>1, <2>3 DEF WriteStep
  <2> QED BY <2>1, <2>3, <2>4, <2>5
<1>7. /\ TagInvariant' /\ WriteStep(w)
      /\ \/ ~Busy /\ tag' = tag /\ Begun
         \/ Busy /\ Keeps /\ Effect(call, c, h, d, g)
  BY <1>3, <1>4, <1>5, <1>6 DEF Operation
<1> QED BY <1>1, <1>2, <1>7

-----------------------------------------------------------------------------
(* So does a step in which nothing changes.                                 *)
LEMMA StutterKeeps ==
  ASSUME TagInvariant, UNCHANGED vars
  PROVE  TagInvariant' /\ type' = type /\ tag' = tag /\ call' = call
<1>1. type' = type /\ tag' = tag /\ top' = top /\ call' = call
  BY DEF vars, session
<1>2. /\ CallOK' <=> CallOK
      /\ Busy' <=> Busy
      /\ Left' = Left /\ Head1' = Head1 /\ Pieces' = Pieces /\ After' = After
      /\ ReadingCells' <=> ReadingCells
  BY <1>1 DEF CallOK, Busy, Left, Head1, ReadPlan, Pieces, After, GotCells, ReadingCells
<1>3. T1Inv => T1Inv'
  <2>1. /\ T1Checking => T1Checking'
        /\ T1Formatting => T1Formatting'
        /\ T1Writing => T1Writing'
        /\ T1Erasing => T1Erasing'
        /\ T1Locking => T1Locking'
        /\ T1Reading => T1Reading'
    BY <1>1, <1>2 DEF T1Checking, T1CheckPlan, T1Formatting, T1FormatPlan, T1Writing, T1WritePlan, T1Written,
                      T1Erasing, T1Locking, T1Reading, T1!Readable
  <2>2. (T1Tag => T1Tag') /\ (T1Top => T1Top') /\ (T1Known => T1Known')
    BY <1>1, <1>2 DEF T1Tag, T1Top, T1Known, T1!Readable, T1!Writable
  <2>3. T1!Content' = T1!Content /\ (T1!Writable' <=> T1!Writable)
    BY <1>1, T1ContentIs DEF T1!Content, T1!Writable
  <2>4. EndedWell(call, T1!Content, T1!Writable) => EndedWell(call, T1!Content, T1!Writable)'
    BY <1>1, <2>3 DEF EndedWell, Ended
  <2> QED BY <1>2, <2>1, <2>2, <2>4 DEF T1Inv, T1Doing
<1>4. T2Inv => T2Inv'
  <2>1. /\ T2Checking => T2Checking'
        /\ T2Formatting => T2Formatting'
        /\ T2Writing => T2Writing'
        /\ T2Erasing => T2Erasing'
        /\ T2Locking => T2Locking'
        /\ T2Reading => T2Reading'
    BY <1>1, <1>2 DEF T2Checking, T2Formatting, T2Writing, T2MessagePlan, T2Written,
                      T2Erasing, T2ErasePlan, T2Locking, T2Reading, T2!Readable
  <2>2. (T2Tag => T2Tag') /\ (T2Top => T2Top') /\ (T2Known => T2Known')
    BY <1>1, <1>2 DEF T2Tag, T2Top, T2Known, T2!Readable, T2!Writable
  <2>3. T2!Content' = T2!Content /\ (T2!Writable' <=> T2!Writable)
    BY <1>1, T2ContentIs DEF T2!Content, T2!Writable
  <2>4. EndedWell(call, T2!Content, T2!Writable) => EndedWell(call, T2!Content, T2!Writable)'
    BY <1>1, <2>3 DEF EndedWell, Ended
  <2> QED BY <1>2, <2>1, <2>2, <2>4 DEF T2Inv, T2Doing
<1>5. T3Inv => T3Inv'
  <2>1. /\ T3Checking => T3Checking'
        /\ T3Formatting => T3Formatting'
        /\ T3Writing => T3Writing'
        /\ T3Erasing => T3Erasing'
        /\ T3Reading => T3Reading'
    BY <1>1, <1>2 DEF T3Checking, T3PollPlan, T3SystemPlan, T3Formatting, T3McPlan, T3AibPlan, T3Writing,
                      T3WritePlan, T3Written, T3Erasing, T3Reading, T3!Readable
  <2>2. (T3Tag => T3Tag') /\ (T3Top => T3Top') /\ (T3Seen => T3Seen') /\ (T3Known => T3Known')
    BY <1>1, <1>2 DEF T3Tag, T3Top, T3Seen, T3Known, T3!Readable
  <2>3. T3!Content' = T3!Content /\ (T3!Writable' <=> T3!Writable)
    BY <1>1, T3ContentIs DEF T3!Content, T3!Writable
  <2>4. EndedWell(call, T3!Content, T3!Writable) => EndedWell(call, T3!Content, T3!Writable)'
    BY <1>1, <2>3 DEF EndedWell, Ended
  <2> QED BY <1>2, <2>1, <2>2, <2>4 DEF T3Inv, T3Doing
<1>6. T4Inv => T4Inv'
  <2>1. /\ T4Checking => T4Checking'
        /\ T4Zeroing => T4Zeroing'
        /\ T4Writing => T4Writing'
        /\ T4Reading => T4Reading'
    BY <1>1, <1>2 DEF T4Checking, T4CheckPlan, T4Creates, T4Created, T4Zeroing, T4ErasePlan, T4Writing,
                      T4WritePlan, T4Written, T4Reading, T4ReadPlan, GotCells
  <2>2. (T4Formatting => T4Formatting') /\ (T4Erasing => T4Erasing')
    BY <1>1, <1>2, <2>1 DEF T4Formatting, T4FormatPlan, T4Creates, T4Created, T4Erasing
  <2>3. (T4Tag => T4Tag') /\ (T4Top => T4Top') /\ (T4Known => T4Known')
    BY <1>1 DEF T4Tag, T4Shape, T4Top, T4Known
  <2>4. T4!Content' = T4!Content
    BY <1>1, T4ContentIs
  <2>5. EndedWell(call, T4!Content, TRUE) => EndedWell(call, T4!Content, TRUE)'
    BY <1>1, <2>4 DEF EndedWell, Ended
  <2> QED BY <1>2, <2>1, <2>2, <2>3, <2>5 DEF T4Inv, T4Doing
<1> QED BY <1>1, <1>3, <1>4, <1>5, <1>6 DEF TagInvariant

(* So does every step.                                                      *)
LEMMA StepKeeps == TagInvariant /\ [Next]_vars => TagInvariant'
BY ResetKeeps, OperationKeeps, StutterKeeps DEF Next

(* The inductive invariant holds in every reachable state, for every set    *)
(* of messages, their sizes and the room on the tag: each operation of      *)
(* phalTop_Sw_Int_T1T.c to T4T.c that has not returned is at a known        *)
(* place in its commands, with the tag as the commands before left it,      *)
(* and what phalTop_Sw.c notes of a checked tag is true of it.              *)
THEOREM TagInvariantCorrect == Spec => []TagInvariant
<1>1. Init => TagInvariant
  BY InitInvariant
<1> QED BY <1>1, StepKeeps, PTL DEF Spec

(* How the last call ended, whatever the type.                              *)
LEMMA HowItEnded ==
  ASSUME TagInvariant
  PROVE  \E w : EndedWell(call, Content, w)
<1>1. type = "T1T" => EndedWell(call, T1!Content, T1!Writable)
  BY DEF TagInvariant, T1Inv
<1>2. type = "T2T" => EndedWell(call, T2!Content, T2!Writable)
  BY DEF TagInvariant, T2Inv
<1>3. type = "T3T" => EndedWell(call, T3!Content, T3!Writable)
  BY DEF TagInvariant, T3Inv
<1>4. type = "T4T" => EndedWell(call, T4!Content, TRUE)
  BY DEF TagInvariant, T4Inv
<1>5. type \in {"T1T", "T2T", "T3T", "T4T"}
  BY DEF TagInvariant
<1> QED BY <1>1, <1>2, <1>3, <1>4, <1>5, OfType

(* An operation of phalTop that returns PH_ERR_SUCCESS has done what it     *)
(* is for: the message on the tag is the one WriteNdef was given (no        *)
(* operation having failed since CheckNdef), and the one before an erase    *)
(* or a format is gone, whichever frames and answers were lost.             *)
THEOREM SuccessMeansDoneCorrect == Spec => []SuccessMeansDone
<1>1. ASSUME TagInvariant PROVE SuccessMeansDone
  BY <1>1, HowItEnded DEF EndedWell, Ended, SuccessMeansDone, Done
<1> QED BY <1>1, TagInvariantCorrect, PTL

(* What phalTop_ReadNdef returns with success, no operation having failed   *)
(* since CheckNdef, is the message on the tag: the length and the state     *)
(* noted by earlier operations are never stale.                             *)
THEOREM ReadIsCurrentCorrect == Spec => []ReadIsCurrent
<1>1. ASSUME TagInvariant PROVE ReadIsCurrent
  BY <1>1, HowItEnded DEF EndedWell, Ended, ReadIsCurrent, Done
<1> QED BY <1>1, TagInvariantCorrect, PTL

(* phalTop_WriteNdef of a message that fits, to a checked tag that can be   *)
(* written, succeeds unless frames are lost: neither the tag nor the        *)
(* parameters are left by an earlier operation, whatever became of it, in   *)
(* a state that forbids it.                                                 *)
THEOREM WriteSucceedsCorrect == Spec => WriteSucceeds
<1>1. TagInvariant /\ [Next]_vars
        => [call'.op = "write" /\ ~Busy' /\ call'.clean /\ call.checked /\ Size[call'.msg] <= Room /\ Writable
              => call'.status = "SUCCESS"]_vars
  <2> SUFFICES ASSUME TagInvariant, Next
               PROVE  call'.op = "write" /\ ~Busy' /\ call'.clean /\ call.checked /\ Size[call'.msg] <= Room /\ Writable
                        => call'.status = "SUCCESS"
    OBVIOUS
  <2>1. WriteStep(Writable)
    BY ResetKeeps, OperationKeeps DEF Next
  <2> QED BY <2>1 DEF WriteStep, Busy
<1> QED BY <1>1, TagInvariantCorrect, PTL DEF Spec, WriteSucceeds

-----------------------------------------------------------------------------
(* The operation in progress, as NdefTag sees it.                           *)
Job == [op |-> IF Busy THEN call.op ELSE "none", msg |-> IF Busy THEN call.msg ELSE None]

(* What it is.                                                              *)
LEMMA Jobs ==
  /\ ~Busy => Job = Promise!Idle
  /\ Busy => Job.op = call.op /\ Job.msg = call.msg
  /\ ~Busy' => Job' = Promise!Idle
  /\ Busy' => Job' = [op |-> call'.op, msg |-> call'.msg]
  /\ Busy => Job = [op |-> call.op, msg |-> call.msg]
BY DEF Job, Promise!Idle

(* The operations implement NdefTag: another reader finds on the tag, at    *)
(* every moment and whatever is lost, the message that was there, none,     *)
(* or the whole new one, and no operation but a format, a write and an      *)
(* erase changes it.                                                        *)
THEOREM NdefTagImplemented == Spec => ImplementsNdefTag
<1>1. Init => Promise!Init
  <2> SUFFICES ASSUME Init PROVE Promise!Init
    OBVIOUS
  <2>1. Content \in Messages \cup {None} /\ Hidden = None
    BY InitInvariant
  <2>2. ~Busy
    BY FirstCall DEF Init
  <2>3. Job = Promise!Idle
    BY <2>2, Jobs
  <2> QED BY <2>1, <2>3 DEF Promise!Init, Job
<1>2. TagInvariant /\ [Next]_vars => [Promise!Next]_(Promise!vars)
  <2> SUFFICES ASSUME TagInvariant, [Next]_vars
               PROVE  Promise!Next \/ (Content' = Content /\ Hidden' = Hidden /\ Job' = Job)
    BY DEF Promise!vars, Job
  <2>0. type \in {"T1T", "T2T", "T3T", "T4T"}
    BY DEF TagInvariant
  <2>1. CASE UNCHANGED vars
    BY <2>0, <2>1, StutterKeeps, SameContent DEF Job, Busy
  <2>2. CASE Reset
    BY <2>0, <2>2, ResetKeeps, SameContent, Jobs
  <2>3. CASE Operation /\ ~Busy /\ tag' = tag /\ Begun
    <3>1. Content' = Content /\ Hidden' = Hidden
      BY <2>0, <2>3, OperationKeeps, SameContent
    <3>2. CASE call' = call
      BY <3>1, <3>2 DEF Job, Busy
    <3>3. CASE call'.op \in Operations /\ call'.msg \in Messages \cup {None}
      <4>1. PICK op, m : op = call'.op /\ m = call'.msg
        OBVIOUS
      <4>2. CASE ~Busy'
        BY <2>3, <3>1, <4>2, Jobs
      <4>3. CASE Busy'
        <5>1. Promise!Begin(op, m)
          BY <2>3, <3>1, <4>1, <4>3, Jobs DEF Promise!Begin, Job
        <5>2. op \in Promise!Operations
          BY <3>3, <4>1 DEF Promise!Operations, Operations
        <5> QED BY <3>3, <4>1, <5>1, <5>2 DEF Promise!Next
      <4> QED BY <4>2, <4>3
    <3> QED BY <2>3, <3>2, <3>3 DEF Begun
  <2>4. CASE Operation /\ Busy /\ Keeps /\ Effect(call, Content, Hidden, Content', Hidden')
    <3>1. Job' \in {Job, Promise!Idle} /\ Job.op = call.op /\ Job.msg = call.msg
      BY <2>4, Jobs DEF Keeps
    <3>2. CASE Content' = Content /\ Hidden' = Hidden
      BY <3>1, <3>2 DEF Promise!Next, Promise!End, Job
    <3>3. CASE /\ call.op \in {"format", "write", "erase"} /\ Content' = None
               /\ Hidden' = None \/ (call.op = "erase" /\ Hidden' = Content)
      <4>1. Promise!Unmark
        BY <3>1, <3>3 DEF Promise!Unmark, Job
      <4> QED BY <4>1 DEF Promise!Next
    <3>4. CASE /\ call.op \in {"format", "write"}
               /\ \/ Content' = call.msg /\ Hidden' = None
                  \/ Content = None /\ Content' = Content /\ Hidden' = call.msg
      <4>1. Promise!Store
        BY <3>1, <3>4 DEF Promise!Store, Job
      <4> QED BY <4>1 DEF Promise!Next
    <3>5. CASE call.op = "format" /\ Content = None /\ Content' = Hidden /\ Hidden' = None
      <4>1. Promise!Reappear
        BY <3>1, <3>5 DEF Promise!Reappear, Job
      <4> QED BY <4>1 DEF Promise!Next
    <3> QED BY <2>4, <3>2, <3>3, <3>4, <3>5 DEF Effect
  <2> QED BY <2>1, <2>2, <2>3, <2>4, OperationKeeps DEF Next
<1> QED BY <1>1, <1>2, TagInvariantCorrect, PTL DEF Spec, ImplementsNdefTag, Promise!Spec
=============================================================================
