------------------------------ MODULE CpuProofs ------------------------------
(***************************************************************************)
(* Proofs about Cpu, for every size of a byte and of the stack, every set  *)
(* of addresses with instructions and every program that keeps to the      *)
(* calling convention: the frames stay as they were built, and the CPU     *)
(* implements CallStack.                                                   *)
(***************************************************************************)
EXTENDS Cpu, Integers, TLAPS

-----------------------------------------------------------------------------
(* Words and their bytes *)

LEMMA Sizes ==
  /\ ByteSize \in Nat /\ ByteSize >= 2 /\ BottomOfStack \in Nat /\ BottomOfStack >= 6
  /\ Words \subseteq Nat /\ Bytes \subseteq Words /\ {0, 1} \subseteq Bytes
  /\ 0 .. BottomOfStack \subseteq Words
<1>1. /\ ByteSize \in Nat /\ ByteSize >= 2
      /\ BottomOfStack \in Nat /\ BottomOfStack >= 6 /\ BottomOfStack < ByteSize * ByteSize
  BY CpuAssumption DEF Words
<1>2. \A a \in Nat : a >= 2 => a * a >= a /\ a * a \in Nat
  OBVIOUS
<1>3. ByteSize * ByteSize >= ByteSize /\ ByteSize * ByteSize \in Nat
  BY <1>1, <1>2
<1> QED
  BY <1>1, <1>3 DEF Words, Bytes

LEMMA WordOfBytes ==
  ASSUME NEW high \in Bytes, NEW low \in Bytes
  PROVE  high * ByteSize + low \in Words
<1>1. /\ high \in Nat /\ low \in Nat /\ high <= ByteSize - 1 /\ low <= ByteSize - 1
      /\ ByteSize \in Nat
  BY Sizes DEF Bytes
<1>2. high * ByteSize <= (ByteSize - 1) * ByteSize
  BY <1>1
<1>3. (ByteSize - 1) * ByteSize = ByteSize * ByteSize - ByteSize
  BY <1>1
<1>4. high * ByteSize \in Nat /\ ByteSize * ByteSize \in Nat
  BY <1>1
<1> QED
  BY <1>1, <1>2, <1>3, <1>4 DEF Words

\* A word is made up of its two bytes.
LEMMA BytesOfWord ==
  ASSUME NEW word \in Words
  PROVE  High(word) \in Bytes /\ Low(word) \in Bytes /\ High(word) * ByteSize + Low(word) = word
<1>1. word \in Int /\ 0 <= word /\ word < ByteSize * ByteSize /\ ByteSize \in Nat /\ ByteSize >= 2
  BY Sizes DEF Words
<1>2. /\ High(word) \in Int /\ Low(word) \in Int /\ 0 <= Low(word) /\ Low(word) < ByteSize
      /\ word = High(word) * ByteSize + Low(word)
  BY <1>1 DEF High, Low
<1>3. ASSUME NEW h \in Int, h < 0 PROVE h * ByteSize <= -ByteSize
  BY <1>1, <1>3
<1>4. ASSUME NEW h \in Int, h >= ByteSize PROVE h * ByteSize >= ByteSize * ByteSize
  BY <1>1, <1>4
<1>5. High(word) * ByteSize \in Int /\ ByteSize * ByteSize \in Int
  BY <1>1, <1>2
<1>6. High(word) >= 0
  BY <1>1, <1>2, <1>3, <1>5
<1>7. High(word) < ByteSize
  BY <1>1, <1>2, <1>4, <1>5
<1> QED
  BY <1>1, <1>2, <1>6, <1>7 DEF Bytes

StackBytes == [0 .. BottomOfStack -> Bytes]

\* A word that is stored is there, and nothing else has changed.
LEMMA StoreLoad ==
  ASSUME NEW memory \in StackBytes, NEW word \in Words,
         NEW pos \in 0 .. BottomOfStack - 1
  PROVE  LET stored == StoreWord(memory, pos, word)
         IN  /\ stored \in StackBytes
             /\ stored[pos] * ByteSize + stored[pos + 1] = word
             /\ \A a \in 0 .. BottomOfStack : a \notin {pos, pos + 1} => stored[a] = memory[a]
<1>1. High(word) \in Bytes /\ Low(word) \in Bytes /\ High(word) * ByteSize + Low(word) = word
  BY BytesOfWord
<1>2. pos \in Int /\ pos \in 0 .. BottomOfStack /\ pos + 1 \in 0 .. BottomOfStack /\ pos # pos + 1
  BY Sizes
<1> QED
  BY <1>1, <1>2 DEF StoreWord, StackBytes

LEMMA LoadType ==
  ASSUME ram \in StackBytes, NEW pos \in 0 .. BottomOfStack - 1
  PROVE  LoadWord(pos) \in Words
<1>1. pos \in 0 .. BottomOfStack /\ pos + 1 \in 0 .. BottomOfStack
  BY Sizes
<1>2. ram[pos] \in Bytes /\ ram[pos + 1] \in Bytes
  BY <1>1 DEF StackBytes
<1> QED
  BY <1>2, WordOfBytes DEF LoadWord

-----------------------------------------------------------------------------
(* The inductive invariant *)

\* What End says, kind by kind.
LEMMA Ends ==
  ASSUME NEW f
  PROVE  /\ f.kind = "byte" => End(f) = f.at - 1
         /\ f.kind \in {"word", "flags", "call"} => End(f) = f.at - 2
         /\ f.kind = "enter" => End(f) = f.at - 4 - f.locals
         /\ f.kind \in {"int", "hardware"} => End(f) = f.at - 4
  BY DEF End

\* A frame that can be on the stack.
GoodFrame(f) ==
  /\ f \in FrameTypes
  /\ 0 <= End(f) /\ f.bp <= BottomOfStack

\* The frames go down from the bottom of the stack to top.
Layout(fs, top) ==
  /\ \A i \in 1 .. Len(fs) : fs[i].at = IF i = 1 THEN BottomOfStack ELSE End(fs[i - 1])
  /\ top = IF fs = <<>> THEN BottomOfStack ELSE End(fs[Len(fs)])

\* So a frame is above top, and above all that are deeper. (This follows from Layout,
\* by an induction; as a part of the invariant it needs none.)
Descending(fs, top) ==
  /\ \A i \in 1 .. Len(fs) : top <= End(fs[i])
  /\ \A i, j \in 1 .. Len(fs) : i < j => fs[j].at <= End(fs[i])

GoodStack(fs, top) ==
  /\ fs \in Seq(FrameTypes) /\ top \in 0 .. BottomOfStack
  /\ \A i \in 1 .. Len(fs) : GoodFrame(fs[i])
  /\ Layout(fs, top) /\ Descending(fs, top)

AllStored == \A i \in 1 .. Len(frames) : Stored(frames[i])

\* EnterBelow, for any frames. That it finds one that is there is a part of the
\* invariant for the same reason.
Innermost(S) == IF S = {} THEN 0 ELSE CHOOSE k \in S : \A l \in S : l <= k
EnterIn(fs, i) == Innermost({k \in 1 .. i - 1 : fs[k].kind = "enter"})

PointerIn(fs, i) == IF EnterIn(fs, i) = 0 THEN 0 ELSE fs[EnterIn(fs, i)].at - 4

Chain(fs, pointer) ==
  /\ \A i \in 1 .. Len(fs) + 1 : EnterIn(fs, i) \in 0 .. i - 1
  /\ pointer = PointerIn(fs, Len(fs) + 1)
  /\ \A i \in 1 .. Len(fs) : fs[i].kind = "enter" => fs[i].bp = PointerIn(fs, i)

\* While the handler of a hardware interrupt is masked, no flag on the stack above it
\* would enable interrupts.
Masked(fs, flag) ==
  \A i \in 1 .. Len(fs) : fs[i].kind = "hardware" /\ ~fs[i].sti =>
      /\ flag = 0
      /\ \A j \in i + 1 .. Len(fs) :
            /\ fs[j].kind # "hardware"
            /\ fs[j].kind \in {"flags", "int"} => fs[j].flag = 0

CpuInv ==
  /\ TypeOK
  /\ GoodStack(frames, sp) /\ AllStored
  /\ Chain(frames, bp)
  /\ Masked(frames, int_flag)

-----------------------------------------------------------------------------
(* Frames come and go *)

LEMMA EndBelow ==
  ASSUME NEW f \in FrameTypes
  PROVE  /\ f.at \in 0 .. BottomOfStack /\ f.locals \in Nat /\ f.kind \in Convention!Kinds
         /\ End(f) \in Int /\ End(f) < f.at
<1>1. /\ f.at \in 0 .. BottomOfStack /\ f.locals \in Nat /\ f.kind \in Convention!Kinds
  BY Sizes DEF FrameTypes, Bytes
<1> QED
  BY <1>1, Ends, Sizes DEF Convention!Kinds

LEMMA PushGood ==
  ASSUME NEW fs, NEW top, GoodStack(fs, top), NEW f, GoodFrame(f), f.at = top
  PROVE  GoodStack(Append(fs, f), End(f))
<1> DEFINE gs == Append(fs, f)
<1>1. fs \in Seq(FrameTypes) /\ f \in FrameTypes /\ top \in 0 .. BottomOfStack
  BY DEF GoodStack, GoodFrame
<1>2. /\ gs \in Seq(FrameTypes) /\ Len(gs) = Len(fs) + 1 /\ gs # <<>> /\ Len(fs) \in Nat
      /\ \A i \in 1 .. Len(fs) : gs[i] = fs[i]
      /\ gs[Len(fs) + 1] = f
      /\ fs = <<>> <=> Len(fs) = 0
  BY <1>1
<1>3. End(f) \in 0 .. BottomOfStack /\ End(f) < top /\ top \in Int
  BY <1>1, EndBelow, Sizes DEF GoodFrame
<1>4. \A i \in 1 .. Len(fs) : fs[i] \in FrameTypes /\ End(fs[i]) \in Int
  BY <1>1, EndBelow
<1> HIDE DEF gs
<1>5. \A i \in 1 .. Len(gs) : GoodFrame(gs[i])
  BY <1>2 DEF GoodStack
<1>6. Layout(gs, End(f))
  <2>1. ASSUME NEW i \in 1 .. Len(gs)
        PROVE  gs[i].at = IF i = 1 THEN BottomOfStack ELSE End(gs[i - 1])
    <3>1. CASE i \in 1 .. Len(fs)
      <4>1. gs[i] = fs[i] /\ (i = 1 \/ gs[i - 1] = fs[i - 1])
        BY <1>2, <3>1
      <4>2. fs[i].at = IF i = 1 THEN BottomOfStack ELSE End(fs[i - 1])
        BY <3>1 DEF GoodStack, Layout
      <4> QED
        BY <4>1, <4>2
    <3>2. CASE i = Len(fs) + 1
      <4>1. gs[i].at = top /\ i \in Nat
        BY <1>2, <3>2
      <4>2. i # 1 => gs[i - 1] = fs[Len(fs)] /\ fs # <<>>
        BY <1>2, <3>2
      <4>3. top = IF fs = <<>> THEN BottomOfStack ELSE End(fs[Len(fs)])
        BY DEF GoodStack, Layout
      <4>4. i = 1 => fs = <<>>
        BY <1>2, <3>2
      <4> QED
        BY <4>1, <4>2, <4>3, <4>4
    <3> QED
      BY <1>2, <3>1, <3>2
  <2> QED
    BY <1>2, <2>1 DEF Layout
<1>7. Descending(gs, End(f))
  <2>1. /\ \A i \in 1 .. Len(fs) : top <= End(fs[i])
        /\ \A i, j \in 1 .. Len(fs) : i < j => fs[j].at <= End(fs[i])
    BY DEF GoodStack, Descending
  <2>2. \A i \in 1 .. Len(gs) : End(f) <= End(gs[i])
    BY <1>2, <1>3, <1>4, <2>1
  <2>3. ASSUME NEW i \in 1 .. Len(gs), NEW j \in 1 .. Len(gs), i < j
        PROVE  gs[j].at <= End(gs[i])
    <3>1. i \in 1 .. Len(fs) /\ gs[i] = fs[i]
      BY <1>2, <2>3
    <3>2. CASE j = Len(fs) + 1
      BY <1>2, <2>1, <3>1, <3>2
    <3>3. CASE j # Len(fs) + 1
      <4>1. j \in 1 .. Len(fs) /\ gs[j] = fs[j]
        BY <1>2, <3>3
      <4> QED
        BY <2>1, <2>3, <3>1, <4>1
    <3> QED
      BY <3>2, <3>3
  <2> QED
    BY <2>2, <2>3 DEF Descending
<1> QED
  BY <1>2, <1>3, <1>5, <1>6, <1>7 DEF GoodStack, gs

LEMMA PopGood ==
  ASSUME NEW fs, NEW top, GoodStack(fs, top), NEW n \in 0 .. Len(fs) - 1
  PROVE  GoodStack(SubSeq(fs, 1, n), fs[n + 1].at)
<1> DEFINE gs == SubSeq(fs, 1, n)
<1>1. fs \in Seq(FrameTypes) /\ Len(fs) \in Nat /\ n \in Nat /\ n + 1 \in 1 .. Len(fs)
  BY DEF GoodStack
<1>2. /\ gs \in Seq(FrameTypes) /\ Len(gs) = n /\ (gs = <<>> <=> n = 0)
      /\ \A i \in 1 .. n : gs[i] = fs[i]
  BY <1>1
<1>3. \A i \in 1 .. Len(fs) : fs[i] \in FrameTypes /\ End(fs[i]) \in Int
                              /\ fs[i].at \in 0 .. BottomOfStack
  BY <1>1, EndBelow
<1> HIDE DEF gs
<1>4. \A i \in 1 .. Len(gs) : GoodFrame(gs[i])
  BY <1>1, <1>2 DEF GoodStack
<1>5. Layout(gs, fs[n + 1].at)
  <2>1. \A i \in 1 .. Len(fs) : fs[i].at = IF i = 1 THEN BottomOfStack ELSE End(fs[i - 1])
    BY DEF GoodStack, Layout
  <2>2. \A i \in 1 .. n : gs[i].at = IF i = 1 THEN BottomOfStack ELSE End(gs[i - 1])
    <3> TAKE i \in 1 .. n
    <3>1. i \in 1 .. Len(fs) /\ gs[i] = fs[i] /\ (i # 1 => gs[i - 1] = fs[i - 1])
      BY <1>1, <1>2
    <3> QED
      BY <2>1, <3>1
  <2>3. fs[n + 1].at = IF n = 0 THEN BottomOfStack ELSE End(gs[n])
    <3>1. fs[n + 1].at = IF n + 1 = 1 THEN BottomOfStack ELSE End(fs[(n + 1) - 1])
      BY <1>1, <2>1
    <3> QED
      BY <1>1, <1>2, <3>1
  <2> QED
    BY <1>2, <2>2, <2>3 DEF Layout
<1>6. Descending(gs, fs[n + 1].at)
  <2>1. \A i, j \in 1 .. Len(fs) : i < j => fs[j].at <= End(fs[i])
    BY DEF GoodStack, Descending
  <2>2. \A i \in 1 .. n : i \in 1 .. Len(fs) /\ i < n + 1
    BY <1>1
  <2> QED
    BY <1>1, <1>2, <2>1, <2>2 DEF Descending
<1> QED
  BY <1>1, <1>2, <1>3, <1>4, <1>5, <1>6 DEF GoodStack, gs

\* A frame stays as it is when only bytes below it are written.
LEMMA StoredStays ==
  ASSUME NEW f, GoodFrame(f), Stored(f),
         \A a \in 0 .. BottomOfStack : a > End(f) => ram'[a] = ram[a]
  PROVE  Stored(f)'
<1>1. /\ f.at \in 0 .. BottomOfStack /\ f.locals \in Nat /\ f.kind \in Convention!Kinds
      /\ End(f) \in Int /\ 0 <= End(f) /\ BottomOfStack \in Nat
  BY EndBelow, Sizes DEF GoodFrame
<1>2. CASE f.kind = "byte"
  <2>1. ram'[f.at] = ram[f.at]
    BY <1>1, <1>2, Ends
  <2> QED
    BY <1>2, <2>1 DEF Stored
<1>3. CASE f.kind \in {"word", "flags", "call"}
  <2>1. LoadWord(f.at - 1)' = LoadWord(f.at - 1)
    BY <1>1, <1>3, Ends DEF LoadWord
  <2> QED
    BY <1>3, <2>1 DEF Stored
<1>4. CASE f.kind = "enter"
  <2>1. ram'[f.at] = ram[f.at] /\ ram'[f.at - 1] = ram[f.at - 1]
    BY <1>1, <1>4, Ends
  <2>2. LoadWord(f.at - 3)' = LoadWord(f.at - 3)
    BY <1>1, <1>4, Ends DEF LoadWord
  <2> QED
    BY <1>4, <2>1, <2>2 DEF Stored
<1>5. CASE f.kind \in {"int", "hardware"}
  <2>1. LoadWord(f.at - 1)' = LoadWord(f.at - 1) /\ LoadWord(f.at - 3)' = LoadWord(f.at - 3)
    BY <1>1, <1>5, Ends DEF LoadWord
  <2> QED
    BY <1>5, <2>1 DEF Stored
<1> QED
  BY <1>1, <1>2, <1>3, <1>4, <1>5 DEF Convention!Kinds

-----------------------------------------------------------------------------
(* Frame pointers *)

\* Only what is below matters.
LEMMA EnterSame ==
  ASSUME NEW fs, NEW gs, NEW i \in Nat, EnterIn(fs, i) \in 0 .. i - 1,
         \A k \in 1 .. i - 1 : gs[k].kind = fs[k].kind /\ gs[k].at = fs[k].at
  PROVE  EnterIn(gs, i) = EnterIn(fs, i) /\ PointerIn(gs, i) = PointerIn(fs, i)
<1>1. {k \in 1 .. i - 1 : gs[k].kind = "enter"} = {k \in 1 .. i - 1 : fs[k].kind = "enter"}
  OBVIOUS
<1>2. EnterIn(gs, i) = EnterIn(fs, i)
  BY <1>1 DEF EnterIn
<1> QED
  BY <1>2 DEF PointerIn

LEMMA EnterSkip ==
  ASSUME NEW fs, NEW i \in Nat, NEW j \in Nat, i <= j,
         \A k \in i .. j - 1 : fs[k].kind # "enter"
  PROVE  EnterIn(fs, j) = EnterIn(fs, i) /\ PointerIn(fs, j) = PointerIn(fs, i)
<1>1. {k \in 1 .. j - 1 : fs[k].kind = "enter"} = {k \in 1 .. i - 1 : fs[k].kind = "enter"}
  OBVIOUS
<1> QED
  BY <1>1 DEF EnterIn, PointerIn

LEMMA EnterFound ==
  ASSUME NEW fs, NEW i \in Nat, i >= 1, fs[i].kind = "enter"
  PROVE  EnterIn(fs, i + 1) = i /\ PointerIn(fs, i + 1) = fs[i].at - 4
<1> DEFINE S == {k \in 1 .. (i + 1) - 1 : fs[k].kind = "enter"}
<1>1. i \in S /\ \A l \in S : l <= i /\ l \in Nat
  OBVIOUS
<1>2. \A k \in S : (\A l \in S : l <= k) => k = i
  BY <1>1
<1>3. (CHOOSE k \in S : \A l \in S : l <= k) = i
  BY <1>1, <1>2
<1>4. EnterIn(fs, i + 1) = i
  BY <1>1, <1>3 DEF EnterIn, Innermost
<1> QED
  BY <1>4 DEF PointerIn

LEMMA PushChain ==
  ASSUME NEW fs \in Seq(FrameTypes), NEW pointer, Chain(fs, pointer),
         NEW f \in FrameTypes, f.kind = "enter" => f.bp = pointer
  PROVE  Chain(Append(fs, f), IF f.kind = "enter" THEN f.at - 4 ELSE pointer)
<1> DEFINE gs == Append(fs, f)
           n == Len(fs) + 1
<1>1. /\ Len(gs) = n /\ n \in Nat /\ n >= 1
      /\ \A i \in 1 .. n - 1 : gs[i] = fs[i] /\ i \in 1 .. Len(fs)
      /\ gs[n] = f
  OBVIOUS
<1>2. /\ \A i \in 1 .. n : EnterIn(fs, i) \in 0 .. i - 1
      /\ pointer = PointerIn(fs, n)
      /\ \A i \in 1 .. Len(fs) : fs[i].kind = "enter" => fs[i].bp = PointerIn(fs, i)
  BY DEF Chain
<1> HIDE DEF gs, n
<1>3. ASSUME NEW i \in 1 .. n
      PROVE  EnterIn(gs, i) = EnterIn(fs, i) /\ PointerIn(gs, i) = PointerIn(fs, i)
  <2>1. i \in Nat /\ \A k \in 1 .. i - 1 : gs[k].kind = fs[k].kind /\ gs[k].at = fs[k].at
    BY <1>1
  <2> QED
    BY <1>2, <2>1, EnterSame
<1>4. /\ EnterIn(gs, n + 1) \in 0 .. (n + 1) - 1
      /\ PointerIn(gs, n + 1) = IF f.kind = "enter" THEN f.at - 4 ELSE pointer
  <2>1. CASE f.kind = "enter"
    BY <1>1, <2>1, EnterFound
  <2>2. CASE f.kind # "enter"
    <3>1. \A k \in n .. (n + 1) - 1 : gs[k].kind # "enter"
      BY <1>1, <2>2
    <3>2. EnterIn(gs, n + 1) = EnterIn(gs, n) /\ PointerIn(gs, n + 1) = PointerIn(gs, n)
      BY <1>1, <3>1, EnterSkip
    <3> QED
      BY <1>1, <1>2, <1>3, <2>2, <3>2
  <2> QED
    BY <2>1, <2>2
<1>5. \A i \in 1 .. Len(gs) + 1 : EnterIn(gs, i) \in 0 .. i - 1
  BY <1>1, <1>2, <1>3, <1>4
<1>6. \A i \in 1 .. Len(gs) : gs[i].kind = "enter" => gs[i].bp = PointerIn(gs, i)
  <2> TAKE i \in 1 .. Len(gs)
  <2>1. CASE i = n
    BY <1>1, <1>2, <1>3, <2>1
  <2>2. CASE i # n
    <3>1. i \in 1 .. n - 1 /\ i \in 1 .. n
      BY <1>1, <2>2
    <3> QED
      BY <1>1, <1>2, <1>3, <3>1
  <2> QED
    BY <2>1, <2>2
<1> QED
  BY <1>1, <1>4, <1>5, <1>6 DEF Chain, gs

LEMMA PopChain ==
  ASSUME NEW fs \in Seq(FrameTypes), NEW pointer, Chain(fs, pointer),
         NEW n \in 0 .. Len(fs) - 1
  PROVE  Chain(SubSeq(fs, 1, n), PointerIn(fs, n + 1))
<1> DEFINE gs == SubSeq(fs, 1, n)
<1>1. /\ n \in Nat /\ Len(gs) = n /\ Len(fs) \in Nat
      /\ \A i \in 1 .. n : gs[i] = fs[i] /\ i \in 1 .. Len(fs)
  OBVIOUS
<1>2. /\ \A i \in 1 .. n + 1 : EnterIn(fs, i) \in 0 .. i - 1
      /\ \A i \in 1 .. Len(fs) : fs[i].kind = "enter" => fs[i].bp = PointerIn(fs, i)
  BY <1>1 DEF Chain
<1> HIDE DEF gs
<1>3. ASSUME NEW i \in 1 .. n + 1
      PROVE  EnterIn(gs, i) = EnterIn(fs, i) /\ PointerIn(gs, i) = PointerIn(fs, i)
  <2>1. i \in Nat /\ \A k \in 1 .. i - 1 : gs[k].kind = fs[k].kind /\ gs[k].at = fs[k].at
    BY <1>1
  <2> QED
    BY <1>2, <2>1, EnterSame
<1> QED
  BY <1>1, <1>2, <1>3 DEF Chain, gs

\* What does not move or change its kind does not disturb the pointers.
LEMMA SameChain ==
  ASSUME NEW fs, NEW gs, NEW pointer, Chain(fs, pointer),
         Len(fs) \in Nat, Len(gs) = Len(fs),
         \A i \in 1 .. Len(fs) : /\ gs[i].kind = fs[i].kind /\ gs[i].at = fs[i].at
                                 /\ gs[i].bp = fs[i].bp
  PROVE  Chain(gs, pointer)
<1>1. ASSUME NEW i \in 1 .. Len(fs) + 1
      PROVE  EnterIn(gs, i) = EnterIn(fs, i) /\ PointerIn(gs, i) = PointerIn(fs, i)
  <2>1. /\ i \in Nat /\ EnterIn(fs, i) \in 0 .. i - 1
        /\ \A k \in 1 .. i - 1 : gs[k].kind = fs[k].kind /\ gs[k].at = fs[k].at
    BY DEF Chain
  <2> QED
    BY <2>1, EnterSame
<1> QED
  BY <1>1 DEF Chain

-----------------------------------------------------------------------------
(* Flags *)

LEMMA PushMasked ==
  ASSUME NEW fs \in Seq(FrameTypes), NEW flag, Masked(fs, flag), NEW f, NEW new,
         f.kind = "hardware" => flag = 1 /\ new = 0,
         f.kind # "hardware" => new = flag,
         f.kind \in {"flags", "int"} => f.flag = flag
  PROVE  Masked(Append(fs, f), new)
<1> DEFINE gs == Append(fs, f)
<1>1. /\ Len(gs) = Len(fs) + 1 /\ Len(fs) \in Nat
      /\ \A i \in 1 .. Len(fs) : gs[i] = fs[i]
      /\ gs[Len(fs) + 1] = f
  OBVIOUS
<1> HIDE DEF gs
<1>2. SUFFICES ASSUME NEW i \in 1 .. Len(gs), gs[i].kind = "hardware" /\ ~gs[i].sti
               PROVE  /\ new = 0
                      /\ \A j \in i + 1 .. Len(gs) :
                            /\ gs[j].kind # "hardware"
                            /\ gs[j].kind \in {"flags", "int"} => gs[j].flag = 0
  BY DEF Masked, gs
<1>3. CASE i = Len(fs) + 1
  BY <1>1, <1>2, <1>3
<1>4. CASE i # Len(fs) + 1
  <2>1. i \in 1 .. Len(fs) /\ fs[i].kind = "hardware" /\ ~fs[i].sti
    BY <1>1, <1>2, <1>4
  <2>2. /\ flag = 0
        /\ \A j \in i + 1 .. Len(fs) :
              /\ fs[j].kind # "hardware"
              /\ fs[j].kind \in {"flags", "int"} => fs[j].flag = 0
    BY <2>1 DEF Masked
  <2>3. f.kind # "hardware" /\ (f.kind \in {"flags", "int"} => f.flag = 0) /\ new = 0
    BY <2>2
  <2>4. \A j \in i + 1 .. Len(gs) : j \in i + 1 .. Len(fs) \/ j = Len(fs) + 1
    BY <1>1
  <2> QED
    BY <1>1, <2>1, <2>2, <2>3, <2>4
<1> QED
  BY <1>3, <1>4

LEMMA PopMasked ==
  ASSUME NEW fs \in Seq(FrameTypes), NEW flag, Masked(fs, flag),
         NEW n \in 0 .. Len(fs) - 1, NEW new,
         \/ new = flag
         \/ /\ n + 1 = Len(fs) /\ new = fs[n + 1].flag
            /\ fs[n + 1].kind \in {"flags", "int", "hardware"}
  PROVE  Masked(SubSeq(fs, 1, n), new)
<1> DEFINE gs == SubSeq(fs, 1, n)
<1>1. /\ Len(gs) = n /\ n \in Nat /\ Len(fs) \in Nat
      /\ \A i \in 1 .. n : gs[i] = fs[i] /\ i \in 1 .. Len(fs)
  OBVIOUS
<1> HIDE DEF gs
<1>2. SUFFICES ASSUME NEW i \in 1 .. n, fs[i].kind = "hardware" /\ ~fs[i].sti
               PROVE  /\ new = 0
                      /\ \A j \in i + 1 .. n :
                            /\ fs[j].kind # "hardware"
                            /\ fs[j].kind \in {"flags", "int"} => fs[j].flag = 0
  <2>1. \A i \in 1 .. n : \A j \in i + 1 .. n : j \in 1 .. n
    BY <1>1
  <2> QED
    BY <1>1, <2>1 DEF Masked, gs
<1>3. /\ flag = 0
      /\ \A j \in i + 1 .. Len(fs) :
            /\ fs[j].kind # "hardware"
            /\ fs[j].kind \in {"flags", "int"} => fs[j].flag = 0
  BY <1>1, <1>2 DEF Masked
<1>4. n + 1 \in i + 1 .. Len(fs) /\ \A j \in i + 1 .. n : j \in i + 1 .. Len(fs)
  BY <1>1
<1>5. fs[n + 1].kind # "hardware" /\ (fs[n + 1].kind \in {"flags", "int"} => fs[n + 1].flag = 0)
  BY <1>3, <1>4
<1> QED
  BY <1>3, <1>4, <1>5

-----------------------------------------------------------------------------
(* What the steps have in common *)

\* The types of all that is not about frames.
RestOK ==
  /\ interrupt_queue \in Seq(InterruptNumbers)
  /\ ip \in Words /\ int_flag \in {0, 1} /\ halt \in BOOLEAN
  /\ ram \in StackBytes
  /\ ivt \in [InterruptNumbers -> Targets]
  /\ power \in {"on", "shutdown", "error"}

LEMMA TypeParts ==
  TypeOK <=> RestOK /\ sp \in 0 .. BottomOfStack /\ bp \in 0 .. BottomOfStack
                    /\ frames \in Seq(FrameTypes)
  BY DEF TypeOK, RegistersTypeOK, RestOK, StackBytes

\* An instruction that leaves the stack alone.
LEMMA QuietKeeps ==
  ASSUME CpuInv, RestOK', UNCHANGED <<sp, bp, int_flag, ram, frames>>
  PROVE  CpuInv'
<1>1. AllStored'
  BY DEF CpuInv, AllStored, Stored, LoadWord
<1>2. TypeOK'
  BY TypeParts DEF CpuInv, TypeOK, RegistersTypeOK, RestOK, StackBytes
<1> QED
  BY <1>1, <1>2 DEF CpuInv

\* One that builds frame f.
LEMMA PushKeeps ==
  ASSUME CpuInv, RestOK', NEW f, GoodFrame(f), f.at = sp,
         frames' = Append(frames, f), sp' = End(f),
         \A a \in 0 .. BottomOfStack : a > sp => ram'[a] = ram[a],
         Stored(f)',
         bp' = IF f.kind = "enter" THEN f.at - 4 ELSE bp,
         f.kind = "enter" => f.bp = bp,
         f.kind = "hardware" => int_flag = 1 /\ int_flag' = 0,
         f.kind # "hardware" => int_flag' = int_flag,
         f.kind \in {"flags", "int"} => f.flag = int_flag
  PROVE  CpuInv'
<1>1. /\ frames \in Seq(FrameTypes) /\ Len(frames) \in Nat /\ GoodStack(frames, sp)
      /\ f \in FrameTypes /\ sp \in 0 .. BottomOfStack /\ bp \in 0 .. BottomOfStack
  BY TypeParts DEF CpuInv, GoodFrame
<1>2. GoodStack(frames', sp')
  BY <1>1, PushGood
<1>3. Chain(frames', bp')
  BY <1>1, PushChain DEF CpuInv
<1>4. Masked(frames', int_flag')
  BY <1>1, PushMasked DEF CpuInv
<1>5. AllStored'
  <2>1. ASSUME NEW i \in 1 .. Len(frames), NEW g, g = frames[i]
        PROVE  Stored(g)'
    <3>1. GoodFrame(g) /\ sp <= End(g) /\ Stored(g)
      BY <1>1, <2>1 DEF CpuInv, GoodStack, Descending, AllStored
    <3>2. g \in FrameTypes /\ End(g) \in Int
      BY <1>1, <2>1, EndBelow
    <3>3. \A a \in 0 .. BottomOfStack : a > End(g) => a > sp
      BY <1>1, <3>1, <3>2, Sizes
    <3> QED
      BY <3>1, <3>3, StoredStays
  <2>2. /\ Len(frames') = Len(frames) + 1
        /\ \A i \in 1 .. Len(frames) : frames'[i] = frames[i]
        /\ frames'[Len(frames) + 1] = f
    BY <1>1
  <2> QED
    BY <1>1, <2>1, <2>2, SMTT(20) DEF AllStored, Stored, LoadWord
<1>6. bp' \in 0 .. BottomOfStack
  <2>1. CASE f.kind = "enter"
    <3>1. End(f) = f.at - 4 - f.locals /\ 0 <= End(f) /\ f.locals \in Nat
      BY <1>1, <2>1, Ends, EndBelow DEF GoodFrame
    <3> QED
      BY <1>1, <2>1, <3>1, Sizes
  <2> QED
    BY <1>1, <2>1
<1>7. TypeOK'
  BY <1>2, <1>6 DEF TypeOK, RegistersTypeOK, RestOK, StackBytes, GoodStack
<1> QED
  BY <1>2, <1>3, <1>4, <1>5, <1>7 DEF CpuInv

\* One that leaves n frames.
LEMMA PopKeeps ==
  ASSUME CpuInv, RestOK', NEW n \in 0 .. Len(frames) - 1,
         frames' = SubSeq(frames, 1, n), sp' = frames[n + 1].at, ram' = ram,
         bp' = PointerIn(frames, n + 1), bp' \in 0 .. BottomOfStack,
         \/ int_flag' = int_flag
         \/ /\ n + 1 = Len(frames) /\ int_flag' = frames[n + 1].flag
            /\ frames[n + 1].kind \in {"flags", "int", "hardware"}
  PROVE  CpuInv'
<1>1. frames \in Seq(FrameTypes) /\ Len(frames) \in Nat /\ GoodStack(frames, sp)
  BY TypeParts DEF CpuInv
<1>2. GoodStack(frames', sp')
  BY <1>1, PopGood
<1>3. Chain(frames', bp')
  BY <1>1, PopChain DEF CpuInv
<1>4. Masked(frames', int_flag')
  BY <1>1, PopMasked DEF CpuInv
<1>5. AllStored'
  <2>1. Len(frames') = n /\ \A i \in 1 .. n : frames'[i] = frames[i] /\ i \in 1 .. Len(frames)
    BY <1>1
  <2> QED
    BY <2>1 DEF CpuInv, AllStored, Stored, LoadWord
<1>6. TypeOK'
  BY <1>2 DEF TypeOK, RegistersTypeOK, RestOK, StackBytes, GoodStack
<1> QED
  BY <1>2, <1>3, <1>4, <1>5, <1>6 DEF CpuInv

\* STI and CLI.
LEMMA SetFlagKeeps ==
  ASSUME CpuInv, RestOK', NEW value \in {0, 1}, int_flag' = value,
         Convention!EnableFrames(value), UNCHANGED <<sp, bp, ram>>
  PROVE  CpuInv'
<1>1. /\ frames \in Seq(FrameTypes) /\ Len(frames) \in Nat /\ GoodStack(frames, sp)
      /\ DOMAIN frames = 1 .. Len(frames)
  BY TypeParts DEF CpuInv
<1>2. \A i \in 1 .. Len(frames) :
         frames'[i] = [frames[i] EXCEPT !.sti = @ \/ (value = 1 /\ frames[i].kind = "hardware")]
  BY <1>1 DEF Convention!EnableFrames
<1>3. \A i \in 1 .. Len(frames) : frames[i] \in FrameTypes
  BY <1>1
<1>4. \A i \in 1 .. Len(frames) :
         /\ frames'[i] \in FrameTypes
         /\ frames'[i].kind = frames[i].kind /\ frames'[i].at = frames[i].at
         /\ frames'[i].val = frames[i].val /\ frames'[i].flag = frames[i].flag
         /\ frames'[i].bp = frames[i].bp /\ frames'[i].params = frames[i].params
         /\ frames'[i].locals = frames[i].locals
         /\ frames'[i].sti = (frames[i].sti \/ (value = 1 /\ frames[i].kind = "hardware"))
  BY <1>2, <1>3, ZenonT(30) DEF FrameTypes
<1>5. frames' \in Seq(FrameTypes) /\ Len(frames') = Len(frames)
  <2>1. DOMAIN frames' = 1 .. Len(frames)
    BY <1>1 DEF Convention!EnableFrames
  <2>2. frames' = [i \in 1 .. Len(frames) |-> frames'[i]]
    BY <1>1, <2>1 DEF Convention!EnableFrames
  <2>3. frames' \in [1 .. Len(frames) -> FrameTypes]
    BY <1>4, <2>2
  <2> QED
    BY <1>1, <2>3
<1>6. \A i \in 1 .. Len(frames) : End(frames'[i]) = End(frames[i])
  BY <1>4 DEF End
<1>7. GoodStack(frames', sp')
  <2>1. \A i \in 1 .. Len(frames) : GoodFrame(frames'[i])
    BY <1>1, <1>4, <1>6 DEF GoodStack, GoodFrame
  <2>2. Layout(frames', sp')
    BY <1>1, <1>4, <1>5, <1>6 DEF GoodStack, Layout
  <2>3. Descending(frames', sp')
    BY <1>1, <1>4, <1>5, <1>6 DEF GoodStack, Descending
  <2> QED
    BY <1>1, <1>5, <2>1, <2>2, <2>3 DEF GoodStack
<1>8. Chain(frames', bp')
  BY <1>1, <1>4, <1>5, SameChain DEF CpuInv
<1>9. Masked(frames', int_flag')
  <2> SUFFICES ASSUME NEW i \in 1 .. Len(frames), frames'[i].kind = "hardware", ~frames'[i].sti
               PROVE  /\ int_flag' = 0
                      /\ \A j \in i + 1 .. Len(frames) :
                            /\ frames'[j].kind # "hardware"
                            /\ frames'[j].kind \in {"flags", "int"} => frames'[j].flag = 0
    BY <1>5 DEF Masked
  <2>1. frames[i].kind = "hardware" /\ ~frames[i].sti /\ value = 0
    BY <1>4
  <2>2. \A j \in i + 1 .. Len(frames) :
           /\ frames[j].kind # "hardware"
           /\ frames[j].kind \in {"flags", "int"} => frames[j].flag = 0
    BY <2>1 DEF CpuInv, Masked
  <2>3. \A j \in i + 1 .. Len(frames) : j \in 1 .. Len(frames)
    BY <1>1
  <2> QED
    BY <1>4, <2>1, <2>2, <2>3
<1>10. AllStored'
  BY <1>4, <1>5 DEF CpuInv, AllStored, Stored, LoadWord
<1>11. TypeOK'
  BY <1>5 DEF CpuInv, TypeOK, RegistersTypeOK, RestOK, StackBytes
<1> QED
  BY <1>7, <1>8, <1>9, <1>10, <1>11 DEF CpuInv
-----------------------------------------------------------------------------
(* What the steps of the CPU find *)

LEMMA FollowingWords ==
  ASSUME ip \in Code, ip \in Words
  PROVE  Following \subseteq Words
<1>1. /\ ip \in Nat /\ ip + MaxLength \in Words /\ MaxLength \in Nat
      /\ ByteSize * ByteSize \in Int
  BY CpuAssumption, Sizes DEF Words
<1>2. ASSUME NEW length \in 1 .. MaxLength PROVE ip + length \in Words
  BY <1>1 DEF Words
<1> QED
  BY <1>2 DEF Following

\* Frames as PushFrame gets them.
FrameOf(kind, at, val, flag, pointer, params, locals) ==
  [kind |-> kind, at |-> at, val |-> val, flag |-> flag, bp |-> pointer,
   params |-> params, locals |-> locals, sti |-> FALSE]

LEMMA FrameIs ==
  ASSUME NEW kind \in Convention!Kinds, NEW at \in 0 .. BottomOfStack, NEW val \in Words,
         NEW flag \in {0, 1}, NEW pointer \in 0 .. BottomOfStack,
         NEW params \in Bytes, NEW locals \in Bytes
  PROVE  FrameOf(kind, at, val, flag, pointer, params, locals) \in FrameTypes
<1>1. pointer \in Words
  BY Sizes
<1> QED
  BY <1>1 DEF FrameTypes, FrameOf

LEMMA FrameFields ==
  ASSUME NEW kind, NEW at, NEW val, NEW flag, NEW pointer, NEW params, NEW locals,
         NEW f, f = FrameOf(kind, at, val, flag, pointer, params, locals)
  PROVE  /\ f.kind = kind /\ f.at = at /\ f.val = val /\ f.flag = flag /\ f.bp = pointer
         /\ f.params = params /\ f.locals = locals
  BY DEF FrameOf

LEMMA PlainFrame ==
  ASSUME NEW kind, NEW at, NEW val
  PROVE  Convention!Frame(kind, at, val) = FrameOf(kind, at, val, 0, 0, 0, 0)
  BY DEF Convention!Frame, FrameOf

LEMMA FlagFrame ==
  ASSUME NEW kind, NEW at, NEW val, NEW flag, NEW f,
         f = [Convention!Frame(kind, at, val) EXCEPT !.flag = flag]
  PROVE  f = FrameOf(kind, at, val, flag, 0, 0, 0)
  BY DEF Convention!Frame, FrameOf

LEMMA EnterFrameIs ==
  ASSUME NEW at, NEW pointer, NEW params, NEW locals, NEW f,
         f = [Convention!Frame("enter", at, 0) EXCEPT
                  !.bp = pointer, !.params = params, !.locals = locals]
  PROVE  f = FrameOf("enter", at, 0, 0, pointer, params, locals)
  BY DEF Convention!Frame, FrameOf

\* What a pop finds at SP.
LEMMA TopFacts ==
  ASSUME CpuInv, frames # <<>>
  PROVE  /\ Len(frames) - 1 \in 0 .. Len(frames) - 1
         /\ Convention!Top \in FrameTypes /\ Convention!Top = frames[Len(frames)]
         /\ Convention!Top.kind = "byte" => Convention!Top.at = sp + 1
         /\ Convention!Top.kind \in {"word", "flags", "call"} =>
                Convention!Top.at = sp + 2 /\ sp + 1 \in 0 .. BottomOfStack - 1
         /\ Convention!Top.kind = "flags" => LoadWord(sp + 1) % 2 = Convention!Top.flag
         /\ Convention!Top.kind = "call" => LoadWord(sp + 1) = Convention!Top.val
         /\ Convention!Top.kind \in {"int", "hardware"} =>
                /\ Convention!Top.at = sp + 4
                /\ LoadWord(sp + 1) = Convention!Top.val
                /\ LoadWord(sp + 3) % 2 = Convention!Top.flag
         /\ Convention!Top.kind # "enter" => bp = PointerIn(frames, Len(frames))
<1> DEFINE n == Len(frames)
<1>1. /\ frames \in Seq(FrameTypes) /\ n \in Nat /\ n >= 1 /\ n \in 1 .. n
      /\ sp \in 0 .. BottomOfStack
  BY TypeParts DEF CpuInv
<1>2. PICK f : f = frames[n]
  OBVIOUS
<1>3. f \in FrameTypes /\ Stored(f) /\ sp = End(f) /\ bp = PointerIn(frames, n + 1)
  BY <1>1, <1>2 DEF CpuInv, AllStored, GoodStack, Layout, Chain
<1>4. f.at \in 0 .. BottomOfStack /\ f.locals \in Nat
  BY <1>3, EndBelow
<1>5. f.flag \in {0, 1} /\ 0 % 2 = 0 /\ 1 % 2 = 1
  BY <1>3 DEF FrameTypes
<1>6. f.kind = "byte" => f.at = sp + 1
  BY <1>1, <1>3, <1>4, Ends, Sizes
<1>7. ASSUME f.kind # "enter" PROVE bp = PointerIn(frames, n)
  <2>1. \A k \in n .. (n + 1) - 1 : frames[k].kind # "enter"
    BY <1>1, <1>2, <1>7
  <2> QED
    BY <1>1, <1>3, <2>1, EnterSkip
<1>8. ASSUME f.kind \in {"word", "flags", "call"}
      PROVE  /\ f.at = sp + 2 /\ sp + 1 \in 0 .. BottomOfStack - 1
             /\ f.kind = "flags" => LoadWord(sp + 1) % 2 = f.flag
             /\ f.kind = "call" => LoadWord(sp + 1) = f.val
  <2>1. f.at = sp + 2 /\ f.at - 1 = sp + 1
    BY <1>1, <1>3, <1>4, <1>8, Ends, Sizes
  <2>2. /\ f.kind = "flags" => LoadWord(f.at - 1) = f.flag
        /\ f.kind = "call" => LoadWord(f.at - 1) = f.val
    BY <1>3 DEF Stored
  <2> QED
    BY <1>1, <1>4, <1>5, <2>1, <2>2, Sizes
<1>9. ASSUME f.kind \in {"int", "hardware"}
      PROVE  f.at = sp + 4 /\ LoadWord(sp + 1) = f.val /\ LoadWord(sp + 3) % 2 = f.flag
  <2>1. f.at = sp + 4 /\ f.at - 1 = sp + 3 /\ f.at - 3 = sp + 1
    BY <1>1, <1>3, <1>4, <1>9, Ends, Sizes
  <2>2. LoadWord(f.at - 1) = f.flag /\ LoadWord(f.at - 3) = f.val
    BY <1>3, <1>9 DEF Stored
  <2> QED
    BY <1>5, <2>1, <2>2
<1>10. Convention!Top = f
  BY <1>2 DEF Convention!Top
<1> QED
  BY <1>1, <1>2, <1>3, <1>6, <1>7, <1>8, <1>9, <1>10

\* What LVRET finds behind BP.
LEMMA LeaveFacts ==
  ASSUME CpuInv, NEW e \in 1 .. Len(frames), NEW j \in 1 .. Len(frames), Convention!Leaves(e, j)
  PROVE  /\ LoadWord(bp + 1) = frames[e].bp /\ frames[e].bp = PointerIn(frames, j)
         /\ LoadWord(bp + 5) = frames[e - 1].val
         /\ bp + 6 + ram[bp + 4] = frames[j].at
         /\ frames[e] \in FrameTypes /\ frames[e - 1] \in FrameTypes
         /\ frames[e].bp <= BottomOfStack
<1> DEFINE n == Len(frames)
<1>1. frames \in Seq(FrameTypes) /\ n \in Nat
  BY TypeParts DEF CpuInv
<1>2. /\ e \in Nat /\ j \in Nat /\ e - 1 \in 1 .. n /\ e # 1 /\ j <= e - 1
      /\ frames[e].kind = "enter" /\ frames[e - 1].kind = "call"
      /\ \A i \in e + 1 .. n : frames[i].kind # "enter"
      /\ \A i \in j .. e - 2 : frames[i].kind # "enter"
      /\ frames[j].at = frames[e - 1].at + frames[e].params
  BY <1>1 DEF Convention!Leaves, Convention!Pushed
<1>3. PICK f : f = frames[e]
  OBVIOUS
<1>4. PICK c : c = frames[e - 1]
  OBVIOUS
<1>5. /\ f \in FrameTypes /\ c \in FrameTypes /\ f.kind = "enter" /\ c.kind = "call"
      /\ Stored(f) /\ Stored(c)
      /\ f.at = End(c)
      /\ f.bp <= BottomOfStack
      /\ f.bp = PointerIn(frames, e)
      /\ bp = PointerIn(frames, n + 1)
  BY <1>1, <1>2, <1>3, <1>4 DEF CpuInv, AllStored, GoodStack, GoodFrame, Layout, Chain
<1>6. f.at \in Nat /\ c.at \in Nat /\ f.params \in Nat
  BY <1>5, Sizes DEF FrameTypes, Bytes
<1>7. bp = f.at - 4
  <2>1. \A k \in e + 1 .. (n + 1) - 1 : frames[k].kind # "enter"
    BY <1>1, <1>2
  <2>2. PointerIn(frames, n + 1) = PointerIn(frames, e + 1)
    BY <1>1, <1>2, <2>1, EnterSkip
  <2> QED
    BY <1>2, <1>3, <1>5, <2>2, EnterFound
<1>8. PointerIn(frames, e) = PointerIn(frames, j)
  <2>1. \A k \in j .. e - 1 : frames[k].kind # "enter"
    <3> TAKE k \in j .. e - 1
    <3>1. k = e - 1 \/ k \in j .. e - 2
      BY <1>2
    <3> QED
      BY <1>2, <3>1
  <2> QED
    BY <1>2, <2>1, EnterSkip
<1>9. f.at = c.at - 2
  BY <1>5, Ends
<1>10. ram[f.at] = f.params /\ LoadWord(f.at - 3) = f.bp /\ LoadWord(c.at - 1) = c.val
  BY <1>5 DEF Stored
<1>11. bp + 1 = f.at - 3 /\ bp + 4 = f.at /\ bp + 5 = c.at - 1 /\ bp + 6 = c.at
  BY <1>6, <1>7, <1>9, SMTT(20)
<1>12. frames[j].at = c.at + f.params
  BY <1>2, <1>3, <1>4
<1> HIDE DEF n
<1> QED
  BY <1>3, <1>4, <1>5, <1>8, <1>10, <1>11, <1>12

-----------------------------------------------------------------------------
(* Each step keeps the invariant *)

LEMMA Known ==
  ASSUME CpuInv
  PROVE  /\ RestOK /\ sp \in 0 .. BottomOfStack /\ bp \in 0 .. BottomOfStack
         /\ frames \in Seq(FrameTypes) /\ Len(frames) \in Nat
  BY TypeParts DEF CpuInv

\* An instruction that goes on, with a new stack and flag.
LEMMA GoOnKeeps ==
  ASSUME CpuInv, Executing, Keep, ip' \in Following \/ ip' \in Words,
         ram' \in StackBytes, int_flag' \in {0, 1}
  PROVE  RestOK' /\ ip' \in Words
<1>1. RestOK
  BY Known
<1>2. Following \subseteq Words
  BY <1>1, FollowingWords DEF Executing, RestOK
<1> QED
  BY <1>1, <1>2 DEF RestOK, Keep

LEMMA FailKeeps ==
  ASSUME CpuInv, Fail
  PROVE  CpuInv'
<1>1. RestOK'
  BY Known DEF Fail, registers, RestOK
<1> QED
  BY <1>1, QuietKeeps DEF Fail, registers

LEMMA OtherInstructionKeeps ==
  ASSUME CpuInv, OtherInstruction \/ SetInt \/ Hlt \/ Shutdown
  PROVE  CpuInv'
<1>1. RestOK /\ Targets \subseteq Words
  BY Known, CpuAssumption
<1>2. Following \subseteq Words
  BY <1>1, FollowingWords
     DEF Executing, RestOK, OtherInstruction, SetInt, Hlt, Shutdown
<1>3. RestOK'
  <2>1. CASE OtherInstruction
    BY <1>1, <1>2, <2>1 DEF OtherInstruction, Keep, RestOK
  <2>2. CASE SetInt
    BY <1>1, <1>2, <2>2 DEF SetInt, RestOK
  <2>3. CASE Hlt
    BY <1>1, <1>2, <2>3 DEF Hlt, RestOK
  <2>4. CASE Shutdown
    BY <1>1, <1>2, <2>4 DEF Shutdown, RestOK
  <2> QED
    BY <2>1, <2>2, <2>3, <2>4
<1> QED
  BY <1>3, QuietKeeps DEF OtherInstruction, SetInt, Hlt, Shutdown

LEMMA PushByteKeeps ==
  ASSUME CpuInv, PushByte
  PROVE  CpuInv'
<1>1. PICK value \in PushedBytes :
        /\ Pushing
        /\ \/ /\ ~Room(1) /\ Fail
           \/ /\ Room(1)
              /\ ram' = StoreByte(ram, sp, value) /\ sp' = sp - 1
              /\ Convention!PushFrame(Convention!Frame("byte", sp, value))
              /\ GoOn /\ UNCHANGED <<bp, int_flag>>
  BY DEF PushByte
<1>2. CASE Fail
  BY <1>2, FailKeeps
<1>3. CASE ~Fail
  <2>1. PICK f : f = FrameOf("byte", sp, value, 0, 0, 0, 0)
    OBVIOUS
  <2>2. /\ value \in Bytes /\ value \in Words /\ sp \in 0 .. BottomOfStack
        /\ bp \in 0 .. BottomOfStack /\ sp >= 1 /\ RestOK /\ 0 \in Bytes
    BY <1>1, <1>3, Known, CpuAssumption, Sizes DEF Room
  <2>3. f \in FrameTypes /\ f.kind = "byte" /\ f.at = sp /\ f.val = value /\ f.bp = 0
    <3>1. "byte" \in Convention!Kinds /\ 0 \in 0 .. BottomOfStack
      BY Sizes DEF Convention!Kinds
    <3> QED
      BY <2>1, <2>2, <3>1, FrameIs, FrameFields
  <2>4. End(f) = sp - 1 /\ GoodFrame(f)
    BY <2>2, <2>3, Ends, Sizes DEF GoodFrame
  <2>5. /\ ram' \in StackBytes /\ ram'[sp] = value
        /\ \A a \in 0 .. BottomOfStack : a > sp => ram'[a] = ram[a]
    <3>1. ram \in StackBytes /\ ram' = [ram EXCEPT ![sp] = value]
      BY <1>1, <1>3, <2>2 DEF StoreByte, RestOK
    <3> QED
      BY <2>2, <3>1 DEF StackBytes
  <2>6. Stored(f)'
    BY <2>3, <2>5 DEF Stored
  <2>7. RestOK'
    BY <1>1, <1>3, <2>2, <2>5, GoOnKeeps DEF Pushing, GoOn, RestOK
  <2>8. frames' = Append(frames, f) /\ sp' = End(f) /\ bp' = bp /\ int_flag' = int_flag
    BY <1>1, <1>3, <2>1, <2>4, PlainFrame DEF Convention!PushFrame
  <2> QED
    BY <2>3, <2>4, <2>5, <2>6, <2>7, <2>8, PushKeeps
<1> QED
  BY <1>2, <1>3

\* What a step that pushes one word does to the RAM.
LEMMA WordPushed ==
  ASSUME CpuInv, Room(2), NEW word \in Words, ram' = StoreWord(ram, sp - 1, word)
  PROVE  /\ ram' \in StackBytes
         /\ ram'[sp - 1] * ByteSize + ram'[sp - 1 + 1] = word
         /\ \A a \in 0 .. BottomOfStack : a > sp => ram'[a] = ram[a]
<1>1. sp \in 0 .. BottomOfStack /\ ram \in StackBytes /\ sp - 1 \in 0 .. BottomOfStack - 1
  BY Known, Sizes DEF Room, RestOK
<1>2. \A a \in 0 .. BottomOfStack : a > sp => a \notin {sp - 1, sp - 1 + 1}
  BY <1>1
<1> QED
  BY <1>1, <1>2, StoreLoad

\* A frame of one word.
LEMMA WordFrameKeeps ==
  ASSUME CpuInv, RestOK', Room(2),
         NEW kind \in {"word", "flags", "call"}, NEW val \in Words, NEW flag \in {0, 1},
         NEW word \in Words,
         kind = "flags" => word = flag /\ flag = int_flag,
         kind # "flags" => word = val,
         frames' = Append(frames, FrameOf(kind, sp, val, flag, 0, 0, 0)),
         ram' = StoreWord(ram, sp - 1, word), sp' = sp - 2, UNCHANGED <<bp, int_flag>>
  PROVE  CpuInv'
<1>1. PICK f : f = FrameOf(kind, sp, val, flag, 0, 0, 0)
  OBVIOUS
<1>2. sp \in 0 .. BottomOfStack /\ sp >= 2
  BY Known DEF Room
<1>3. f \in FrameTypes /\ f.kind = kind /\ f.at = sp /\ f.val = val /\ f.flag = flag /\ f.bp = 0
  <2>1. kind \in Convention!Kinds /\ 0 \in 0 .. BottomOfStack /\ 0 \in Bytes
    BY Sizes DEF Convention!Kinds
  <2> QED
    BY <1>1, <1>2, <2>1, FrameIs, FrameFields
<1>4. End(f) = sp - 2 /\ GoodFrame(f)
  BY <1>2, <1>3, Ends, Sizes DEF GoodFrame
<1>5. /\ ram'[sp - 1] * ByteSize + ram'[sp - 1 + 1] = word
      /\ \A a \in 0 .. BottomOfStack : a > sp => ram'[a] = ram[a]
  BY WordPushed
<1>6. Stored(f)'
  BY <1>3, <1>5 DEF Stored, LoadWord
<1>7. frames' = Append(frames, f) /\ sp' = End(f)
  BY <1>1, <1>4
<1> QED
  BY <1>3, <1>4, <1>5, <1>6, <1>7, PushKeeps

LEMMA PushWordKeeps ==
  ASSUME CpuInv, PushWord
  PROVE  CpuInv'
<1>1. PICK value \in PushedWords :
        /\ Pushing
        /\ \/ /\ ~Room(2) /\ Fail
           \/ /\ Room(2)
              /\ ram' = StoreWord(ram, sp - 1, value) /\ sp' = sp - 2
              /\ Convention!PushFrame(Convention!Frame("word", sp, value))
              /\ GoOn /\ UNCHANGED <<bp, int_flag>>
  BY DEF PushWord
<1>2. CASE Fail
  BY <1>2, FailKeeps
<1>3. CASE ~Fail
  <2>1. value \in Words /\ RestOK
    BY Known, CpuAssumption
  <2>2. ram' \in StackBytes
    BY <1>1, <1>3, <2>1, WordPushed
  <2>3. RestOK'
    BY <1>1, <1>3, <2>1, <2>2, GoOnKeeps DEF Pushing, GoOn, RestOK
  <2>4. frames' = Append(frames, FrameOf("word", sp, value, 0, 0, 0, 0))
    BY <1>1, <1>3, PlainFrame DEF Convention!PushFrame
  <2> QED
    BY <1>1, <1>3, <2>1, <2>3, <2>4, WordFrameKeeps
<1> QED
  BY <1>2, <1>3

LEMMA PushFKeeps ==
  ASSUME CpuInv, PushF
  PROVE  CpuInv'
<1>1. CASE Fail
  BY <1>1, FailKeeps
<1>2. CASE ~Fail
  <2>1. /\ Pushing /\ Room(2) /\ ram' = StoreWord(ram, sp - 1, int_flag) /\ sp' = sp - 2
        /\ GoOn /\ UNCHANGED <<bp, int_flag>>
    BY <1>2 DEF PushF
  <2>2. PICK f : /\ f = [Convention!Frame("flags", sp, 0) EXCEPT !.flag = int_flag]
                 /\ frames' = Append(frames, f)
    BY <1>2 DEF PushF, Convention!PushFrame
  <2>3. frames' = Append(frames, FrameOf("flags", sp, 0, int_flag, 0, 0, 0))
    BY <2>2, FlagFrame
  <2>4. RestOK /\ int_flag \in {0, 1} /\ int_flag \in Words /\ 0 \in Words
    BY Known, Sizes DEF RestOK
  <2>5. ram' \in StackBytes
    BY <2>1, <2>4, WordPushed
  <2>6. RestOK'
    BY <2>1, <2>4, <2>5, GoOnKeeps DEF Pushing, GoOn, RestOK
  <2> QED
    BY <2>1, <2>3, <2>4, <2>6, WordFrameKeeps
<1> QED
  BY <1>1, <1>2

LEMMA CallKeeps ==
  ASSUME CpuInv, Call
  PROVE  CpuInv'
<1>1. PICK target \in Targets, next \in Following :
        /\ Executing
        /\ \/ /\ ~Room(2) /\ Fail
           \/ /\ Room(2)
              /\ ram' = StoreWord(ram, sp - 1, next) /\ sp' = sp - 2
              /\ Convention!PushFrame(Convention!Frame("call", sp, next))
              /\ ip' = target /\ Keep /\ UNCHANGED <<bp, int_flag>>
  BY DEF Call
<1>2. CASE Fail
  BY <1>2, FailKeeps
<1>3. CASE ~Fail
  <2>1. RestOK /\ target \in Words
    BY Known, CpuAssumption
  <2>2. next \in Words
    BY <1>1, <2>1, FollowingWords DEF Executing, RestOK
  <2>3. ram' \in StackBytes
    BY <1>1, <1>3, <2>2, WordPushed
  <2>4. RestOK'
    BY <1>1, <1>3, <2>1, <2>3, GoOnKeeps DEF RestOK
  <2>5. frames' = Append(frames, FrameOf("call", sp, next, 0, 0, 0, 0))
    BY <1>1, <1>3, PlainFrame DEF Convention!PushFrame
  <2> QED
    BY <1>1, <1>3, <2>2, <2>4, <2>5, WordFrameKeeps
<1> QED
  BY <1>2, <1>3

\* What an interrupt does to the RAM.
LEMMA TwoWordsPushed ==
  ASSUME CpuInv, Room(4), NEW first \in Words, NEW second \in Words,
         ram' = StoreTwoWords(first, second)
  PROVE  /\ ram' \in StackBytes
         /\ ram'[sp - 1] * ByteSize + ram'[sp - 1 + 1] = first
         /\ ram'[sp - 3] * ByteSize + ram'[sp - 3 + 1] = second
         /\ \A a \in 0 .. BottomOfStack : a > sp => ram'[a] = ram[a]
<1>1. /\ sp \in Int /\ ram \in StackBytes /\ sp <= BottomOfStack /\ sp >= 4
      /\ sp - 1 \in 0 .. BottomOfStack - 1 /\ sp - 3 \in 0 .. BottomOfStack - 1
      /\ sp - 1 + 1 \in 0 .. BottomOfStack /\ sp - 1 \in 0 .. BottomOfStack
  BY Known, Sizes, SMTT(20) DEF Room, RestOK
<1>2. PICK middle : middle = StoreWord(ram, sp - 1, first)
  OBVIOUS
<1>3. /\ middle \in StackBytes
      /\ middle[sp - 1] * ByteSize + middle[sp - 1 + 1] = first
      /\ \A a \in 0 .. BottomOfStack : a \notin {sp - 1, sp - 1 + 1} => middle[a] = ram[a]
  BY <1>1, <1>2, StoreLoad
<1>4. /\ ram' \in StackBytes
      /\ ram'[sp - 3] * ByteSize + ram'[sp - 3 + 1] = second
      /\ \A a \in 0 .. BottomOfStack : a \notin {sp - 3, sp - 3 + 1} => ram'[a] = middle[a]
  BY <1>1, <1>2, <1>3, StoreLoad DEF StoreTwoWords
<1>5. ram'[sp - 1] = middle[sp - 1] /\ ram'[sp - 1 + 1] = middle[sp - 1 + 1]
  BY <1>1, <1>4
<1>6. \A a \in 0 .. BottomOfStack : a > sp =>
         a \notin {sp - 1, sp - 1 + 1} /\ a \notin {sp - 3, sp - 3 + 1}
  BY <1>1
<1> QED
  BY <1>3, <1>4, <1>5, <1>6

\* The frame of an interrupt.
LEMMA InterruptFrameKeeps ==
  ASSUME CpuInv, RestOK', Room(4),
         NEW kind \in {"int", "hardware"}, NEW val \in Words,
         kind = "hardware" => int_flag = 1 /\ int_flag' = 0,
         kind = "int" => int_flag' = int_flag,
         frames' = Append(frames, FrameOf(kind, sp, val, int_flag, 0, 0, 0)),
         ram' = StoreTwoWords(int_flag, val), sp' = sp - 4, bp' = bp
  PROVE  CpuInv'
<1>1. PICK f : f = FrameOf(kind, sp, val, int_flag, 0, 0, 0)
  OBVIOUS
<1>2. sp \in 0 .. BottomOfStack /\ sp >= 4 /\ int_flag \in {0, 1} /\ int_flag \in Words
  BY Known, Sizes DEF Room, RestOK
<1>3. /\ f \in FrameTypes /\ f.kind = kind /\ f.at = sp /\ f.val = val
      /\ f.flag = int_flag /\ f.bp = 0
  <2>1. kind \in Convention!Kinds /\ 0 \in 0 .. BottomOfStack /\ 0 \in Bytes
    BY Sizes DEF Convention!Kinds
  <2> QED
    BY <1>1, <1>2, <2>1, FrameIs, FrameFields
<1>4. End(f) = sp - 4 /\ GoodFrame(f)
  BY <1>2, <1>3, Ends, Sizes DEF GoodFrame
<1>5. /\ ram'[sp - 1] * ByteSize + ram'[sp - 1 + 1] = int_flag
      /\ ram'[sp - 3] * ByteSize + ram'[sp - 3 + 1] = val
      /\ \A a \in 0 .. BottomOfStack : a > sp => ram'[a] = ram[a]
  BY <1>2, TwoWordsPushed
<1>6. Stored(f)'
  BY <1>3, <1>5 DEF Stored, LoadWord
<1>7. frames' = Append(frames, f) /\ sp' = End(f)
  BY <1>1, <1>4
<1> QED
  BY <1>3, <1>4, <1>5, <1>6, <1>7, PushKeeps

LEMMA SoftwareInterruptKeeps ==
  ASSUME CpuInv, SoftwareInterrupt
  PROVE  CpuInv'
<1>1. PICK n \in InterruptNumbers, next \in Following :
        /\ Executing
        /\ \/ /\ ~Room(4) /\ Fail
           \/ /\ Room(4)
              /\ ram' = StoreTwoWords(int_flag, next) /\ sp' = sp - 4
              /\ Convention!PushFrame([Convention!Frame("int", sp, next) EXCEPT !.flag = int_flag])
              /\ ip' = ivt[n] /\ Keep /\ UNCHANGED <<bp, int_flag>>
  BY DEF SoftwareInterrupt
<1>2. CASE Fail
  BY <1>2, FailKeeps
<1>3. CASE ~Fail
  <2>1. /\ Executing /\ Room(4) /\ ram' = StoreTwoWords(int_flag, next) /\ sp' = sp - 4
        /\ ip' = ivt[n] /\ Keep /\ UNCHANGED <<bp, int_flag>>
    BY <1>1, <1>3
  <2>2. PICK f : /\ f = [Convention!Frame("int", sp, next) EXCEPT !.flag = int_flag]
                 /\ frames' = Append(frames, f)
    BY <1>1, <1>3 DEF Convention!PushFrame
  <2>3. frames' = Append(frames, FrameOf("int", sp, next, int_flag, 0, 0, 0))
    BY <2>2, FlagFrame
  <2>4. RestOK /\ int_flag \in {0, 1} /\ int_flag \in Words /\ ivt[n] \in Words
    BY Known, Sizes, CpuAssumption DEF RestOK
  <2>5. next \in Words
    BY <2>1, <2>4, FollowingWords DEF Executing, RestOK
  <2>6. ram' \in StackBytes
    BY <2>1, <2>4, <2>5, TwoWordsPushed
  <2>7. RestOK'
    BY <2>1, <2>4, <2>6, GoOnKeeps
  <2> QED
    BY <2>1, <2>3, <2>5, <2>7, InterruptFrameKeeps
<1> QED
  BY <1>1, <1>2, <1>3

LEMMA HardwareInterruptKeeps ==
  ASSUME CpuInv, HardwareInterrupt
  PROVE  CpuInv'
<1>1. CASE Fail
  BY <1>1, FailKeeps
<1>2. CASE ~Fail
  <2>1. /\ Interrupted /\ Room(4) /\ Check /\ halt' = FALSE /\ int_flag' = 0
        /\ ram' = StoreTwoWords(int_flag, ip) /\ sp' = sp - 4
        /\ ip' = ivt[Head(interrupt_queue)] /\ UNCHANGED <<bp, ivt, power>>
    BY <1>2 DEF HardwareInterrupt
  <2>2. PICK f : /\ f = [Convention!Frame("hardware", sp, ip) EXCEPT !.flag = 1]
                 /\ frames' = Append(frames, f)
    BY <1>2 DEF HardwareInterrupt, Convention!PushFrame
  <2>3. frames' = Append(frames, FrameOf("hardware", sp, ip, 1, 0, 0, 0))
    BY <2>2, FlagFrame
  <2>4. RestOK /\ int_flag = 1 /\ int_flag \in Words /\ ip \in Words
    BY <2>1, Known, Sizes DEF RestOK, Interrupted
  <2>5. ram' \in StackBytes
    BY <2>1, <2>4, TwoWordsPushed
  <2>6. ip' \in Words /\ interrupt_queue' \in Seq(InterruptNumbers)
    <3>1. /\ interrupt_queue \in Seq(InterruptNumbers) /\ interrupt_queue # <<>>
          /\ interrupt_queue' = Tail(interrupt_queue)
      BY <2>1, <2>4 DEF Check, RestOK
    <3>2. /\ Head(interrupt_queue) \in InterruptNumbers
          /\ Tail(interrupt_queue) \in Seq(InterruptNumbers)
      BY <3>1
    <3> QED
      BY <2>1, <2>4, <3>1, <3>2, CpuAssumption DEF RestOK
  <2>7. RestOK'
    BY <2>1, <2>4, <2>5, <2>6 DEF RestOK
  <2> QED
    BY <2>1, <2>3, <2>4, <2>7, InterruptFrameKeeps
<1> QED
  BY <1>1, <1>2

LEMMA EnterKeeps ==
  ASSUME CpuInv, Enter
  PROVE  CpuInv'
<1>1. PICK params \in Counts, locals \in Counts :
        /\ Executing
        /\ Convention!TopIs({"call"})
        /\ \/ /\ ~Room(4 + locals) /\ Fail
           \/ /\ Room(4 + locals)
              /\ ram' = EnterFrame(params, locals)
              /\ bp' = sp - 4 /\ sp' = sp - 4 - locals
              /\ Convention!PushFrame([Convention!Frame("enter", sp, 0) EXCEPT
                     !.bp = bp, !.params = params, !.locals = locals])
              /\ GoOn /\ UNCHANGED int_flag
  BY DEF Enter
<1>2. CASE Fail
  BY <1>2, FailKeeps
<1>3. CASE ~Fail
  <2>1. /\ Executing /\ Room(4 + locals) /\ ram' = EnterFrame(params, locals)
        /\ bp' = sp - 4 /\ sp' = sp - 4 - locals /\ GoOn /\ UNCHANGED int_flag
    BY <1>1, <1>3
  <2>2. PICK f : /\ f = [Convention!Frame("enter", sp, 0) EXCEPT
                             !.bp = bp, !.params = params, !.locals = locals]
                 /\ frames' = Append(frames, f)
    BY <1>1, <1>3 DEF Convention!PushFrame
  <2>3. f = FrameOf("enter", sp, 0, 0, bp, params, locals)
    BY <2>2, EnterFrameIs
  <2>4. frames' = Append(frames, f)
    BY <2>2
  <2>5. /\ RestOK /\ ram \in StackBytes /\ sp \in 0 .. BottomOfStack
        /\ bp \in 0 .. BottomOfStack /\ bp \in Words
        /\ params \in Bytes /\ locals \in Bytes /\ locals \in Nat
    BY Known, CpuAssumption, Sizes DEF RestOK
  <2>6. /\ f \in FrameTypes /\ f.kind = "enter" /\ f.at = sp /\ f.bp = bp
        /\ f.params = params /\ f.locals = locals
    <3>1. "enter" \in Convention!Kinds /\ 0 \in Words
      BY Sizes DEF Convention!Kinds
    <3> QED
      BY <2>3, <2>5, <3>1, FrameIs, FrameFields
  <2>7. /\ sp \in Nat /\ sp <= BottomOfStack /\ sp >= 4 + locals
        /\ sp - 1 \in 0 .. BottomOfStack /\ sp - 3 \in 0 .. BottomOfStack - 1
    BY <2>1, <2>5, Sizes DEF Room
  <2>8. End(f) = sp - 4 - locals /\ GoodFrame(f)
    BY <2>5, <2>6, <2>7, Ends, Sizes DEF GoodFrame
  <2>9. /\ ram' \in StackBytes /\ ram'[sp] = params /\ ram'[sp - 1] = locals
        /\ ram'[sp - 3] * ByteSize + ram'[sp - 3 + 1] = bp
        /\ \A a \in 0 .. BottomOfStack : a > sp => ram'[a] = ram[a]
    <3>1. PICK counts : counts = [[ram EXCEPT ![sp] = params] EXCEPT ![sp - 1] = locals]
      OBVIOUS
    <3>2. /\ counts \in StackBytes /\ counts[sp] = params /\ counts[sp - 1] = locals
          /\ \A a \in 0 .. BottomOfStack : a > sp => counts[a] = ram[a]
      BY <2>5, <2>7, <3>1 DEF StackBytes
    <3>3. ram' = StoreWord(counts, sp - 3, bp)
      BY <2>1, <3>1 DEF EnterFrame
    <3>4. /\ ram' \in StackBytes
          /\ ram'[sp - 3] * ByteSize + ram'[sp - 3 + 1] = bp
          /\ \A a \in 0 .. BottomOfStack : a \notin {sp - 3, sp - 3 + 1} => ram'[a] = counts[a]
      BY <2>5, <2>7, <3>2, <3>3, StoreLoad
    <3>5. \A a \in 0 .. BottomOfStack : a >= sp - 1 => a \notin {sp - 3, sp - 3 + 1}
      BY <2>7
    <3> QED
      BY <2>5, <2>7, <3>2, <3>4, <3>5
  <2>10. Stored(f)'
    BY <2>6, <2>9 DEF Stored, LoadWord
  <2>11. RestOK'
    BY <2>1, <2>5, <2>9, GoOnKeeps DEF GoOn, RestOK
  <2>12. sp' = End(f) /\ bp' = f.at - 4 /\ int_flag' = int_flag
    BY <2>1, <2>6, <2>8
  <2> QED
    BY <2>4, <2>6, <2>8, <2>9, <2>10, <2>11, <2>12, PushKeeps
<1> QED
  BY <1>1, <1>2, <1>3

LEMMA PopKeepsAll ==
  ASSUME CpuInv, Underflow \/ PopByte \/ PopWord \/ PopF \/ Ret \/ IRet
  PROVE  CpuInv'
<1>1. CASE Underflow
  BY <1>1, FailKeeps DEF Underflow
<1> DEFINE n == Len(frames) - 1
           top == frames[n + 1]
<1>2. CASE ~Underflow
  <2>1. /\ frames # <<>> /\ Executing
        /\ Convention!Top.kind \in {"byte", "word", "flags", "call", "int", "hardware"}
        /\ frames' = SubSeq(frames, 1, n) /\ Keep /\ UNCHANGED <<bp, ram>>
        /\ \/ ip' \in Following /\ Convention!Top.kind \in {"byte", "word", "flags"}
           \/ ip' = LoadWord(sp + 1) /\ Convention!Top.kind \in {"call", "int", "hardware"}
    BY <1>2 DEF PopByte, PopWord, PopF, Ret, IRet, GoOn, Convention!TopIs, Convention!PopFrame
  <2>2. RestOK /\ bp \in 0 .. BottomOfStack /\ n + 1 = Len(frames) /\ Len(frames) \in Nat
    BY Known
  <2>3. n \in 0 .. Len(frames) - 1 /\ Convention!Top = top /\ top \in FrameTypes
    BY <2>1, <2>2, TopFacts
  <2>4. top.val \in Words /\ top.flag \in {0, 1}
    BY <2>3 DEF FrameTypes
  <2>5. sp' = top.at
    BY <1>2, <2>1, <2>3, TopFacts
       DEF PopByte, PopWord, PopF, Ret, IRet, Convention!TopIs
  <2>6. \/ int_flag' = int_flag
        \/ int_flag' = top.flag /\ top.kind \in {"flags", "int", "hardware"}
    BY <1>2, <2>1, <2>3, TopFacts
       DEF PopByte, PopWord, PopF, Ret, IRet, Convention!TopIs
  <2>7. bp' = PointerIn(frames, n + 1)
    BY <2>1, <2>2, TopFacts
  <2>8. ip' \in Following \/ ip' \in Words
    BY <2>1, <2>3, <2>4, TopFacts
  <2>9. RestOK'
    BY <2>1, <2>2, <2>4, <2>6, <2>8, GoOnKeeps DEF RestOK
  <2> HIDE DEF n
  <2> QED
    BY <2>1, <2>2, <2>3, <2>5, <2>6, <2>7, <2>9, PopKeeps
<1> QED
  BY <1>1, <1>2

LEMMA LvRetKeeps ==
  ASSUME CpuInv, LvRet
  PROVE  CpuInv'
<1>1. PICK e \in 1 .. Len(frames), j \in 1 .. Len(frames) :
        /\ Executing /\ Convention!Leaves(e, j)
        /\ bp' = LoadWord(bp + 1) /\ ip' = LoadWord(bp + 5)
        /\ sp' = bp + 6 + ram[bp + 4]
        /\ frames' = SubSeq(frames, 1, j - 1)
        /\ Keep /\ UNCHANGED <<int_flag, ram>>
  BY DEF LvRet
<1>2. /\ bp' = PointerIn(frames, j) /\ bp' = frames[e].bp /\ ip' = frames[e - 1].val
      /\ sp' = frames[j].at /\ frames[e].bp <= BottomOfStack
      /\ frames[e] \in FrameTypes /\ frames[e - 1] \in FrameTypes
  BY <1>1, LeaveFacts
<1>3. bp' \in 0 .. BottomOfStack /\ ip' \in Words
  <2>1. frames[e].bp \in Words /\ frames[e - 1].val \in Words
    BY <1>2 DEF FrameTypes
  <2>2. bp' \in Nat /\ bp' <= BottomOfStack /\ BottomOfStack \in Nat
    BY <1>2, <2>1, Sizes
  <2> QED
    BY <1>2, <2>1, <2>2
<1>4. RestOK
  BY Known
<1>5. RestOK'
  BY <1>1, <1>3, <1>4, GoOnKeeps DEF RestOK
<1>6. j - 1 \in 0 .. Len(frames) - 1 /\ j - 1 + 1 = j
  BY Known
<1> QED
  BY <1>1, <1>2, <1>3, <1>5, <1>6, PopKeeps

LEMMA SetFlagStepKeeps ==
  ASSUME CpuInv, SetFlag
  PROVE  CpuInv'
<1>1. PICK value \in {0, 1} :
        /\ Executing /\ int_flag' = value /\ Convention!EnableFrames(value)
        /\ GoOn /\ UNCHANGED <<sp, bp, ram>>
  BY DEF SetFlag
<1>2. RestOK
  BY Known
<1>3. RestOK'
  BY <1>1, <1>2, GoOnKeeps DEF GoOn, RestOK
<1> QED
  BY <1>1, <1>3, SetFlagKeeps

LEMMA SendKeeps ==
  ASSUME CpuInv, SendInterrupt
  PROVE  CpuInv'
<1>1. PICK n \in InterruptNumbers :
        Send(n) /\ UNCHANGED <<registers, ram, ivt, power, frames>>
  BY DEF SendInterrupt
<1>2. RestOK'
  BY <1>1, Known DEF Send, registers, RestOK
<1> QED
  BY <1>1, <1>2, QuietKeeps DEF registers

-----------------------------------------------------------------------------
(* The theorems *)

LEMMA CpuInit == Init => CpuInv
<1> SUFFICES ASSUME Init PROVE CpuInv
  OBVIOUS
<1>1. DefaultHandler \in Targets
  BY CpuAssumption DEF DefaultHandler
<1>2. 0 \in Bytes /\ 0 \in Words /\ BottomOfStack \in 0 .. BottomOfStack /\ 0 \in 0 .. BottomOfStack
  BY Sizes
<1>3. TypeOK
  <2>1. ram \in StackBytes /\ ivt \in [InterruptNumbers -> Targets]
    BY <1>1, <1>2 DEF Init, StackBytes
  <2>2. interrupt_queue \in Seq(InterruptNumbers) /\ frames \in Seq(FrameTypes)
    BY DEF Init, InterruptInit
  <2> QED
    BY <1>2, <2>1, <2>2 DEF Init, TypeOK, RegistersTypeOK, StackBytes
<1>4. frames = <<>> /\ Len(frames) = 0 /\ sp = BottomOfStack /\ bp = 0
  BY DEF Init
<1>5. GoodStack(frames, sp)
  BY <1>2, <1>4 DEF GoodStack, Layout, Descending
<1>6. EnterIn(frames, 1) = 0
  BY DEF EnterIn, Innermost
<1>7. Chain(frames, bp)
  BY <1>4, <1>6 DEF Chain, PointerIn
<1> QED
  BY <1>3, <1>4, <1>5, <1>7 DEF CpuInv, AllStored, Masked

LEMMA CpuStep == CpuInv /\ [Next]_vars => CpuInv'
<1> SUFFICES ASSUME CpuInv, [Next]_vars PROVE CpuInv'
  OBVIOUS
<1>1. CASE UNCHANGED vars
  <2>1. RestOK'
    BY <1>1, Known DEF vars, registers, RestOK
  <2> QED
    BY <1>1, <2>1, QuietKeeps DEF vars, registers
<1>2. CASE Instruction
  BY <1>2, OtherInstructionKeeps, PushByteKeeps, PushWordKeeps, PushFKeeps, CallKeeps,
     EnterKeeps, SoftwareInterruptKeeps, PopKeepsAll, LvRetKeeps, SetFlagStepKeeps
     DEF Instruction
<1>3. CASE BadInstruction
  BY <1>3, FailKeeps DEF BadInstruction
<1>4. CASE HardwareInterrupt
  BY <1>4, HardwareInterruptKeeps
<1>5. CASE SendInterrupt
  BY <1>5, SendKeeps
<1> QED
  BY <1>1, <1>2, <1>3, <1>4, <1>5 DEF Next, Step, HaltedStep, Off

LEMMA CpuInvariant == Spec => []CpuInv
<1> QED
  BY CpuInit, CpuStep, PTL DEF Spec

\* Every variable keeps its type; in particular, neither SP nor BP leaves the stack,
\* and no instruction is read at an address that is not a word (registers.py, cpu.py).
THEOREM CpuTypeOK == Spec => []TypeOK
<1>1. CpuInv => TypeOK
  BY DEF CpuInv
<1> QED
  BY <1>1, CpuInvariant, PTL

\* However calls, pushes and interrupts are nested, what the stack instructions and
\* the interrupts have put into the RAM (cpu.py, stack.py) stays there, frame by
\* frame, from the bottom of the stack to SP.
THEOREM CpuStackIntact == Spec => []StackIntact
<1>1. CpuInv => StackIntact
  <2> SUFFICES ASSUME CpuInv PROVE StackIntact
    OBVIOUS
  <2>1. DOMAIN frames = 1 .. Len(frames)
    BY Known
  <2> QED
    BY <2>1 DEF CpuInv, AllStored, GoodStack, Layout, StackIntact
<1> QED
  BY <1>1, CpuInvariant, PTL

LEMMA EnterBelowIs ==
  ASSUME NEW i
  PROVE  EnterBelow(i) = EnterIn(frames, i) /\ FramePointerOf(EnterBelow(i)) = PointerIn(frames, i)
  BY DEF EnterBelow, EnterIn, Innermost, FramePointerOf, PointerIn

\* BP is the frame pointer of the innermost ENTER, and the BP that is saved in the
\* frame of an ENTER that of the next one below it (ENTER and LVRET in
\* control_flow.py), so that the call stack can be walked.
THEOREM CpuFramePointerChain == Spec => []FramePointerChain
<1>1. CpuInv => FramePointerChain
  <2> SUFFICES ASSUME CpuInv PROVE FramePointerChain
    OBVIOUS
  <2>1. DOMAIN frames = 1 .. Len(frames)
    BY Known
  <2>2. /\ bp = PointerIn(frames, Len(frames) + 1)
        /\ \A i \in 1 .. Len(frames) :
              frames[i].kind = "enter" => frames[i].bp = PointerIn(frames, i)
    BY DEF CpuInv, Chain
  <2> QED
    BY <2>1, <2>2, EnterBelowIs DEF FramePointerChain
<1> QED
  BY <1>1, CpuInvariant, PTL

\* The handler of a hardware interrupt that has not executed STI is not interrupted
\* by another one, whatever it calls, pushes or pops (cpu.py: the flag is cleared
\* when the handler starts and given back by IRET).
THEOREM CpuHandlersMasked == Spec => []HandlersMasked
<1>1. CpuInv => HandlersMasked
  <2> SUFFICES ASSUME CpuInv PROVE HandlersMasked
    OBVIOUS
  <2>1. DOMAIN frames = 1 .. Len(frames)
    BY Known
  <2> QED
    BY <2>1 DEF CpuInv, Masked, HandlersMasked
<1> QED
  BY <1>1, CpuInvariant, PTL

-----------------------------------------------------------------------------
(* The CPU implements the calling convention *)

LEMMA FailIsQuiet ==
  ASSUME Fail
  PROVE  UNCHANGED Convention!vars
  BY DEF Fail, registers, Convention!vars

LEMMA MapsQuiet ==
  ASSUME CpuInv, OtherInstruction \/ SetInt \/ Hlt \/ Shutdown
  PROVE  Convention!Step
<1>1. RestOK /\ Targets \subseteq Words
  BY Known, CpuAssumption
<1>2. Following \subseteq Words
  BY <1>1, FollowingWords
     DEF Executing, RestOK, OtherInstruction, SetInt, Hlt, Shutdown
<1> QED
  BY <1>1, <1>2 DEF Convention!Step, OtherInstruction, SetInt, Hlt, Shutdown

LEMMA NextWord ==
  ASSUME CpuInv, Executing
  PROVE  Following \subseteq Words /\ sp \in Words /\ Targets \subseteq Words
<1>1. RestOK /\ sp \in 0 .. BottomOfStack
  BY Known
<1> QED
  BY <1>1, FollowingWords, Sizes, CpuAssumption DEF Executing, RestOK

LEMMA MapsPush ==
  ASSUME CpuInv, PushByte \/ PushWord \/ Call, ~Fail
  PROVE  Convention!Push
<1>1. CASE PushByte
  <2>1. PICK value \in PushedBytes :
          /\ Executing /\ Convention!PushFrame(Convention!Frame("byte", sp, value))
          /\ GoOn /\ UNCHANGED <<bp, int_flag>>
    BY <1>1 DEF PushByte, Pushing
  <2>2. value \in Words
    BY Sizes, CpuAssumption
  <2> QED
    BY <2>1, <2>2, NextWord DEF GoOn, Convention!Push
<1>2. CASE PushWord
  <2>1. PICK value \in PushedWords :
          /\ Executing /\ Convention!PushFrame(Convention!Frame("word", sp, value))
          /\ GoOn /\ UNCHANGED <<bp, int_flag>>
    BY <1>2 DEF PushWord, Pushing
  <2>2. value \in Words
    BY CpuAssumption
  <2> QED
    BY <2>1, <2>2, NextWord DEF GoOn, Convention!Push
<1>3. CASE Call
  <2>1. PICK target \in Targets, next \in Following :
          /\ Executing /\ Convention!PushFrame(Convention!Frame("call", sp, next))
          /\ ip' = target /\ UNCHANGED <<bp, int_flag>>
    BY <1>3 DEF Call
  <2> QED
    BY <2>1, NextWord DEF Convention!Push
<1> QED
  BY <1>1, <1>2, <1>3

LEMMA MapsPushF ==
  ASSUME CpuInv, PushF, ~Fail
  PROVE  Convention!PushFlags
<1>1. /\ Executing
      /\ Convention!PushFrame([Convention!Frame("flags", sp, 0) EXCEPT !.flag = int_flag])
      /\ GoOn /\ UNCHANGED <<bp, int_flag>>
  BY DEF PushF, Pushing
<1>2. sp \in Words /\ ip' \in Words
  BY <1>1, NextWord DEF GoOn
<1> QED
  BY <1>1, <1>2, Zenon DEF Convention!PushFlags

LEMMA MapsPop ==
  ASSUME CpuInv, PopByte \/ PopWord
  PROVE  Convention!Pop
<1>1. Executing /\ GoOn
  BY DEF PopByte, PopWord
<1>2. ip' \in Words
  BY <1>1, NextWord DEF GoOn
<1> QED
  BY <1>2 DEF PopByte, PopWord, Convention!Pop, Convention!TopIs

LEMMA MapsReturn ==
  ASSUME CpuInv
  PROVE  /\ PopF => Convention!PopFlags
         /\ Ret => Convention!Ret
         /\ IRet => Convention!InterruptReturn
<1>1. ASSUME PopF PROVE Convention!PopFlags
  <2>1. Executing /\ GoOn /\ Convention!TopIs({"flags"})
    BY <1>1 DEF PopF
  <2>2. ip' \in Words /\ LoadWord(sp + 1) % 2 = Convention!Top.flag
    BY <2>1, NextWord, TopFacts DEF GoOn, Convention!TopIs
  <2> QED
    BY <1>1, <2>2 DEF PopF, Convention!PopFlags
<1>2. ASSUME Ret PROVE Convention!Ret
  <2>1. LoadWord(sp + 1) = Convention!Top.val
    BY <1>2, TopFacts DEF Ret, Convention!TopIs
  <2> QED
    BY <1>2, <2>1 DEF Ret, Convention!Ret
<1>3. ASSUME IRet PROVE Convention!InterruptReturn
  <2>1. /\ LoadWord(sp + 1) = Convention!Top.val
        /\ LoadWord(sp + 3) % 2 = Convention!Top.flag
    BY <1>3, TopFacts DEF IRet, Convention!TopIs
  <2> QED
    BY <1>3, <2>1 DEF IRet, Convention!InterruptReturn
<1> QED
  BY <1>1, <1>2, <1>3

LEMMA MapsEnter ==
  ASSUME CpuInv, Enter, ~Fail
  PROVE  Convention!Enter
<1>1. PICK params \in Counts, locals \in Counts :
        /\ Executing /\ Room(4 + locals) /\ Convention!TopIs({"call"})
        /\ bp' = sp - 4
        /\ Convention!PushFrame([Convention!Frame("enter", sp, 0) EXCEPT
               !.bp = bp, !.params = params, !.locals = locals])
        /\ GoOn /\ UNCHANGED int_flag
  BY DEF Enter
<1>2. params \in Bytes /\ locals \in Bytes
  BY CpuAssumption
<1>3. sp \in Words /\ ip' \in Words
  BY <1>1, NextWord DEF GoOn
<1>4. bp' \in Words
  <2>1. Enter
    OBVIOUS
  <2>2. CpuInv'
    BY <2>1, EnterKeeps
  <2>3. bp' \in 0 .. BottomOfStack
    BY <2>2 DEF CpuInv, TypeOK, RegistersTypeOK
  <2> QED
    BY <2>3, Sizes
<1> QED
  BY <1>1, <1>2, <1>3, <1>4, Zenon DEF Convention!Enter

LEMMA MapsLeave ==
  ASSUME CpuInv, LvRet
  PROVE  Convention!Leave
<1>1. PICK e \in 1 .. Len(frames), j \in 1 .. Len(frames) :
        /\ Convention!Leaves(e, j)
        /\ bp' = LoadWord(bp + 1) /\ ip' = LoadWord(bp + 5)
        /\ frames' = SubSeq(frames, 1, j - 1)
        /\ UNCHANGED <<int_flag, ram>>
  BY DEF LvRet
<1>2. bp' = frames[e].bp /\ ip' = frames[e - 1].val
  BY <1>1, LeaveFacts
<1> QED
  BY <1>1, <1>2 DEF Convention!Leave

LEMMA MapsSoftwareInterrupt ==
  ASSUME CpuInv, SoftwareInterrupt, ~Fail
  PROVE  Convention!SoftwareInterrupt
<1>1. PICK n \in InterruptNumbers, next \in Following :
        /\ Executing
        /\ Convention!PushFrame([Convention!Frame("int", sp, next) EXCEPT !.flag = int_flag])
        /\ ip' = ivt[n] /\ UNCHANGED <<bp, int_flag>>
  BY DEF SoftwareInterrupt
<1>2. sp \in Words /\ next \in Words /\ ip' \in Targets
  BY <1>1, NextWord, Known DEF RestOK
<1> QED
  BY <1>1, <1>2, Zenon DEF Convention!SoftwareInterrupt

LEMMA MapsHardwareInterrupt ==
  ASSUME CpuInv, HardwareInterrupt, ~Fail
  PROVE  Convention!HardwareInterrupt
<1>1. /\ Interrupted /\ int_flag' = 0 /\ Check
      /\ ip' = ivt[Head(interrupt_queue)]
      /\ Convention!PushFrame([Convention!Frame("hardware", sp, ip) EXCEPT !.flag = 1])
      /\ UNCHANGED bp
  BY DEF HardwareInterrupt
<1>2. int_flag = 1 /\ interrupt_queue # <<>>
  BY <1>1 DEF Interrupted
<1>3. ip' \in Targets /\ sp \in Words
  <2>1. /\ interrupt_queue \in Seq(InterruptNumbers) /\ ivt \in [InterruptNumbers -> Targets]
        /\ sp \in 0 .. BottomOfStack
    BY Known DEF RestOK
  <2>2. Head(interrupt_queue) \in InterruptNumbers
    BY <1>2, <2>1
  <2> QED
    BY <1>1, <2>1, <2>2, Sizes
<1> QED
  BY <1>1, <1>2, <1>3, Zenon DEF Convention!HardwareInterrupt

LEMMA MapsSetFlag ==
  ASSUME CpuInv, SetFlag
  PROVE  Convention!SetFlag
<1>1. PICK value \in {0, 1} :
        /\ Executing /\ int_flag' = value /\ Convention!EnableFrames(value)
        /\ GoOn /\ UNCHANGED <<sp, bp, ram>>
  BY DEF SetFlag
<1>2. ip' \in Words
  BY <1>1, NextWord DEF GoOn
<1> QED
  BY <1>1, <1>2 DEF Convention!SetFlag

\* Every step is one of CallStack or a stutter.
LEMMA StepMaps == CpuInv /\ [Next]_vars => [Convention!Next]_(Convention!vars)
<1> SUFFICES ASSUME CpuInv, [Next]_vars
             PROVE  [Convention!Next]_(Convention!vars)
  OBVIOUS
<1>1. CASE Fail
  BY <1>1, FailIsQuiet
<1>2. CASE UNCHANGED vars
  BY <1>2 DEF vars, registers, Convention!vars
<1>3. CASE Instruction /\ ~Fail
  BY <1>3, MapsQuiet, MapsPush, MapsPushF, MapsPop, MapsReturn, MapsEnter, MapsLeave,
     MapsSoftwareInterrupt, MapsSetFlag
     DEF Instruction, Underflow, Convention!Next
<1>4. CASE HardwareInterrupt /\ ~Fail
  BY <1>4, MapsHardwareInterrupt DEF Convention!Next
<1>5. CASE SendInterrupt
  BY <1>5 DEF SendInterrupt, registers, Convention!vars
<1> QED
  BY <1>1, <1>2, <1>3, <1>4, <1>5 DEF Next, Step, HaltedStep, Off, BadInstruction

\* The CPU, with its bytes, its SP and its BP, implements the stack of frames that the
\* calling convention promises (docs/calling-convention.md): every return gives back
\* what the call, the push or the interrupt had put there.
THEOREM CpuKeepsConvention == Spec => KeepsConvention
<1>1. Init => Convention!Init
  BY DEF Init, Convention!Init
<1> QED
  BY <1>1, CpuInvariant, StepMaps, PTL DEF Spec, KeepsConvention, Convention!Spec
=============================================================================
