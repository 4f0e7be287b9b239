---------------------------- MODULE StreamProofs ----------------------------
(***************************************************************************)
(* What the two streams of bytes promise, for buffers of any size, any     *)
(* readers and writers and any lengths: TtyExact and Lines of the terminal *)
(* input, PipeExact of a pipe.                                             *)
(*                                                                         *)
(* TtyExact speaks of the moments between two pop_raw_byte calls.  TtyInv  *)
(* also says what holds inside one: Written, that every byte a reader can  *)
(* meet has been typed; Typing, that a canonical read has put together     *)
(* part of one line; and Exact, while no two pops and no key press have    *)
(* met, how far the only reader inside has shifted the bytes.              *)
(*                                                                         *)
(* PipeExact says nothing of the middle of a read, where the reader may be *)
(* preempted; IInv does.  Numbered says that the buffer below write_pos    *)
(* always holds the last bytes written, so a position determines a byte.   *)
(* Behind bounds what was read by what read_pos has passed, and OnePlace   *)
(* says, while no write was lost, that nothing is missing before read_pos, *)
(* and that a reader past its test still sees what it tested.              *)
(***************************************************************************)
EXTENDS PipeStream, TtyInput, SequenceTheorems, TLAPS

Kinds == {"char", "newline", "erase", "escape"}
Pop == {"take", "shift", "load", "store"}
Places == {"user", "first", "test", "hlt"} \cup Pop

TtyType ==
    /\ stdin_buffer \in [1 .. TTY_SIZE -> Nat] /\ stdin_len \in 0 .. TTY_SIZE
    /\ typed \in Seq(Kinds)
    /\ tty_pc \in [Readers -> Places]
    /\ mode \in [Readers -> {"canonical", "raw"}]
    /\ tty_len \in [Readers -> Nat] /\ buf \in [Readers -> Seq(Nat)]
    /\ tty_c \in [Readers -> Nat] /\ tty_i \in [Readers -> Nat] /\ tty_tmp \in [Readers -> 0 .. TTY_SIZE]
    /\ popped \in Seq(Nat)
    /\ tty_torn \in BOOLEAN /\ wild \in BOOLEAN

\* Every byte that a reader can meet has been typed.
Written ==
    /\ \A j \in 1 .. TTY_SIZE : stdin_buffer[j] <= Len(typed)
    /\ \A j \in 1 .. stdin_len : stdin_buffer[j] >= 1
    /\ \A r \in Readers :
         /\ tty_pc[r] \in Pop => stdin_buffer[1] >= 1
         /\ tty_pc[r] \in {"shift", "load", "store"} =>
              tty_c[r] >= 1 /\ tty_c[r] <= Len(typed) /\ tty_i[r] >= 1
         /\ tty_pc[r] = "store" =>
              tty_tmp[r] <= TTY_SIZE /\ \A j \in 1 .. tty_tmp[r] : stdin_buffer[j] >= 1

\* What a canonical read has put together: no erase, and a newline only
\* at the end, where the next test finds it.
LineSoFar(b, t, ended) ==
    /\ \A k \in 1 .. Len(b) : b[k] >= 1 /\ b[k] <= Len(t) /\ t[b[k]] # "erase"
    /\ \A k \in 1 .. Len(b) : t[b[k]] = "newline" => k = Len(b) /\ ended

Typing ==
    \A r \in Readers :
        /\ tty_pc[r] = "user" => buf[r] = << >>
        /\ mode[r] = "canonical" => LineSoFar(buf[r], typed, tty_pc[r] = "test")

OneInPop == \A q, r \in Readers : tty_pc[q] \in Pop /\ tty_pc[r] \in Pop => q = r

\* The place of the byte in position j, when the shift has come to i.
Shifted(b, cnt, p, at) == \A j \in 1 .. cnt : b[j] = IF j < at THEN p + j + 1 ELSE p + j

Exact ==
    ~ tty_torn /\ OneInPop =>
        /\ \A k \in 1 .. Len(popped) : popped[k] = k
        /\ Len(popped) + stdin_len = Len(typed)
        /\ Between => Shifted(stdin_buffer, stdin_len, Len(popped), 1)
        /\ \A r \in Readers :
             /\ tty_pc[r] \in Pop => stdin_len >= 1
             /\ tty_pc[r] = "take" => Shifted(stdin_buffer, stdin_len, Len(popped), 1)
             /\ tty_pc[r] \in {"shift", "load", "store"} =>
                  /\ tty_c[r] = Len(popped) + 1
                  /\ tty_i[r] >= 1 /\ tty_i[r] <= stdin_len
                  /\ Shifted(stdin_buffer, stdin_len, Len(popped), tty_i[r])
             /\ tty_pc[r] \in {"load", "store"} => tty_i[r] = stdin_len
             /\ tty_pc[r] = "store" => tty_tmp[r] = stdin_len

TtyInv == TtyType /\ Written /\ Typing /\ Exact /\ NeverUnderflows
----------------------------------------------------------------------------
\* What a key press stores.
LEMMA KeyStored ==
  ASSUME TtyType, NEW key \in Keys, process_scancode(key)
  PROVE  \E k \in Nat :
            /\ k <= Len(key) /\ stdin_len + k <= TTY_SIZE
            /\ stdin_len' = stdin_len + k
            /\ stdin_buffer' = [j \in 1 .. TTY_SIZE |->
                                  IF stdin_len < j /\ j <= stdin_len + k
                                    THEN Len(typed) + (j - stdin_len) ELSE stdin_buffer[j]]
            /\ typed' \in Seq(Kinds) /\ Len(typed') = Len(typed) + k
            /\ \A j \in 1 .. Len(typed) : typed'[j] = typed[j]
            /\ tty_torn' = (tty_torn \/ (k > 0 /\ \E r \in Readers : tty_pc[r] \in {"load", "store"}))
<1> DEFINE k == Stored(key)
<1>1. key \in Seq(Kinds) /\ Len(key) \in Nat
  BY TtyAssumption DEF Kinds
<1>2. k \in Nat /\ k <= Len(key) /\ stdin_len + k <= TTY_SIZE
  BY <1>1, TtyAssumption DEF TtyType, Stored, Room
<1>3. typed \in Seq(Kinds) /\ SubSeq(key, 1, k) \in Seq(Kinds) /\ Len(SubSeq(key, 1, k)) = k
  BY <1>1, <1>2, SubSeqProperties DEF TtyType
<1>4. /\ stdin_len' = stdin_len + k
      /\ stdin_buffer' = [j \in 1 .. TTY_SIZE |->
                             IF stdin_len < j /\ j <= stdin_len + k
                               THEN Len(typed) + (j - stdin_len) ELSE stdin_buffer[j]]
      /\ typed' = typed \o SubSeq(key, 1, k)
      /\ tty_torn' = (tty_torn \/ (k > 0 /\ \E r \in Readers : tty_pc[r] \in {"load", "store"}))
  BY DEF process_scancode
<1> HIDE DEF k
<1>5. /\ typed' \in Seq(Kinds) /\ Len(typed') = Len(typed) + k
      /\ \A j \in 1 .. Len(typed) : typed'[j] = typed[j]
  BY <1>2, <1>3, <1>4, ConcatProperties
<1> QED
  BY <1>2, <1>4, <1>5

\* Types.
LEMMA TypeStep == TtyType /\ [TtyNext]_tty_vars => TtyType'
<1> SUFFICES ASSUME TtyType, [TtyNext]_tty_vars PROVE TtyType'
  OBVIOUS
<1>1. ASSUME NEW key \in Keys, process_scancode(key) PROVE TtyType'
  <2>1. PICK k \in Nat :
            /\ k <= Len(key) /\ stdin_len + k <= TTY_SIZE
            /\ stdin_len' = stdin_len + k
            /\ stdin_buffer' = [j \in 1 .. TTY_SIZE |->
                                  IF stdin_len < j /\ j <= stdin_len + k
                                    THEN Len(typed) + (j - stdin_len) ELSE stdin_buffer[j]]
            /\ typed' \in Seq(Kinds)
    BY <1>1, KeyStored
  <2>2. UNCHANGED <<tty_pc, mode, tty_len, buf, tty_c, tty_i, tty_tmp, popped, wild>>
    BY <1>1 DEF process_scancode, locals
  <2>3. tty_torn' \in BOOLEAN
    BY <1>1, Zenon DEF process_scancode, TtyType
  <2>4. stdin_buffer' \in [1 .. TTY_SIZE -> Nat]
    <3>1. Len(typed) \in Nat /\ stdin_len \in Nat
      BY TtyAssumption DEF TtyType
    <3>2. \A j \in 1 .. TTY_SIZE : stdin_buffer[j] \in Nat
      BY DEF TtyType
    <3> QED BY <2>1, <3>1, <3>2
  <2>5. stdin_len' \in 0 .. TTY_SIZE
    BY <2>1, TtyAssumption DEF TtyType
  <2> QED BY <2>1, <2>2, <2>3, <2>4, <2>5 DEF TtyType
<1>2. ASSUME NEW r \in Readers, NEW l \in TtyLens, NEW md \in {"canonical", "raw"},
             NEW vmin \in 0 .. 1, read(r, l, md, vmin)
      PROVE  TtyType'
  <2>1. l \in Nat
    BY TtyAssumption
  <2> QED BY <1>2, <2>1 DEF read, TtyType, Goto, locals, Places
<1>3. ASSUME NEW r \in Readers, tty_wake(r) PROVE TtyType'
  BY <1>3 DEF tty_wake, TtyType, Goto, locals, Places
<1>4. ASSUME NEW r \in Readers, tty_test(r) PROVE TtyType'
  <2>1. UNCHANGED <<stdin_buffer, stdin_len, typed, tty_c, tty_i, tty_tmp, popped, tty_torn, wild>>
    BY <1>4 DEF tty_test, locals
  <2>2. CASE Return(r)
    BY <2>1, <2>2, EmptySeq DEF TtyType, Return, Goto, Places
  <2>3. CASE /\ tty_pc' = [tty_pc EXCEPT ![r] = "take"] \/ tty_pc' = [tty_pc EXCEPT ![r] = "hlt"]
             /\ UNCHANGED <<mode, tty_len, buf>>
    BY <2>1, <2>3 DEF TtyType, Places, Pop
  <2> QED
    BY <1>4, <2>2, <2>3 DEF tty_test, Wait, Goto
<1>5. ASSUME NEW r \in Readers, first(r) PROVE TtyType'
  BY <1>5 DEF first, TtyType, Goto, locals, Places, Wait
<1>6. ASSUME NEW r \in Readers, take(r) PROVE TtyType'
  <2>1. stdin_buffer[1] \in Nat
    BY TtyAssumption DEF TtyType
  <2>2. tty_c' \in [Readers -> Nat] /\ tty_i' \in [Readers -> Nat]
    BY <1>6, <2>1 DEF take, TtyType
  <2>3. tty_pc' \in [Readers -> Places]
    BY <1>6 DEF take, TtyType, Goto, Places, Pop
  <2> QED BY <1>6, <2>2, <2>3 DEF take, TtyType
<1>7. ASSUME NEW r \in Readers, shift(r) PROVE TtyType'
  <2>1. UNCHANGED <<stdin_len, typed, mode, tty_len, buf, tty_c, tty_tmp, popped, tty_torn, wild>>
    BY <1>7 DEF shift
  <2>2. CASE Moves(r)
    <3>1. /\ stdin_buffer' = [stdin_buffer EXCEPT ![tty_i[r]] = stdin_buffer[tty_i[r] + 1]]
          /\ tty_i' = [tty_i EXCEPT ![r] = @ + 1]
          /\ tty_pc' = tty_pc
      BY <1>7, <2>2 DEF shift
    <3>2. tty_i[r] \in Nat /\ stdin_buffer[tty_i[r] + 1] \in Nat
      BY <2>2, TtyAssumption DEF TtyType, Moves
    <3>3. tty_i' \in [Readers -> Nat]
      BY <3>1, <3>2 DEF TtyType
    <3>4. stdin_buffer' \in [1 .. TTY_SIZE -> Nat]
      BY <3>1, <3>2 DEF TtyType
    <3> QED BY <2>1, <3>1, <3>3, <3>4 DEF TtyType
  <2>3. CASE ~ Moves(r)
    BY <1>7, <2>1, <2>3 DEF shift, TtyType, Goto, Places, Pop
  <2> QED BY <2>2, <2>3
<1>8. ASSUME NEW r \in Readers, load(r) PROVE TtyType'
  <2>1. tty_tmp' \in [Readers -> 0 .. TTY_SIZE]
    BY <1>8 DEF load, TtyType
  <2> QED BY <1>8, <2>1 DEF load, TtyType, Goto, Places, Pop
<1>9. ASSUME NEW r \in Readers, store(r) PROVE TtyType'
  <2>1. UNCHANGED <<stdin_buffer, typed, mode, tty_len>>
    BY <1>9 DEF store
  <2>2. tty_pc' \in [Readers -> Places]
    BY <1>9 DEF store, TtyType, Goto, Places
  <2>3. wild' \in BOOLEAN /\ tty_torn' \in BOOLEAN
    BY <1>9, Zenon DEF store, TtyType
  <2>4. tty_tmp[r] \in 0 .. TTY_SIZE /\ tty_c[r] \in Nat /\ buf[r] \in Seq(Nat)
    BY DEF TtyType
  <2>5. stdin_len' \in 0 .. TTY_SIZE
    BY <1>9, <2>4, TtyAssumption DEF store
  <2>6. popped' \in Seq(Nat)
    BY <1>9, <2>4, AppendProperties DEF store, TtyType
  <2>7. Take(r) \in Seq(Nat)
    <3>1. buf[r] # << >> => SubSeq(buf[r], 1, Len(buf[r]) - 1) \in Seq(Nat)
      BY <2>4, SubSeqProperties
    <3> QED BY <2>4, <3>1, EmptySeq, AppendProperties DEF Take
  <2>8. buf' \in [Readers -> Seq(Nat)]
    BY <1>9, <2>7 DEF store, TtyType
  <2>9. /\ tty_c' \in [Readers -> Nat] /\ tty_i' \in [Readers -> Nat]
        /\ tty_tmp' \in [Readers -> 0 .. TTY_SIZE]
    BY <1>9, TtyAssumption DEF store, TtyType
  <2> QED BY <2>1, <2>2, <2>3, <2>5, <2>6, <2>8, <2>9 DEF TtyType
<1>10. CASE UNCHANGED tty_vars
  BY <1>10 DEF tty_vars, TtyType
<1>11. CASE runaway
  BY <1>10, <1>11 DEF runaway
<1> QED
  BY <1>1, <1>2, <1>3, <1>4, <1>5, <1>6, <1>7, <1>8, <1>9, <1>10, <1>11 DEF TtyNext, tty_resume

\* Written: typing and shifting put typed bytes into the buffer.
LEMMA WrittenStep == TtyType /\ Written /\ [TtyNext]_tty_vars => Written'
<1> SUFFICES ASSUME TtyType, Written, [TtyNext]_tty_vars PROVE Written'
  OBVIOUS
<1>1. ASSUME NEW key \in Keys, process_scancode(key) PROVE Written'
  <2>1. PICK k \in Nat :
            /\ stdin_len + k <= TTY_SIZE
            /\ stdin_len' = stdin_len + k
            /\ stdin_buffer' = [j \in 1 .. TTY_SIZE |->
                                  IF stdin_len < j /\ j <= stdin_len + k
                                    THEN Len(typed) + (j - stdin_len) ELSE stdin_buffer[j]]
            /\ Len(typed') = Len(typed) + k
    BY <1>1, KeyStored
  <2>2. UNCHANGED <<tty_pc, tty_c, tty_i, tty_tmp>>
    BY <1>1 DEF process_scancode, locals
  <2>3. Len(typed) \in Nat /\ stdin_len \in Nat /\ TTY_SIZE \in Nat /\ TTY_SIZE >= 1
    BY TtyAssumption DEF TtyType
  <2>4. ASSUME NEW j \in 1 .. TTY_SIZE
        PROVE  /\ stdin_buffer'[j] <= Len(typed')
               /\ stdin_buffer[j] >= 1 => stdin_buffer'[j] >= 1
               /\ j <= stdin_len' => stdin_buffer'[j] >= 1
    <3>1. stdin_buffer[j] \in Nat /\ stdin_buffer[j] <= Len(typed)
      BY DEF TtyType, Written
    <3>2. j <= stdin_len => stdin_buffer[j] >= 1
      BY DEF Written
    <3>3. stdin_buffer'[j] = IF stdin_len < j /\ j <= stdin_len + k
                               THEN Len(typed) + (j - stdin_len) ELSE stdin_buffer[j]
      BY <2>1
    <3> QED BY <2>1, <2>3, <3>1, <3>2, <3>3
  <2>5. ASSUME NEW r \in Readers
        PROVE  /\ tty_pc'[r] \in Pop => stdin_buffer'[1] >= 1
               /\ tty_pc'[r] \in {"shift", "load", "store"} =>
                    tty_c'[r] >= 1 /\ tty_c'[r] <= Len(typed') /\ tty_i'[r] >= 1
               /\ tty_pc'[r] = "store" =>
                    tty_tmp'[r] <= TTY_SIZE /\ \A j \in 1 .. tty_tmp'[r] : stdin_buffer'[j] >= 1
    <3>1. tty_c[r] \in Nat /\ tty_tmp[r] \in Nat
      BY DEF TtyType
    <3> QED BY <2>1, <2>2, <2>3, <2>4, <3>1 DEF Written
  <2> QED BY <2>1, <2>3, <2>4, <2>5 DEF Written
<1>2. ASSUME NEW r \in Readers, NEW l \in TtyLens, NEW md \in {"canonical", "raw"},
             NEW vmin \in 0 .. 1, read(r, l, md, vmin)
      PROVE  Written'
  BY <1>2 DEF read, TtyType, Written, Goto, locals, Pop
<1>3. ASSUME NEW r \in Readers, tty_wake(r) PROVE Written'
  BY <1>3 DEF tty_wake, TtyType, Written, Goto, locals, Pop
<1>4. ASSUME NEW r \in Readers, tty_test(r) PROVE Written'
  <2>1. UNCHANGED <<stdin_buffer, stdin_len, typed, tty_c, tty_i, tty_tmp>>
    BY <1>4 DEF tty_test, locals
  <2>2. \/ tty_pc' = [tty_pc EXCEPT ![r] = "user"] \/ tty_pc' = [tty_pc EXCEPT ![r] = "hlt"]
        \/ tty_pc' = [tty_pc EXCEPT ![r] = "take"] /\ stdin_len > 0
    BY <1>4 DEF tty_test, Return, Wait, Goto
  <2> QED BY <2>1, <2>2 DEF TtyType, Written, Pop
<1>5. ASSUME NEW r \in Readers, first(r) PROVE Written'
  BY <1>5 DEF first, TtyType, Written, Goto, locals, Pop, Wait
<1>6. ASSUME NEW r \in Readers, take(r) PROVE Written'
  <2>1. stdin_buffer[1] >= 1 /\ stdin_buffer[1] <= Len(typed)
    BY <1>6, TtyAssumption DEF take, Written, Pop
  <2> QED BY <1>6, <2>1 DEF take, TtyType, Written, Goto, Pop
<1>7. ASSUME NEW r \in Readers, shift(r) PROVE Written'
  <2>1. UNCHANGED <<stdin_len, typed, tty_c, tty_tmp>>
    BY <1>7 DEF shift
  <2>2. CASE Moves(r)
    <3>1. /\ stdin_buffer' = [stdin_buffer EXCEPT ![tty_i[r]] = stdin_buffer[tty_i[r] + 1]]
          /\ tty_i' = [tty_i EXCEPT ![r] = @ + 1]
          /\ tty_pc' = tty_pc
      BY <1>7, <2>2 DEF shift
    <3>2. /\ tty_i[r] \in Nat /\ tty_i[r] >= 1 /\ tty_i[r] + 1 <= stdin_len
          /\ stdin_len \in Nat /\ stdin_len <= TTY_SIZE /\ TTY_SIZE \in Nat
      BY <1>7, <2>2, TtyAssumption DEF TtyType, Moves, Written, shift
    <3>3. stdin_buffer[tty_i[r] + 1] >= 1 /\ stdin_buffer[tty_i[r] + 1] <= Len(typed)
      BY <3>2 DEF Written
    <3>4. \A j \in 1 .. TTY_SIZE :
            /\ stdin_buffer'[j] <= Len(typed')
            /\ stdin_buffer[j] >= 1 => stdin_buffer'[j] >= 1
      BY <2>1, <3>1, <3>2, <3>3 DEF TtyType, Written
    <3>5. ASSUME NEW q \in Readers PROVE tty_i[q] >= 1 => tty_i'[q] >= 1
      BY <3>1 DEF TtyType
    <3>6. ASSUME NEW q \in Readers, tty_pc'[q] = "store"
          PROVE  tty_tmp'[q] <= TTY_SIZE /\ \A j \in 1 .. tty_tmp'[q] : stdin_buffer'[j] >= 1
      <4>1. tty_tmp[q] \in 0 .. TTY_SIZE /\ \A j \in 1 .. tty_tmp[q] : stdin_buffer[j] >= 1
        BY <3>1, <3>6 DEF TtyType, Written
      <4>2. ASSUME NEW j \in 1 .. tty_tmp[q] PROVE stdin_buffer'[j] >= 1
        BY <3>2, <3>4, <4>1
      <4> QED BY <2>1, <3>2, <4>1, <4>2
    <3>7. ASSUME NEW j \in 1 .. stdin_len PROVE stdin_buffer'[j] >= 1
      BY <3>2, <3>4 DEF Written
    <3>8. ASSUME NEW q \in Readers
          PROVE  /\ tty_pc'[q] \in Pop => stdin_buffer'[1] >= 1
                 /\ tty_pc'[q] \in {"shift", "load", "store"} =>
                      tty_c'[q] >= 1 /\ tty_c'[q] <= Len(typed') /\ tty_i'[q] >= 1
      <4>1. 1 \in 1 .. TTY_SIZE
        BY <3>2
      <4>2. stdin_buffer[1] >= 1 => stdin_buffer'[1] >= 1
        BY <3>4, <4>1
      <4> QED BY <2>1, <3>1, <3>5, <4>2 DEF Written
    <3> QED BY <2>1, <3>4, <3>6, <3>7, <3>8 DEF Written
  <2>3. CASE ~ Moves(r)
    BY <1>7, <2>1, <2>3 DEF shift, TtyType, Written, Goto, Pop
  <2> QED BY <2>2, <2>3
<1>8. ASSUME NEW r \in Readers, load(r) PROVE Written'
  <2>1. UNCHANGED <<stdin_buffer, stdin_len, typed, tty_c, tty_i>>
    BY <1>8 DEF load
  <2>2. /\ tty_pc' = [tty_pc EXCEPT ![r] = "store"] /\ tty_pc[r] = "load"
        /\ tty_tmp' = [tty_tmp EXCEPT ![r] = stdin_len]
    BY <1>8 DEF load, Goto
  <2>3. ASSUME NEW q \in Readers, tty_pc'[q] = "store"
        PROVE  tty_tmp'[q] <= TTY_SIZE /\ \A j \in 1 .. tty_tmp'[q] : stdin_buffer'[j] >= 1
    <3>1. CASE q = r
      BY <2>1, <2>2, <3>1, TtyAssumption DEF TtyType, Written
    <3>2. CASE q # r
      BY <2>1, <2>2, <2>3, <3>2 DEF TtyType, Written
    <3> QED BY <3>1, <3>2
  <2>4. ASSUME NEW q \in Readers
        PROVE  /\ tty_pc'[q] \in Pop => stdin_buffer'[1] >= 1
               /\ tty_pc'[q] \in {"shift", "load", "store"} =>
                    tty_c'[q] >= 1 /\ tty_c'[q] <= Len(typed') /\ tty_i'[q] >= 1
    BY <2>1, <2>2 DEF TtyType, Written, Pop
  <2> QED BY <2>1, <2>3, <2>4 DEF Written
<1>9. ASSUME NEW r \in Readers, store(r) PROVE Written'
  <2>1. UNCHANGED <<stdin_buffer, typed>> /\ tty_pc[r] = "store"
    BY <1>9 DEF store
  <2>2. /\ tty_pc' = [tty_pc EXCEPT ![r] = "test"]
        /\ stdin_len' = IF tty_tmp[r] = 0 THEN 0 ELSE tty_tmp[r] - 1
        /\ tty_c' = [tty_c EXCEPT ![r] = 0]
        /\ tty_i' = [tty_i EXCEPT ![r] = 0]
        /\ tty_tmp' = [tty_tmp EXCEPT ![r] = 0]
    BY <1>9 DEF store, Goto
  <2>3. \A j \in 1 .. stdin_len' : stdin_buffer'[j] >= 1
    BY <2>1, <2>2 DEF TtyType, Written
  <2>4. ASSUME NEW q \in Readers
        PROVE  /\ tty_pc'[q] \in Pop => stdin_buffer'[1] >= 1
               /\ tty_pc'[q] \in {"shift", "load", "store"} =>
                    tty_c'[q] >= 1 /\ tty_c'[q] <= Len(typed') /\ tty_i'[q] >= 1
               /\ tty_pc'[q] = "store" =>
                    tty_tmp'[q] <= TTY_SIZE /\ \A j \in 1 .. tty_tmp'[q] : stdin_buffer'[j] >= 1
    BY <2>1, <2>2 DEF TtyType, Written, Pop
  <2> QED BY <2>1, <2>3, <2>4 DEF Written
<1>10. CASE UNCHANGED tty_vars
  BY <1>10 DEF tty_vars, Written
<1>11. CASE runaway
  BY <1>10, <1>11 DEF runaway
<1> QED
  BY <1>1, <1>2, <1>3, <1>4, <1>5, <1>6, <1>7, <1>8, <1>9, <1>10, <1>11 DEF TtyNext, tty_resume

----------------------------------------------------------------------------
\* A line without its last byte.
LEMMA WithoutLast ==
  ASSUME NEW b \in Seq(Nat), Len(b) \in Nat \ {0}
  PROVE  /\ Len(SubSeq(b, 1, Len(b) - 1)) = Len(b) - 1
         /\ \A k \in 1 .. Len(SubSeq(b, 1, Len(b) - 1)) : SubSeq(b, 1, Len(b) - 1)[k] = b[k]
<1>1. 1 \in Int /\ Len(b) - 1 \in Int /\ \A k \in 1 .. Len(b) - 1 : b[k] \in Nat
  OBVIOUS
<1>2. /\ Len(SubSeq(b, 1, Len(b) - 1)) = IF 1 <= Len(b) - 1 THEN (Len(b) - 1) - 1 + 1 ELSE 0
      /\ \A k \in 1 .. (Len(b) - 1) - 1 + 1 : SubSeq(b, 1, Len(b) - 1)[k] = b[1 + k - 1]
  BY <1>1, SubSeqProperties
<1>3. PICK m \in Nat \ {0} : m = Len(b)
  OBVIOUS
<1>4. Len(SubSeq(b, 1, m - 1)) = m - 1
  <2>1. (IF 1 <= m - 1 THEN (m - 1) - 1 + 1 ELSE 0) = m - 1
    OBVIOUS
  <2> QED BY <1>2, <1>3, <2>1, Zenon
<1> QED BY <1>1, <1>2, <1>3, <1>4

\* What a caller's line looks like after the byte that was popped.
LEMMA TakeLine ==
  ASSUME NEW b \in Seq(Nat), NEW t \in Seq(Kinds), LineSoFar(b, t, FALSE),
         NEW c \in Nat, c >= 1, c <= Len(t),
         NEW d, d = IF t[c] = "erase" THEN IF b = << >> THEN << >> ELSE SubSeq(b, 1, Len(b) - 1)
                    ELSE Append(b, c)
  PROVE  LineSoFar(d, t, TRUE)
<1>1. CASE t[c] = "erase" /\ b = << >>
  BY <1>1 DEF LineSoFar
<1>2. CASE t[c] = "erase" /\ b # << >>
  <2>1. Len(b) \in Nat \ {0} /\ d = SubSeq(b, 1, Len(b) - 1)
    <3>1. Len(b) \in Nat \ {0}
      BY <1>2, EmptySeq
    <3> QED BY <1>2, <3>1, Zenon
  <2>2. Len(d) = Len(b) - 1 /\ \A k \in 1 .. Len(d) : d[k] = b[k]
    BY <2>1, WithoutLast, Zenon
  <2>3. ASSUME NEW k \in 1 .. Len(d)
        PROVE  d[k] >= 1 /\ d[k] <= Len(t) /\ t[d[k]] # "erase" /\ t[d[k]] # "newline"
    <3>1. k \in 1 .. Len(b) /\ d[k] = b[k]
      BY <2>1, <2>2
    <3> QED BY <3>1 DEF LineSoFar
  <2> QED BY <2>3 DEF LineSoFar
<1>3. CASE t[c] # "erase"
  <2>1. Len(d) = Len(b) + 1 /\ d[Len(b) + 1] = c /\ \A k \in 1 .. Len(b) : d[k] = b[k]
    BY <1>3
  <2> QED BY <1>3, <2>1 DEF LineSoFar
<1> QED BY <1>1, <1>2, <1>3

\* A line stays one when more is typed, and when the next test is due.
LEMMA LineKept ==
  ASSUME NEW b \in Seq(Nat), NEW t \in Seq(Kinds), NEW u \in Seq(Kinds),
         Len(t) <= Len(u), \A j \in 1 .. Len(t) : u[j] = t[j],
         NEW e, NEW f, e => f, LineSoFar(b, t, e)
  PROVE  LineSoFar(b, u, f)
BY DEF LineSoFar

\* A canonical read whose line is not full has met no newline yet.
LEMMA LineOpen ==
  ASSUME TtyType, NEW r \in Readers, mode[r] = "canonical", ~ Full(r),
         LineSoFar(buf[r], typed, TRUE)
  PROVE  LineSoFar(buf[r], typed, FALSE)
<1>1. buf[r] \in Seq(Nat) /\ Len(buf[r]) \in Nat
  BY DEF TtyType
<1>2. ASSUME NEW k \in 1 .. Len(buf[r]), typed[buf[r][k]] = "newline" PROVE FALSE
  <2>1. k = Len(buf[r])
    BY <1>2 DEF LineSoFar
  <2>2. buf[r] # << >> /\ buf[r][Len(buf[r])] = buf[r][k]
    BY <1>1, <2>1
  <2> QED BY <1>2, <2>2 DEF Full
<1> QED BY <1>2 DEF LineSoFar

\* Typing: each action keeps what a canonical read has put together.
LEMMA TypingStep == TtyType /\ Written /\ Typing /\ [TtyNext]_tty_vars => Typing'
<1> SUFFICES ASSUME TtyType, Written, Typing, [TtyNext]_tty_vars PROVE Typing'
  OBVIOUS
<1>0. typed \in Seq(Kinds) /\ \A q \in Readers : buf[q] \in Seq(Nat)
  BY DEF TtyType
<1>1. ASSUME NEW key \in Keys, process_scancode(key) PROVE Typing'
  <2>1. /\ typed' \in Seq(Kinds) /\ Len(typed) <= Len(typed')
        /\ \A j \in 1 .. Len(typed) : typed'[j] = typed[j]
    BY <1>0, <1>1, KeyStored
  <2>2. UNCHANGED <<tty_pc, mode, buf>>
    BY <1>1 DEF process_scancode
  <2>3. ASSUME NEW q \in Readers, mode[q] = "canonical"
        PROVE  LineSoFar(buf[q], typed', tty_pc[q] = "test")
    <3>1. LineSoFar(buf[q], typed, tty_pc[q] = "test")
      BY <2>3 DEF Typing
    <3> QED BY <1>0, <2>1, <3>1, LineKept
  <2> QED BY <2>2, <2>3 DEF Typing
<1>2. ASSUME NEW r \in Readers, NEW l \in TtyLens, NEW md \in {"canonical", "raw"},
             NEW vmin \in 0 .. 1, read(r, l, md, vmin)
      PROVE  Typing'
  <2>1. UNCHANGED <<typed, buf>> /\ buf[r] = << >>
    BY <1>2 DEF read, Typing
  <2>2. \A q \in Readers \ {r} : tty_pc'[q] = tty_pc[q] /\ mode'[q] = mode[q]
    BY <1>2 DEF read, Goto, TtyType
  <2>3. tty_pc'[r] # "user"
    BY <1>2 DEF read, Goto, TtyType
  <2>4. LineSoFar(buf[r], typed, tty_pc'[r] = "test")
    BY <2>1 DEF LineSoFar
  <2> QED BY <2>1, <2>2, <2>3, <2>4 DEF Typing
<1>3. ASSUME NEW r \in Readers, NEW place \in Places \ {"user"}, Goto(r, place),
             UNCHANGED <<typed, buf, mode>>,
             mode[r] = "canonical" => LineSoFar(buf[r], typed, place = "test")
      PROVE  Typing'
  BY <1>3 DEF Goto, TtyType, Typing
<1>4. ASSUME NEW r \in Readers, NEW place \in Places \ {"user", "test"}, Goto(r, place),
             UNCHANGED <<typed, buf, mode>>, tty_pc[r] # "test"
      PROVE  Typing'
  <2>1. mode[r] = "canonical" => LineSoFar(buf[r], typed, place = "test")
    BY <1>4 DEF Typing
  <2> QED BY <1>3, <1>4, <2>1
<1>5. ASSUME NEW r \in Readers, Goto(r, "test"), UNCHANGED <<typed, buf, mode>> PROVE Typing'
  <2>1. ASSUME mode[r] = "canonical" PROVE LineSoFar(buf[r], typed, TRUE)
    <3>1. LineSoFar(buf[r], typed, tty_pc[r] = "test")
      BY <2>1 DEF Typing
    <3> QED BY <3>1 DEF LineSoFar
  <2> QED BY <1>3, <1>5, <2>1 DEF Places
<1>6. ASSUME NEW r \in Readers, tty_wake(r) PROVE Typing'
  BY <1>4, <1>5, <1>6 DEF tty_wake, Places
<1>7. ASSUME NEW r \in Readers, first(r) PROVE Typing'
  BY <1>4, <1>5, <1>7 DEF first, Wait, Places
<1>8. ASSUME NEW r \in Readers, tty_test(r) PROVE Typing'
  <2>1. UNCHANGED typed /\ tty_pc[r] = "test"
    BY <1>8 DEF tty_test
  <2>2. CASE Return(r)
    BY <2>1, <2>2 DEF Return, Goto, TtyType, Typing
  <2>3. CASE ~ Full(r) /\ (Goto(r, "take") \/ Goto(r, "hlt")) /\ UNCHANGED <<mode, buf>>
    <3>1. ASSUME mode[r] = "canonical" PROVE LineSoFar(buf[r], typed, FALSE)
      <4>1. LineSoFar(buf[r], typed, TRUE)
        BY <2>1, <3>1 DEF Typing
      <4> QED BY <2>3, <3>1, <4>1, LineOpen
    <3> QED BY <1>3, <2>1, <2>3, <3>1 DEF Places, Pop
  <2> QED BY <1>8, <2>2, <2>3 DEF tty_test, Wait
<1>9. ASSUME NEW r \in Readers, take(r) \/ shift(r) \/ load(r) PROVE Typing'
  <2>1. CASE take(r)
    BY <1>4, <2>1 DEF take, Places, Pop
  <2>2. CASE shift(r) /\ Moves(r)
    BY <2>2 DEF shift, Typing
  <2>3. CASE shift(r) /\ ~ Moves(r)
    BY <1>4, <2>3 DEF shift, Places, Pop
  <2>4. CASE load(r)
    BY <1>4, <2>4 DEF load, Places, Pop
  <2> QED BY <1>9, <2>1, <2>2, <2>3, <2>4
<1>10. ASSUME NEW r \in Readers, store(r) PROVE Typing'
  <2>1. UNCHANGED <<typed, mode>> /\ tty_pc[r] = "store"
    BY <1>10 DEF store
  <2>2. /\ tty_pc' = [tty_pc EXCEPT ![r] = "test"]
        /\ buf' = [buf EXCEPT ![r] = Take(r)]
    BY <1>10 DEF store, Goto
  <2>3. ASSUME mode[r] = "canonical" PROVE LineSoFar(Take(r), typed, TRUE)
    <3>1. tty_c[r] \in Nat /\ tty_c[r] >= 1 /\ tty_c[r] <= Len(typed)
      BY <2>1 DEF TtyType, Written
    <3>2. LineSoFar(buf[r], typed, FALSE)
      BY <2>1, <2>3 DEF Typing
    <3>3. Take(r) = IF typed[tty_c[r]] = "erase" THEN IF buf[r] = << >> THEN << >> ELSE SubSeq(buf[r], 1, Len(buf[r]) - 1)
                    ELSE Append(buf[r], tty_c[r])
      BY <2>3 DEF Take
    <3> HIDE DEF Take
    <3> QED BY <1>0, <3>1, <3>2, <3>3, TakeLine
  <2>4. ASSUME NEW q \in Readers
        PROVE  /\ tty_pc'[q] = "user" => buf'[q] = << >>
               /\ mode'[q] = "canonical" => LineSoFar(buf'[q], typed', tty_pc'[q] = "test")
    <3>1. CASE q = r
      <4>1. tty_pc'[q] = "test" /\ buf'[q] = Take(r)
        BY <2>2, <3>1 DEF TtyType
      <4> QED BY <2>1, <2>3, <3>1, <4>1
    <3>2. CASE q # r
      <4>1. tty_pc'[q] = tty_pc[q] /\ buf'[q] = buf[q]
        BY <2>2, <3>2 DEF TtyType
      <4> QED BY <2>1, <4>1 DEF Typing
    <3> QED BY <3>1, <3>2
  <2> QED BY <2>4 DEF Typing
<1>11. CASE UNCHANGED tty_vars
  BY <1>11 DEF tty_vars, Typing
<1>12. CASE runaway
  BY <1>11, <1>12 DEF runaway
<1> QED
  BY <1>1, <1>2, <1>6, <1>7, <1>8, <1>9, <1>10, <1>11, <1>12 DEF TtyNext, tty_resume

----------------------------------------------------------------------------
\* Exact is kept while nobody enters or leaves pop_raw_byte.
LEMMA ExactKept ==
  ASSUME Exact, UNCHANGED <<stdin_buffer, stdin_len, typed, popped, tty_torn, tty_c, tty_i, tty_tmp>>,
         \A q \in Readers :
            \/ tty_pc'[q] = tty_pc[q]
            \/ tty_pc[q] \notin Pop /\ tty_pc'[q] \notin Pop
  PROVE  Exact'
<1>1. OneInPop' => OneInPop
  BY DEF OneInPop
<1>2. Between' => Between
  BY DEF Between, Pop
<1>3. \A q \in Readers : tty_pc'[q] \in Pop => tty_pc'[q] = tty_pc[q]
  OBVIOUS
<1> SUFFICES ASSUME ~ tty_torn', OneInPop'
             PROVE  Exact'
  BY DEF Exact
<1> QED BY <1>1, <1>2, <1>3 DEF Exact, Pop

\* A key press appends behind what the shift still has to move.
LEMMA KeyExact ==
  ASSUME TtyType, Exact, NEW key \in Keys, process_scancode(key)
  PROVE  Exact'
<1>1. PICK k \in Nat :
          /\ stdin_len + k <= TTY_SIZE
          /\ stdin_len' = stdin_len + k
          /\ stdin_buffer' = [j \in 1 .. TTY_SIZE |->
                                IF stdin_len < j /\ j <= stdin_len + k
                                  THEN Len(typed) + (j - stdin_len) ELSE stdin_buffer[j]]
          /\ Len(typed') = Len(typed) + k
          /\ tty_torn' = (tty_torn \/ (k > 0 /\ \E r \in Readers : tty_pc[r] \in {"load", "store"}))
  BY KeyStored
<1>2. UNCHANGED <<tty_pc, tty_c, tty_i, tty_tmp, popped>>
  BY DEF process_scancode, locals
<1>3. Len(popped) \in Nat /\ Len(typed) \in Nat /\ stdin_len \in Nat /\ TTY_SIZE \in Nat
  BY TtyAssumption DEF TtyType
<1> SUFFICES ASSUME ~ tty_torn', OneInPop' PROVE Exact'
  BY DEF Exact
<1>4. ~ tty_torn /\ OneInPop
  BY <1>1, <1>2 DEF OneInPop
<1>5. k = 0 \/ \A r \in Readers : tty_pc[r] \notin {"load", "store"}
  <2>1. ~ (k > 0 /\ \E r \in Readers : tty_pc[r] \in {"load", "store"})
    BY <1>1, Zenon
  <2> QED BY <2>1
<1>6. Len(popped) + stdin_len = Len(typed) /\ \A j \in 1 .. Len(popped) : popped[j] = j
  BY <1>4 DEF Exact
<1>7. ASSUME NEW at \in Nat, at <= stdin_len \/ at = 1,
             Shifted(stdin_buffer, stdin_len, Len(popped), at)
      PROVE  Shifted(stdin_buffer', stdin_len', Len(popped'), at)
  <2>1. ASSUME NEW j \in 1 .. stdin_len'
        PROVE  stdin_buffer'[j] = IF j < at THEN Len(popped) + j + 1 ELSE Len(popped) + j
    <3>1. stdin_buffer'[j] = IF stdin_len < j /\ j <= stdin_len + k
                               THEN Len(typed) + (j - stdin_len) ELSE stdin_buffer[j]
      BY <1>1, <1>3
    <3>2. CASE j <= stdin_len
      BY <1>3, <1>7, <3>1, <3>2 DEF Shifted
    <3>3. CASE stdin_len < j
      BY <1>1, <1>3, <1>6, <1>7, <3>1, <3>3, SMTT(20)
    <3> QED BY <1>1, <1>3, <3>2, <3>3
  <2> QED BY <1>2, <2>1 DEF Shifted
<1>8. Between' => Shifted(stdin_buffer', stdin_len', Len(popped'), 1)
  BY <1>2, <1>4, <1>7 DEF Exact, Between
<1>9. ASSUME NEW r \in Readers
      PROVE  /\ tty_pc'[r] \in Pop => stdin_len' >= 1
             /\ tty_pc'[r] = "take" => Shifted(stdin_buffer', stdin_len', Len(popped'), 1)
             /\ tty_pc'[r] \in {"shift", "load", "store"} =>
                  /\ tty_c'[r] = Len(popped') + 1
                  /\ tty_i'[r] >= 1 /\ tty_i'[r] <= stdin_len'
                  /\ Shifted(stdin_buffer', stdin_len', Len(popped'), tty_i'[r])
             /\ tty_pc'[r] \in {"load", "store"} => tty_i'[r] = stdin_len'
             /\ tty_pc'[r] = "store" => tty_tmp'[r] = stdin_len'
  <2>1. tty_i[r] \in Nat
    BY DEF TtyType
  <2>2. tty_pc[r] \in Pop => stdin_len' >= 1
    BY <1>1, <1>3, <1>4, SMTT(20) DEF Exact
  <2>3. tty_pc[r] = "take" => Shifted(stdin_buffer', stdin_len', Len(popped'), 1)
    BY <1>4, <1>7 DEF Exact
  <2>4. ASSUME tty_pc[r] \in {"shift", "load", "store"}
        PROVE  /\ tty_c[r] = Len(popped) + 1
               /\ tty_i[r] >= 1 /\ tty_i[r] <= stdin_len'
               /\ Shifted(stdin_buffer', stdin_len', Len(popped'), tty_i[r])
    <3>1. /\ tty_c[r] = Len(popped) + 1 /\ tty_i[r] >= 1 /\ tty_i[r] <= stdin_len
          /\ Shifted(stdin_buffer, stdin_len, Len(popped), tty_i[r])
      BY <1>4, <2>4 DEF Exact
    <3> QED BY <1>1, <1>3, <1>7, <2>1, <3>1
  <2>5. ASSUME tty_pc[r] \in {"load", "store"}
        PROVE  tty_i[r] = stdin_len' /\ (tty_pc[r] = "store" => tty_tmp[r] = stdin_len')
    <3>1. stdin_len' = stdin_len
      BY <1>1, <1>3, <1>5, <2>5
    <3> QED BY <1>4, <2>5, <3>1 DEF Exact
  <2> QED BY <1>2, <2>2, <2>3, <2>4, <2>5
<1>10. Len(popped') + stdin_len' = Len(typed') /\ \A j \in 1 .. Len(popped') : popped'[j] = j
  BY <1>1, <1>2, <1>3, <1>6
<1> QED BY <1>8, <1>9, <1>10, Zenon DEF Exact

\* What Exact says of one reader inside pop_raw_byte.
PopExact(place, b, cnt, p, c, at, tmp) ==
    /\ place \in Pop => cnt >= 1
    /\ place = "take" => Shifted(b, cnt, p, 1)
    /\ place \in {"shift", "load", "store"} =>
         c = p + 1 /\ at >= 1 /\ at <= cnt /\ Shifted(b, cnt, p, at)
    /\ place \in {"load", "store"} => at = cnt
    /\ place = "store" => tmp = cnt

\* The only reader inside pop_raw_byte makes a step that stays inside.
LEMMA PopInside ==
  ASSUME TtyType, Exact, NEW r \in Readers, UNCHANGED <<stdin_len, typed, popped, tty_torn>>,
         \A q \in Readers \ {r} : tty_pc'[q] = tty_pc[q],
         tty_pc'[r] \in Pop,
         ~ tty_torn /\ OneInPop /\ OneInPop' =>
             PopExact(tty_pc'[r], stdin_buffer', stdin_len, Len(popped), tty_c'[r], tty_i'[r], tty_tmp'[r])
  PROVE  Exact'
<1> SUFFICES ASSUME ~ tty_torn', OneInPop' PROVE Exact'
  BY DEF Exact
<1>1. \A q \in Readers : q # r => tty_pc'[q] \notin Pop
  BY DEF OneInPop
<1>2. ~ tty_torn /\ OneInPop
  BY <1>1 DEF OneInPop
<1>3. Len(popped') + stdin_len' = Len(typed') /\ \A j \in 1 .. Len(popped') : popped'[j] = j
  BY <1>2 DEF Exact
<1>4. ~ Between'
  BY DEF Between, Pop
<1>5. PopExact(tty_pc'[r], stdin_buffer', stdin_len', Len(popped'), tty_c'[r], tty_i'[r], tty_tmp'[r])
  BY <1>2
<1>6. ASSUME NEW q \in Readers
      PROVE  PopExact(tty_pc'[q], stdin_buffer', stdin_len', Len(popped'), tty_c'[q], tty_i'[q], tty_tmp'[q])
  <2>1. CASE q = r
    BY <1>5, <2>1
  <2>2. CASE q # r
    BY <1>1, <2>2 DEF PopExact, Pop
  <2> QED BY <2>1, <2>2
<1>7. Exact' = (~ tty_torn' /\ OneInPop' =>
          /\ \A k \in 1 .. Len(popped') : popped'[k] = k
          /\ Len(popped') + stdin_len' = Len(typed')
          /\ Between' => Shifted(stdin_buffer', stdin_len', Len(popped'), 1)
          /\ \A q \in Readers :
               PopExact(tty_pc'[q], stdin_buffer', stdin_len', Len(popped'), tty_c'[q], tty_i'[q], tty_tmp'[q]))
  BY Zenon DEF Exact, PopExact
<1> QED BY <1>3, <1>4, <1>6, <1>7

\* The step that takes a byte out: nobody else was inside, so the byte is the
\* next one, the bytes behind it have all moved, and the length was not zero.
LEMMA StoreExact ==
  ASSUME TtyType, Exact, NEW r \in Readers, store(r)
  PROVE  Exact' /\ NeverUnderflows'
<1>1. /\ tty_pc[r] = "store"
      /\ wild' = (tty_tmp[r] = 0)
      /\ stdin_len' = IF tty_tmp[r] = 0 THEN 0 ELSE tty_tmp[r] - 1
      /\ popped' = Append(popped, tty_c[r])
      /\ tty_pc' = [tty_pc EXCEPT ![r] = "test"]
      /\ UNCHANGED <<stdin_buffer, typed>>
  BY DEF store, Goto
<1>2. tty_torn' = (tty_torn \/ \E q \in Readers \ {r} : tty_pc[q] \in Pop)
  BY DEF store, Pop
<1> SUFFICES ASSUME ~ tty_torn' PROVE Exact' /\ ~ wild'
  BY DEF Exact, NeverUnderflows
<1>3. ~ tty_torn /\ \A q \in Readers \ {r} : tty_pc[q] \notin Pop
  BY <1>2, Zenon
<1>4. OneInPop
  BY <1>3 DEF OneInPop
<1>5. /\ \A k \in 1 .. Len(popped) : popped[k] = k
      /\ Len(popped) + stdin_len = Len(typed)
      /\ stdin_len >= 1 /\ tty_c[r] = Len(popped) + 1
      /\ tty_i[r] = stdin_len /\ tty_tmp[r] = stdin_len
      /\ Shifted(stdin_buffer, stdin_len, Len(popped), stdin_len)
  BY <1>1, <1>3, <1>4 DEF Exact, Pop
<1>6. Len(popped) \in Nat /\ stdin_len \in Nat /\ popped \in Seq(Nat) /\ tty_c[r] \in Nat
  BY DEF TtyType
<1>7. ~ wild'
  <2>1. tty_tmp[r] # 0
    BY <1>5, <1>6
  <2> QED BY <1>1, <2>1, Zenon
<1>8. Len(popped') = Len(popped) + 1 /\ stdin_len' = stdin_len - 1
  BY <1>1, <1>5, <1>6
<1>9. \A k \in 1 .. Len(popped') : popped'[k] = k
  BY <1>1, <1>5, <1>6, <1>8
<1>10. Shifted(stdin_buffer', stdin_len', Len(popped'), 1)
  BY <1>1, <1>5, <1>6, <1>8 DEF Shifted
<1>11. \A q \in Readers : tty_pc'[q] \notin Pop
  BY <1>1, <1>3 DEF TtyType, Pop
<1>12. Len(popped') + stdin_len' = Len(typed')
  BY <1>1, <1>5, <1>6, <1>8, SMTT(20)
<1>13. \A q \in Readers :
          /\ tty_pc'[q] # "take" /\ tty_pc'[q] # "store"
          /\ tty_pc'[q] \notin {"shift", "load", "store"}
          /\ tty_pc'[q] \notin {"load", "store"}
  BY <1>11 DEF Pop
<1> QED BY <1>7, <1>9, <1>10, <1>11, <1>12, <1>13 DEF Exact

\* Every action keeps Exact.
LEMMA ExactStep ==
  TtyType /\ Written /\ Exact /\ NeverUnderflows /\ [TtyNext]_tty_vars => Exact' /\ NeverUnderflows'
<1> SUFFICES ASSUME TtyType, Written, Exact, NeverUnderflows, [TtyNext]_tty_vars
             PROVE  Exact' /\ NeverUnderflows'
  OBVIOUS
<1>0. stdin_len \in Nat /\ Len(popped) \in Nat
  BY DEF TtyType
<1>1. ASSUME NEW key \in Keys, process_scancode(key) PROVE Exact' /\ NeverUnderflows'
  <2>1. tty_torn => tty_torn'
    BY <1>1, Zenon DEF process_scancode
  <2>2. wild' = wild
    BY <1>1 DEF process_scancode
  <2> QED BY <1>1, <2>1, <2>2, KeyExact DEF NeverUnderflows
<1>2. ASSUME UNCHANGED <<tty_torn, wild>> PROVE NeverUnderflows'
  BY <1>2 DEF NeverUnderflows
<1>3. ASSUME NEW r \in Readers, NEW place, place \notin Pop, tty_pc[r] \notin Pop, Goto(r, place),
             UNCHANGED <<stdin_buffer, stdin_len, typed, locals, popped, tty_torn, wild>>
      PROVE  Exact' /\ NeverUnderflows'
  <2>1. \A q \in Readers :
            \/ tty_pc'[q] = tty_pc[q]
            \/ tty_pc[q] \notin Pop /\ tty_pc'[q] \notin Pop
    BY <1>3 DEF Goto, TtyType
  <2> QED BY <1>2, <1>3, <2>1, ExactKept DEF locals
<1>4. ASSUME NEW r \in Readers, NEW l \in TtyLens, NEW md \in {"canonical", "raw"},
             NEW vmin \in 0 .. 1, read(r, l, md, vmin)
      PROVE  Exact' /\ NeverUnderflows'
  BY <1>3, <1>4 DEF read, Pop
<1>5. ASSUME NEW r \in Readers, tty_wake(r) \/ first(r) PROVE Exact' /\ NeverUnderflows'
  BY <1>3, <1>5 DEF tty_wake, first, Wait, Pop
<1>6. ASSUME NEW r \in Readers, tty_test(r) PROVE Exact' /\ NeverUnderflows'
  <2>1. /\ tty_pc[r] = "test"
        /\ UNCHANGED <<stdin_buffer, stdin_len, typed, locals, popped, tty_torn, wild>>
    BY <1>6 DEF tty_test
  <2>2. CASE Goto(r, "user") \/ Goto(r, "hlt")
    BY <1>3, <2>1, <2>2 DEF Pop
  <2>3. CASE stdin_len > 0 /\ Goto(r, "take")
    <3>1. tty_pc'[r] = "take" /\ \A q \in Readers \ {r} : tty_pc'[q] = tty_pc[q]
      BY <2>3 DEF Goto, TtyType
    <3>2. ASSUME ~ tty_torn, OneInPop, OneInPop'
          PROVE  PopExact(tty_pc'[r], stdin_buffer', stdin_len, Len(popped), tty_c'[r], tty_i'[r], tty_tmp'[r])
      <4>1. Between
        BY <2>1, <3>1, <3>2 DEF OneInPop, Between, Pop
      <4>2. Shifted(stdin_buffer, stdin_len, Len(popped), 1)
        BY <3>2, <4>1 DEF Exact
      <4> QED BY <1>0, <2>1, <2>3, <3>1, <4>2, SMTT(20) DEF PopExact
    <3>3. Exact'
      BY <2>1, <3>1, <3>2, PopInside DEF Pop
    <3> QED BY <1>2, <2>1, <3>3
  <2> QED BY <1>6, <2>2, <2>3 DEF tty_test, Return, Wait
<1>7. ASSUME NEW r \in Readers, take(r) PROVE Exact' /\ NeverUnderflows'
  <2>1. /\ tty_pc[r] = "take" /\ tty_pc'[r] = "shift" /\ tty_c'[r] = stdin_buffer[1] /\ tty_i'[r] = 1
        /\ UNCHANGED <<stdin_buffer, stdin_len, typed, popped, tty_torn, wild>>
    BY <1>7 DEF take, Goto, TtyType
  <2>2. \A q \in Readers \ {r} : tty_pc'[q] = tty_pc[q]
    BY <1>7 DEF take, Goto, TtyType
  <2>3. ASSUME ~ tty_torn, OneInPop
        PROVE  PopExact(tty_pc'[r], stdin_buffer', stdin_len, Len(popped), tty_c'[r], tty_i'[r], tty_tmp'[r])
    <3>1. stdin_len >= 1 /\ Shifted(stdin_buffer, stdin_len, Len(popped), 1)
      BY <2>1, <2>3 DEF Exact, Pop
    <3>2. stdin_buffer[1] = Len(popped) + 1
      BY <1>0, <3>1 DEF Shifted
    <3>3. PopExact("shift", stdin_buffer, stdin_len, Len(popped), stdin_buffer[1], 1, tty_tmp'[r])
      BY <1>0, <3>1, <3>2 DEF PopExact
    <3> QED BY <2>1, <3>3
  <2> QED BY <1>2, <2>1, <2>2, <2>3, PopInside DEF Pop
<1>8. ASSUME NEW r \in Readers, shift(r) PROVE Exact' /\ NeverUnderflows'
  <2>1. tty_pc[r] = "shift" /\ UNCHANGED <<stdin_len, typed, tty_c, tty_tmp, popped, tty_torn, wild>>
    BY <1>8 DEF shift
  <2>2. tty_i[r] \in Nat /\ stdin_len <= TTY_SIZE /\ TTY_SIZE \in Nat
    BY TtyAssumption DEF TtyType
  <2>3. ASSUME ~ tty_torn, OneInPop
        PROVE  /\ stdin_len >= 1 /\ tty_c[r] = Len(popped) + 1 /\ tty_i[r] >= 1 /\ tty_i[r] <= stdin_len
               /\ Shifted(stdin_buffer, stdin_len, Len(popped), tty_i[r])
    BY <2>1, <2>3 DEF Exact, Pop
  <2>4. CASE Moves(r)
    <3>1. /\ stdin_buffer' = [stdin_buffer EXCEPT ![tty_i[r]] = stdin_buffer[tty_i[r] + 1]]
          /\ tty_i'[r] = tty_i[r] + 1 /\ tty_pc' = tty_pc
      BY <1>8, <2>4 DEF shift, TtyType
    <3>2. ASSUME ~ tty_torn, OneInPop
          PROVE  PopExact(tty_pc'[r], stdin_buffer', stdin_len, Len(popped), tty_c'[r], tty_i'[r], tty_tmp'[r])
      <4>1. tty_i[r] + 1 <= stdin_len
        BY <1>0, <2>2, <2>4 DEF Moves
      <4>2. ASSUME NEW j \in 1 .. stdin_len
            PROVE  stdin_buffer'[j] = IF j < tty_i[r] + 1 THEN Len(popped) + j + 1 ELSE Len(popped) + j
        <5>1. stdin_buffer[j] = IF j < tty_i[r] THEN Len(popped) + j + 1 ELSE Len(popped) + j
          BY <2>3, <3>2 DEF Shifted
        <5>2. stdin_buffer[tty_i[r] + 1] = Len(popped) + (tty_i[r] + 1)
          BY <1>0, <2>2, <2>3, <3>2, <4>1 DEF Shifted
        <5>3. stdin_buffer'[j] = IF j = tty_i[r] THEN stdin_buffer[tty_i[r] + 1] ELSE stdin_buffer[j]
          BY <1>0, <2>2, <3>1 DEF TtyType
        <5> QED BY <1>0, <2>2, <5>1, <5>2, <5>3
      <4>3. Shifted(stdin_buffer', stdin_len, Len(popped), tty_i'[r])
        BY <3>1, <4>2 DEF Shifted
      <4> QED BY <1>0, <2>1, <2>2, <2>3, <3>1, <3>2, <4>1, <4>3 DEF PopExact
    <3> QED BY <1>2, <2>1, <3>1, <3>2, PopInside DEF Pop
  <2>5. CASE ~ Moves(r)
    <3>1. tty_pc'[r] = "load" /\ UNCHANGED <<stdin_buffer, tty_i>>
      BY <1>8, <2>5 DEF shift, Goto, TtyType
    <3>2. \A q \in Readers \ {r} : tty_pc'[q] = tty_pc[q]
      BY <1>8, <2>5 DEF shift, Goto, TtyType
    <3>3. ASSUME ~ tty_torn, OneInPop
          PROVE  PopExact(tty_pc'[r], stdin_buffer', stdin_len, Len(popped), tty_c'[r], tty_i'[r], tty_tmp'[r])
      <4>1. tty_i[r] = stdin_len
        BY <1>0, <2>2, <2>3, <2>5, <3>3 DEF Moves
      <4> QED BY <2>1, <2>3, <3>1, <3>3, <4>1 DEF PopExact
    <3> QED BY <1>2, <2>1, <3>1, <3>2, <3>3, PopInside DEF Pop
  <2> QED BY <2>4, <2>5
<1>9. ASSUME NEW r \in Readers, load(r) PROVE Exact' /\ NeverUnderflows'
  <2>1. /\ tty_pc[r] = "load" /\ tty_pc'[r] = "store" /\ tty_tmp'[r] = stdin_len
        /\ UNCHANGED <<stdin_buffer, stdin_len, typed, tty_c, tty_i, popped, tty_torn, wild>>
    BY <1>9 DEF load, Goto, TtyType
  <2>2. \A q \in Readers \ {r} : tty_pc'[q] = tty_pc[q]
    BY <1>9 DEF load, Goto, TtyType
  <2>3. ASSUME ~ tty_torn, OneInPop
        PROVE  PopExact(tty_pc'[r], stdin_buffer', stdin_len, Len(popped), tty_c'[r], tty_i'[r], tty_tmp'[r])
    <3>1. /\ stdin_len >= 1 /\ tty_c[r] = Len(popped) + 1
          /\ tty_i[r] >= 1 /\ tty_i[r] <= stdin_len /\ tty_i[r] = stdin_len
          /\ Shifted(stdin_buffer, stdin_len, Len(popped), tty_i[r])
      BY <2>1, <2>3 DEF Exact, Pop
    <3> QED BY <2>1, <3>1 DEF PopExact
  <2> QED BY <1>2, <2>1, <2>2, <2>3, PopInside DEF Pop
<1>10. ASSUME NEW r \in Readers, store(r) PROVE Exact' /\ NeverUnderflows'
  BY <1>10, StoreExact
<1>11. CASE UNCHANGED tty_vars
  BY <1>2, <1>11, ExactKept DEF tty_vars
<1>12. CASE runaway
  BY <1>11, <1>12 DEF runaway
<1> QED
  BY <1>1, <1>4, <1>5, <1>6, <1>7, <1>8, <1>9, <1>10, <1>11, <1>12 DEF TtyNext, tty_resume

----------------------------------------------------------------------------
\* The invariant of the terminal's input holds when nothing has been typed.
LEMMA TtyInitInv == TtyInit => TtyInv
<1> SUFFICES ASSUME TtyInit PROVE TtyInv
  OBVIOUS
<1>1. TtyType
  <2>1. typed \in Seq(Kinds) /\ popped \in Seq(Nat)
    BY DEF TtyInit
  <2>6. tty_torn \in BOOLEAN /\ wild \in BOOLEAN
    BY Zenon DEF TtyInit
  <2>2. tty_pc \in [Readers -> Places] /\ mode \in [Readers -> {"canonical", "raw"}]
    BY DEF TtyInit, Places
  <2>3. << >> \in Seq(Nat)
    OBVIOUS
  <2>4. buf \in [Readers -> Seq(Nat)]
    BY <2>3, Zenon DEF TtyInit
  <2>5. /\ stdin_buffer \in [1 .. TTY_SIZE -> Nat] /\ stdin_len \in 0 .. TTY_SIZE
        /\ tty_len \in [Readers -> Nat] /\ tty_c \in [Readers -> Nat] /\ tty_i \in [Readers -> Nat]
        /\ tty_tmp \in [Readers -> 0 .. TTY_SIZE]
    BY TtyAssumption DEF TtyInit
  <2> QED BY <2>1, <2>2, <2>4, <2>5, <2>6 DEF TtyType
<1>2. Written
  BY TtyAssumption DEF TtyInit, Written, Pop
<1>3. Typing
  BY DEF TtyInit, Typing
<1>4. Exact
  BY DEF TtyInit, Exact, Shifted, Pop
<1>5. NeverUnderflows
  BY DEF TtyInit, NeverUnderflows
<1> QED BY <1>1, <1>2, <1>3, <1>4, <1>5 DEF TtyInv

\* The invariant holds in every state, however key presses and readers that
\* run with interrupts enabled come between one another's accesses.
THEOREM TtyInvariant == TtySpec => []TtyInv
<1>1. TtyInv /\ [TtyNext]_tty_vars => TtyInv'
  BY TypeStep, WrittenStep, TypingStep, ExactStep DEF TtyInv
<1> QED BY <1>1, TtyInitInv, PTL DEF TtySpec

\* Nothing that is typed is lost, doubled or reordered by pop_raw_byte, and
\* stdin_len never goes below zero, as long as no key press fell between the
\* end of the shift and the store of the length, and no two readers were
\* inside at once.
THEOREM TypedIsRead == TtySpec => []TtyExact
<1>1. TtyInv => TtyExact
  <2> SUFFICES ASSUME TtyInv, ~ tty_torn, Between
               PROVE  popped \o SubSeq(stdin_buffer, 1, stdin_len) = [k \in 1 .. Len(typed) |-> k]
    BY DEF TtyInv, TtyExact, TtyLossless
  <2>1. OneInPop
    BY DEF OneInPop, Between, Pop
  <2>2. /\ \A k \in 1 .. Len(popped) : popped[k] = k
        /\ Len(popped) + stdin_len = Len(typed)
        /\ \A j \in 1 .. stdin_len : stdin_buffer[j] = IF j < 1 THEN Len(popped) + j + 1 ELSE Len(popped) + j
    BY <2>1 DEF TtyInv, Exact, Shifted
  <2>3. /\ popped \in Seq(Nat) /\ Len(popped) \in Nat /\ stdin_len \in Nat /\ Len(typed) \in Nat
        /\ \A j \in 1 .. stdin_len : stdin_buffer[j] \in Nat
    BY TtyAssumption DEF TtyInv, TtyType
  <2> DEFINE s == SubSeq(stdin_buffer, 1, stdin_len)
  <2>4. s \in Seq(Nat) /\ Len(s) = stdin_len /\ \A j \in 1 .. stdin_len : s[j] = stdin_buffer[j]
    BY <2>3, SubSeqProperties
  <2> HIDE DEF s
  <2> DEFINE w == popped \o s
  <2>5. /\ w \in Seq(Nat) /\ Len(w) = Len(popped) + stdin_len
        /\ \A k \in 1 .. Len(popped) + stdin_len :
              w[k] = IF k <= Len(popped) THEN popped[k] ELSE s[k - Len(popped)]
    <3>1. /\ popped \o s \in Seq(Nat)
          /\ Len(popped \o s) = Len(popped) + Len(s)
          /\ \A k \in 1 .. Len(popped) + Len(s) :
               (popped \o s)[k] = IF k <= Len(popped) THEN popped[k] ELSE s[k - Len(popped)]
      <4>1. popped \in Seq(Nat) /\ s \in Seq(Nat)
        BY <2>3, <2>4
      <4> QED BY <4>1, ConcatProperties, Zenon
    <3>2. Len(s) = stdin_len
      BY <2>4
    <3> QED BY <3>1, <3>2
  <2> HIDE DEF w
  <2>6. ASSUME NEW k \in 1 .. Len(popped) + stdin_len PROVE w[k] = k
    <3>1. CASE k <= Len(popped)
      <4>1. k \in 1 .. Len(popped)
        BY <2>3, <3>1
      <4>2. w[k] = popped[k]
        BY <2>5, <3>1
      <4> QED BY <2>2, <4>1, <4>2
    <3>2. CASE k > Len(popped)
      <4>1. k - Len(popped) \in 1 .. stdin_len /\ ~ k <= Len(popped)
        BY <2>3, <2>4, <2>5, <3>2
      <4>2. w[k] = stdin_buffer[k - Len(popped)]
        BY <2>4, <2>5, <4>1
      <4> QED BY <2>2, <2>3, <2>4, <2>5, <4>1, <4>2
    <3> QED BY <2>3, <2>5, <3>1, <3>2
  <2>7. w = [k \in 1 .. Len(w) |-> w[k]]
    BY <2>5
  <2>8. w = [k \in 1 .. Len(typed) |-> k]
    BY <2>2, <2>3, <2>4, <2>5, <2>6, <2>7
  <2> QED BY <2>8 DEF w, s
<1> QED BY <1>1, TtyInvariant, PTL

\* A canonical read returns a line or as much of it as fits: the newline comes
\* last and no erase character is left in it, whatever other readers and key
\* presses do meanwhile.
THEOREM ReadsReturnLines == TtySpec => Lines
<1>1. TtyInv /\ [TtyNext]_tty_vars => [LineRead]_tty_vars
  <2> SUFFICES ASSUME TtyInv, TtyNext PROVE LineRead
    OBVIOUS
  <2> SUFFICES ASSUME NEW r \in Readers, mode[r] = "canonical", tty_pc[r] = "test", tty_pc'[r] = "user"
               PROVE  /\ Len(buf[r]) = tty_len[r] \/ typed[buf[r][Len(buf[r])]] = "newline"
                      /\ \A k \in 1 .. Len(buf[r]) : typed[buf[r][k]] # "erase"
                      /\ \A k \in 1 .. Len(buf[r]) - 1 : typed[buf[r][k]] # "newline"
    BY DEF LineRead
  <2>1. \E q \in Readers, place \in Places : Goto(q, place) /\ (place = "user" => tty_test(q))
    <3>0. tty_pc' # tty_pc
      OBVIOUS
    <3>1. ~ (\E key \in Keys : process_scancode(key)) /\ ~ runaway
      BY <3>0, Zenon DEF process_scancode, runaway, tty_vars
    <3>2. ASSUME NEW q \in Readers, shift(q) PROVE Goto(q, "load")
      BY <3>2 DEF shift
    <3>3. ASSUME NEW q \in Readers, tty_test(q) PROVE \E place \in Places : Goto(q, place)
      BY <3>3 DEF tty_test, Return, Wait, Places, Pop
    <3>4. ASSUME NEW q \in Readers,
                 \/ \E l \in TtyLens, md \in {"canonical", "raw"}, vmin \in 0 .. 1 : read(q, l, md, vmin)
                 \/ tty_wake(q) \/ first(q) \/ take(q) \/ load(q) \/ store(q)
          PROVE  \E place \in Places \ {"user"} : Goto(q, place)
      BY <3>4 DEF read, tty_wake, first, take, load, store, Wait, Places, Pop
    <3> QED BY <3>1, <3>2, <3>3, <3>4, SMTT(20) DEF TtyNext, tty_resume, Places, Pop
  <2>2. tty_test(r) /\ Goto(r, "user")
    BY <2>1 DEF Goto, TtyInv, TtyType
  <2>3. Full(r)
    BY <2>2 DEF tty_test, Goto, Wait, TtyInv, TtyType
  <2>4. LineSoFar(buf[r], typed, TRUE)
    BY DEF TtyInv, Typing
  <2>5. Len(buf[r]) \in Nat
    BY DEF TtyInv, TtyType
  <2> QED BY <2>3, <2>4, <2>5 DEF Full, LineSoFar
<1> QED BY <1>1, TtyInvariant, PTL DEF Lines, TtySpec
----------------------------------------------------------------------------
TypeOK ==
    /\ buffer \in [1 .. SIZE -> Nat]
    /\ read_pos \in 0 .. SIZE /\ write_pos \in 0 .. SIZE
    /\ sent \in Nat /\ len \in Nat /\ n \in Nat
    /\ got \in Seq(Nat)
    /\ eof \in BOOLEAN /\ torn \in BOOLEAN
    /\ pc \in {"user", "hlt", "test", "writers", "copy", "drained", "reset_r", "reset_w"}

Numbered ==
    /\ write_pos <= sent
    /\ \A i \in 1 .. write_pos : buffer[i] = sent - write_pos + i

Ordered ==
    /\ pc # "reset_w" => read_pos <= write_pos
    /\ pc = "reset_w" => read_pos = 0
    /\ pc \in {"user", "hlt", "test", "writers"} => read_pos < write_pos \/ write_pos = 0

Behind ==
    pc # "reset_w" =>
        \A i \in 1 .. Len(got) : got[i] <= sent - write_pos + read_pos

OnePlace ==
    ~ torn =>
        /\ \A i \in 1 .. Len(got) : got[i] = i
        /\ Len(got) = IF pc = "reset_w" THEN sent ELSE sent - write_pos + read_pos
        /\ pc \in {"writers", "reset_r"} => read_pos = write_pos

Ended == pc # "user" => ~ eof

IInv == TypeOK /\ Numbered /\ Ordered /\ Behind /\ OnePlace /\ Ended /\ InOrder /\ EndOfFile

USE PipeAssumption

\* Before any write the pipe is empty and nothing was read.
LEMMA InitIInv == ASSUME Init PROVE IInv
<1>1. TypeOK
  <2>1. eof \in BOOLEAN /\ torn \in BOOLEAN
    BY Zenon DEF Init
  <2>2. got \in Seq(Nat)
    BY EmptySeq DEF Init
  <2> QED
    BY <2>1, <2>2 DEF Init, TypeOK
<1>2. DOMAIN got = 1 .. Len(got) /\ Len(got) = 0
  BY DEF Init
<1> QED
  BY <1>1, <1>2 DEF Init, IInv, TypeOK, Numbered, Ordered, Behind, OnePlace, Ended, InOrder, EndOfFile

\* sys_write appends to the numbered bytes and leaves the reader's side alone.
LEMMA WriteKeeps ==
    ASSUME IInv, NEW w, NEW l \in Lens, sys_write(w, l)
    PROVE  IInv'
<1> DEFINE k == SmallerOf(l, SIZE - write_pos)
<1>1. k \in Nat /\ k <= SIZE - write_pos
  BY DEF IInv, TypeOK, SmallerOf
<1>2. /\ buffer' = [i \in 1 .. SIZE |->
                       IF write_pos < i /\ i <= write_pos + k
                         THEN sent + (i - write_pos) ELSE buffer[i]]
      /\ write_pos' = write_pos + k
      /\ sent' = sent + k
      /\ torn' = (torn \/ (k > 0 /\ MidTest))
      /\ writers # {}
      /\ UNCHANGED <<read_pos, writers, pc, len, n, got, eof>>
  BY DEF sys_write
<1> HIDE DEF k
<1>3. TypeOK'
  <2>1. buffer' \in [1 .. SIZE -> Nat]
    BY <1>1, <1>2 DEF IInv, TypeOK
  <2>2. torn' \in BOOLEAN
    BY <1>2, Zenon DEF IInv, TypeOK
  <2> QED
    BY <2>1, <2>2, <1>1, <1>2 DEF IInv, TypeOK
<1>4. Numbered'
  BY <1>1, <1>2 DEF IInv, TypeOK, Numbered
<1>5. Ordered'
  BY <1>1, <1>2 DEF IInv, TypeOK, Ordered
<1>6. Behind' /\ InOrder'
  BY <1>1, <1>2 DEF IInv, TypeOK, Behind, InOrder
<1>7. OnePlace'
  <2> SUFFICES ASSUME ~ torn' PROVE OnePlace'
    BY DEF OnePlace
  <2>1. ~ torn /\ ~ (k > 0 /\ MidTest)
    BY <1>2, Zenon
  <2>2. k = 0 \/ ~ MidTest
    BY <1>1, <2>1
  <2>3. /\ \A i \in 1 .. Len(got) : got[i] = i
        /\ Len(got) = IF pc = "reset_w" THEN sent ELSE sent - write_pos + read_pos
        /\ pc \in {"writers", "reset_r"} => read_pos = write_pos
    BY <2>1, Zenon DEF IInv, OnePlace
  <2>4. /\ Len(got) = IF pc = "reset_w" THEN sent' ELSE sent' - write_pos' + read_pos
        /\ pc \in {"writers", "reset_r"} => read_pos = write_pos'
    BY <2>2, <2>3, <1>1, <1>2 DEF IInv, TypeOK, MidTest
  <2> QED
    BY <2>3, <2>4, <1>2 DEF OnePlace
<1>8. Ended' /\ EndOfFile'
  BY <1>1, <1>2 DEF IInv, TypeOK, Ended, EndOfFile
<1> QED
  BY <1>3, <1>4, <1>5, <1>6, <1>7, <1>8 DEF IInv

\* The first L elements of f are increasing, within 1 .. m and at most top.
Rising(f, L, top, m) ==
    \A i \in 1 .. L : /\ f[i] \in 1 .. m
                      /\ i > 1 => f[i - 1] < f[i]
                      /\ f[i] <= top

\* g is f followed by top + 1, top + 2, ...
Continued(g, f, L, k, top) ==
    /\ \A i \in 1 .. L : g[i] = f[i]
    /\ \A i \in L + 1 .. L + k : g[i] = top + (i - L)

\* s is top + 1, top + 2, ...
Counted(s, top) == \A j \in 1 .. Len(s) : s[j] = top + j

\* A rising run goes on rising.
LEMMA Continues ==
    ASSUME NEW L \in Nat, NEW k \in Nat, NEW top \in Nat, NEW m \in Nat, top + k <= m,
           NEW f, NEW g,
           Rising(f, L, top, m), Continued(g, f, L, k, top)
    PROVE  Rising(g, L + k, top + k, m)
<1> USE DEF Rising, Continued
<1> SUFFICES ASSUME NEW i \in 1 .. L + k
             PROVE  /\ g[i] \in 1 .. m
                    /\ i > 1 => g[i - 1] < g[i]
                    /\ g[i] <= top + k
  OBVIOUS
<1>1. CASE i <= L
  <2>2. i \in 1 .. L
    BY <1>1
  <2>3. g[i] = f[i] /\ f[i] \in 1 .. m /\ f[i] <= top
    BY <2>2
  <2>4. i > 1 => i - 1 \in 1 .. L
    BY <2>2
  <2> QED
    BY <2>2, <2>3, <2>4
<1>2. CASE i = L + 1
  <2>1. i \in L + 1 .. L + k
    BY <1>2
  <2>2. g[i] = top + 1
    BY <1>2, <2>1
  <2>3. i > 1 => i - 1 \in 1 .. L
    BY <1>2
  <2> QED
    BY <2>1, <2>2, <2>3
<1>3. CASE i > L + 1
  <2>1. i \in L + 1 .. L + k /\ i - 1 \in L + 1 .. L + k
    BY <1>3
  <2>2. g[i] = top + (i - L) /\ g[i - 1] = top + (i - 1 - L)
    BY <2>1
  <2> QED
    BY <2>1, <2>2
<1> QED
  BY <1>1, <1>2, <1>3

\* The same of sequences.
LEMMA ConcatRun ==
    ASSUME NEW f \in Seq(Nat), NEW s \in Seq(Nat), NEW top \in Nat, NEW m \in Nat,
           top + Len(s) <= m, Rising(f, Len(f), top, m), Counted(s, top)
    PROVE  /\ f \o s \in Seq(Nat) /\ Len(f \o s) = Len(f) + Len(s)
           /\ Rising(f \o s, Len(f) + Len(s), top + Len(s), m)
           /\ top = Len(f) /\ (\A i \in 1 .. Len(f) : f[i] = i)
                => \A i \in 1 .. Len(f) + Len(s) : (f \o s)[i] = i
<1>1. PICK L \in Nat : L = Len(f)
  BY LenProperties
<1>2. PICK k \in Nat : k = Len(s)
  BY LenProperties
<1>3. PICK g : g = f \o s
  OBVIOUS
<1>4. /\ g \in Seq(Nat) /\ Len(g) = L + k
      /\ \A i \in 1 .. L + k : g[i] = IF i <= L THEN f[i] ELSE s[i - L]
  BY <1>1, <1>2, <1>3, ConcatProperties
<1>5. \A i \in 1 .. L : g[i] = f[i]
  BY <1>4
<1>6. ASSUME NEW i \in L + 1 .. L + k PROVE g[i] = top + (i - L)
  <2>1. i \in 1 .. L + k /\ ~ (i <= L) /\ i - L \in 1 .. k
    OBVIOUS
  <2>2. g[i] = s[i - L]
    BY <2>1, <1>4
  <2> QED
    BY <2>1, <2>2, <1>2 DEF Counted
<1>7. Rising(g, L + k, top + k, m)
  <2>1. top + k <= m /\ Rising(f, L, top, m)
    BY <1>1, <1>2, Zenon
  <2>2. Continued(g, f, L, k, top)
    BY <1>5, <1>6 DEF Continued
  <2> QED
    BY <2>1, <2>2, Continues
<1>8. ASSUME top = L, \A i \in 1 .. L : f[i] = i, NEW i \in 1 .. L + k
      PROVE  g[i] = i
  <2>1. CASE i <= L
    BY <1>5, <1>8, <2>1
  <2>2. CASE i > L
    <3>1. i \in L + 1 .. L + k
      BY <2>2
    <3>2. g[i] = L + (i - L)
      BY <3>1, <1>6, <1>8
    <3> QED
      BY <3>2
  <2> QED
    BY <2>1, <2>2
<1>9. top = L /\ (\A i \in 1 .. L : f[i] = i) => \A i \in 1 .. L + k : g[i] = i
  BY <1>8
<1> QED
  BY <1>1, <1>2, <1>3, <1>4, <1>7, <1>9, Zenon

\* What the reader takes from read_pos on continues what it has.
LEMMA TakeKeeps ==
    ASSUME IInv, pc # "reset_w",
           NEW k \in Nat, read_pos + k <= write_pos,
           NEW g, g = got \o SubSeq(buffer, read_pos + 1, read_pos + k)
    PROVE  /\ g \in Seq(Nat)
           /\ Len(g) = Len(got) + k
           /\ \A i \in 1 .. Len(g) : /\ g[i] \in 1 .. sent
                                     /\ i > 1 => g[i - 1] < g[i]
                                     /\ g[i] <= sent - write_pos + read_pos + k
           /\ ~ torn => \A i \in 1 .. Len(g) : g[i] = i
<1> DEFINE s == SubSeq(buffer, read_pos + 1, read_pos + k)
           top == sent - write_pos + read_pos
           L == Len(got)
<1>1. /\ s \in Seq(Nat) /\ Len(s) = k
      /\ \A j \in 1 .. k : s[j] = top + j
  <2>1. /\ \A i \in read_pos + 1 .. read_pos + k : /\ i \in 1 .. write_pos
                                                   /\ buffer[i] \in Nat
        /\ read_pos + 1 \in Int /\ read_pos + k \in Int
    BY DEF IInv, TypeOK
  <2> DEFINE a == read_pos + 1
             b == read_pos + k
  <2>2. a \in Int /\ b \in Int /\ \A i \in a .. b : buffer[i] \in Nat
    BY <2>1
  <2>3. /\ s \in Seq(Nat) /\ Len(s) = IF a <= b THEN b - a + 1 ELSE 0
        /\ \A j \in 1 .. b - a + 1 : s[j] = buffer[a + j - 1]
    <3> HIDE DEF a, b
    <3>1. /\ SubSeq(buffer, a, b) \in Seq(Nat)
          /\ Len(SubSeq(buffer, a, b)) = IF a <= b THEN b - a + 1 ELSE 0
          /\ \A j \in 1 .. b - a + 1 : SubSeq(buffer, a, b)[j] = buffer[a + j - 1]
      BY <2>2, SubSeqProperties
    <3> QED
      BY <3>1 DEF a, b
  <2> HIDE DEF s
  <2>4. Len(s) = k /\ \A j \in 1 .. k : s[j] = buffer[read_pos + j]
    BY <2>3 DEF IInv, TypeOK
  <2>5. \A j \in 1 .. k : read_pos + j \in 1 .. write_pos
    BY DEF IInv, TypeOK
  <2>6. \A j \in 1 .. k : buffer[read_pos + j] = top + j
    BY <2>5 DEF IInv, TypeOK, Numbered
  <2> QED
    BY <2>3, <2>4, <2>6
<1>2. /\ sent \in Nat /\ L \in Nat /\ top \in Nat /\ top + k <= sent
      /\ \A i \in 1 .. L : got[i] \in 1 .. sent /\ got[i] <= top
      /\ \A i \in 1 .. L : i > 1 => got[i - 1] < got[i]
  <2>1. L \in Nat /\ DOMAIN got = 1 .. L
    BY LenProperties DEF IInv, TypeOK
  <2>2. sent \in Nat /\ top \in Nat /\ top + k <= sent
    BY DEF IInv, TypeOK, Numbered
  <2> QED
    BY <2>1, <2>2 DEF IInv, Behind, InOrder
<1>3. torn \/ (top = L /\ \A i \in 1 .. L : got[i] = i)
  BY DEF IInv, OnePlace
<1>4. got \in Seq(Nat) /\ g = got \o s
  BY DEF IInv, TypeOK
<1> HIDE DEF s, top
<1>5. /\ g \in Seq(Nat) /\ Len(g) = L + k
      /\ Rising(g, L + k, top + k, sent)
      /\ top = L /\ (\A i \in 1 .. L : got[i] = i) => \A i \in 1 .. L + k : g[i] = i
  <2>1. sent \in Nat /\ top \in Nat /\ top + Len(s) <= sent
    BY <1>1, <1>2, Zenon
  <2>2. Rising(got, Len(got), top, sent)
    BY <1>2 DEF Rising
  <2>3. Counted(s, top)
    BY <1>1, Zenon DEF Counted
  <2>4. /\ got \o s \in Seq(Nat) /\ Len(got \o s) = Len(got) + Len(s)
        /\ Rising(got \o s, Len(got) + Len(s), top + Len(s), sent)
        /\ top = Len(got) /\ (\A i \in 1 .. Len(got) : got[i] = i)
             => \A i \in 1 .. Len(got) + Len(s) : (got \o s)[i] = i
    BY <2>1, <2>2, <2>3, <1>1, <1>4, ConcatRun
  <2> QED
    BY <2>4, <1>1, <1>4, Zenon
<1> QED
  BY <1>3, <1>5 DEF top, Rising

\* A read that finds data takes a prefix of it, and resets an emptied pipe.
LEMMA ReadKeeps ==
    ASSUME IInv, NEW l \in Lens, sys_read(l)
    PROVE  IInv'
<1> DEFINE k == SmallerOf(l, write_pos - read_pos)
<1>1. k \in Nat /\ k > 0 /\ read_pos + k <= write_pos
  BY DEF IInv, TypeOK, SmallerOf, sys_read
<1>2. /\ pc = "user"
      /\ got' = got \o SubSeq(buffer, read_pos + 1, read_pos + k)
      /\ read_pos' = IF read_pos + k >= write_pos THEN 0 ELSE read_pos + k
      /\ write_pos' = IF read_pos + k >= write_pos THEN 0 ELSE write_pos
      /\ eof' = FALSE
      /\ UNCHANGED <<buffer, writers, pc, len, n, sent, torn>>
  BY DEF sys_read
<1> HIDE DEF k
<1>3. /\ got' \in Seq(Nat)
      /\ Len(got') = Len(got) + k
      /\ \A i \in 1 .. Len(got') : /\ got'[i] \in 1 .. sent
                                   /\ i > 1 => got'[i - 1] < got'[i]
                                   /\ got'[i] <= sent - write_pos + read_pos + k
      /\ ~ torn => \A i \in 1 .. Len(got') : got'[i] = i
  BY <1>1, <1>2, TakeKeeps
<1>4. TypeOK'
  <2>1. eof' \in BOOLEAN
    BY <1>2, Zenon
  <2> QED
    BY <2>1, <1>1, <1>2, <1>3, SMTT(20) DEF IInv, TypeOK
<1>5. sent - write_pos' + read_pos' = sent - write_pos + read_pos + k
  BY <1>1, <1>2 DEF IInv, TypeOK
<1>6. Numbered' /\ Ordered'
  <2>1. CASE read_pos + k >= write_pos
    BY <1>1, <1>2, <2>1, SMTT(20) DEF IInv, TypeOK, Numbered, Ordered
  <2>2. CASE ~ (read_pos + k >= write_pos)
    BY <1>1, <1>2, <2>2 DEF IInv, TypeOK, Numbered, Ordered
  <2> QED
    BY <2>1, <2>2
<1>7. Behind' /\ InOrder'
  <2>1. DOMAIN got' = 1 .. Len(got')
    BY <1>3, LenProperties
  <2> QED
    BY <2>1, <1>2, <1>3, <1>5 DEF Behind, InOrder
<1>8. OnePlace'
  BY <1>2, <1>3, <1>5 DEF OnePlace, IInv, TypeOK
<1>9. Ended' /\ EndOfFile'
  BY <1>2 DEF Ended, EndOfFile
<1> QED
  BY <1>4, <1>6, <1>7, <1>8, <1>9 DEF IInv

\* One byte copied by a read that has waited.
LEMMA CopyKeeps == ASSUME IInv, copy PROVE IInv'
<1>1. CASE n < len /\ read_pos < write_pos
  <2>1. /\ got' = Append(got, buffer[read_pos + 1])
        /\ read_pos' = read_pos + 1 /\ n' = n + 1 /\ pc = "copy"
        /\ UNCHANGED <<pc, buffer, write_pos, writers, len, sent, eof, torn>>
    BY <1>1 DEF copy
  <2>2. got' = got \o SubSeq(buffer, read_pos + 1, read_pos + 1)
    <3>1. SubSeq(buffer, read_pos + 1, read_pos + 1) = <<buffer[read_pos + 1]>>
      <4> DEFINE a == read_pos + 1
      <4>1. a \in Int /\ buffer[a] \in Nat
        BY <1>1 DEF IInv, TypeOK
      <4> HIDE DEF a
      <4>2. /\ SubSeq(buffer, a, a) \in Seq(Nat)
            /\ Len(SubSeq(buffer, a, a)) = 1
            /\ SubSeq(buffer, a, a)[1] = buffer[a]
        <5>1. \A i \in a .. a : buffer[i] \in Nat
          BY <4>1
        <5>2. a <= a /\ a - a + 1 = 1 /\ a + 1 - 1 = a /\ 1 \in 1 .. a - a + 1
          BY <4>1
        <5> QED
          BY <4>1, <5>1, <5>2, SubSeqProperties
      <4>3. SubSeq(buffer, a, a) = <<buffer[a]>>
        <5>1. <<buffer[a]>> \in Seq(Nat) /\ Len(<<buffer[a]>>) = 1
          BY <4>1
        <5>2. \A i \in 1 .. 1 : SubSeq(buffer, a, a)[i] = <<buffer[a]>>[i]
          BY <4>2
        <5> QED
          BY <4>2, <5>1, <5>2, SeqEqual, Zenon
      <4> QED
        BY <4>3 DEF a
    <3> QED
      BY <2>1, <3>1 DEF IInv, TypeOK
  <2>3. /\ got' \in Seq(Nat)
        /\ Len(got') = Len(got) + 1
        /\ \A i \in 1 .. Len(got') : /\ got'[i] \in 1 .. sent
                                     /\ i > 1 => got'[i - 1] < got'[i]
                                     /\ got'[i] <= sent - write_pos + read_pos + 1
        /\ ~ torn => \A i \in 1 .. Len(got') : got'[i] = i
    <3>1. 1 \in Nat /\ read_pos + 1 <= write_pos
      BY <1>1 DEF IInv, TypeOK
    <3> QED
      BY <2>1, <2>2, <3>1, TakeKeeps
  <2>4. TypeOK' /\ Numbered' /\ Ordered'
    BY <1>1, <2>1, <2>3, SMTT(20) DEF IInv, TypeOK, Numbered, Ordered
  <2>5. Behind' /\ InOrder'
    <3>1. DOMAIN got' = 1 .. Len(got')
      BY <2>3, LenProperties
    <3>2. sent - write_pos' + read_pos' = sent - write_pos + read_pos + 1
      BY <2>1 DEF IInv, TypeOK
    <3> QED
      BY <3>1, <3>2, <2>1, <2>3 DEF Behind, InOrder
  <2>6. OnePlace'
    BY <2>1, <2>3 DEF IInv, TypeOK, OnePlace
  <2>7. Ended' /\ EndOfFile'
    BY <2>1 DEF IInv, Ended, EndOfFile
  <2> QED
    BY <2>4, <2>5, <2>6, <2>7 DEF IInv
<1>2. CASE ~ (n < len /\ read_pos < write_pos)
  <2>1. /\ pc = "copy" /\ pc' = "drained"
        /\ UNCHANGED <<got, read_pos, n, buffer, write_pos, writers, len, sent, eof, torn>>
    BY <1>2 DEF copy
  <2> QED
    BY <2>1 DEF IInv, TypeOK, Numbered, Ordered, Behind, OnePlace, Ended, InOrder, EndOfFile
<1> QED
  BY <1>1, <1>2

\* Every step of the pipe keeps the invariant.
LEMMA NextKeeps == ASSUME IInv, [Next]_vars PROVE IInv'
<1> USE DEF IInv, TypeOK, Numbered, Ordered, Behind, OnePlace, Ended, InOrder, EndOfFile
<1>1. ASSUME NEW w \in Writers, NEW l \in Lens, sys_write(w, l)
      PROVE  IInv'
  BY <1>1, WriteKeeps
<1>2. ASSUME NEW w \in Writers, close_writer(w)
      PROVE  IInv'
  BY <1>2 DEF close_writer
<1>3. ASSUME NEW l \in Lens, sys_read(l)
      PROVE  IInv'
  BY <1>3, ReadKeeps
<1>4. ASSUME NEW l \in Lens, sys_read_empty(l)
      PROVE  IInv'
  <2>1. CASE writers = {}
    <3>1. eof' \in BOOLEAN
      BY <1>4, <2>1, Zenon DEF sys_read_empty
    <3>2. ~ torn => Len(got) = sent
      BY <1>4 DEF sys_read_empty
    <3> QED
      BY <1>4, <2>1, <3>1, <3>2 DEF sys_read_empty
  <2>2. CASE writers # {}
    <3>1. eof' \in BOOLEAN /\ ~ eof'
      BY <1>4, <2>2, Zenon DEF sys_read_empty
    <3>2. pc' = "hlt" /\ len' \in Nat /\ n' = 0 /\ pc = "user"
      BY <1>4, <2>2 DEF sys_read_empty
    <3> QED
      BY <1>4, <2>2, <3>1, <3>2 DEF sys_read_empty
  <2> QED
    BY <2>1, <2>2
<1>5. CASE wake
  BY <1>5 DEF wake
<1>6. CASE test
  BY <1>6, SMTT(20) DEF test
<1>7. CASE test_writers
  <2>1. CASE writers = {}
    <3>1. eof' \in BOOLEAN
      BY <1>7, <2>1, Zenon DEF test_writers
    <3>2. ~ torn => Len(got) = sent
      BY <1>7 DEF test_writers
    <3> QED
      BY <1>7, <2>1, <3>1, <3>2 DEF test_writers
  <2>2. CASE writers # {}
    BY <1>7, <2>2 DEF test_writers
  <2> QED
    BY <2>1, <2>2
<1>8. CASE copy
  BY <1>8, CopyKeeps
<1>9. CASE test_drained
  BY <1>9, SMTT(20) DEF test_drained
<1>10. CASE reset_r
  BY <1>10, SMTT(20) DEF reset_r
<1>11. CASE reset_w
  BY <1>11, SMTT(20) DEF reset_w
<1>12. CASE UNCHANGED vars
  BY <1>12 DEF vars
<1> QED
  BY <1>1, <1>2, <1>3, <1>4, <1>5, <1>6, <1>7, <1>8, <1>9, <1>10, <1>11, <1>12
     DEF Next, resume

\* The invariant gives the four properties.
LEMMA IInvExact == ASSUME IInv PROVE PipeExact
<1>1. Lossless
  <2> SUFFICES ASSUME ~ torn, pc # "reset_w"
               PROVE  got \o Window = [i \in 1 .. sent |-> i]
    BY DEF Lossless
  <2> DEFINE g == got \o Window
  <2>1. read_pos + (write_pos - read_pos) = write_pos /\ write_pos - read_pos \in Nat
    BY DEF IInv, TypeOK, Ordered
  <2>2. /\ g \in Seq(Nat) /\ Len(g) = Len(got) + (write_pos - read_pos)
        /\ \A i \in 1 .. Len(g) : g[i] = i
    <3> DEFINE k == write_pos - read_pos
    <3>1. k \in Nat /\ read_pos + k <= write_pos
          /\ g = got \o SubSeq(buffer, read_pos + 1, read_pos + k)
      BY <2>1 DEF Window, IInv, TypeOK
    <3> HIDE DEF k, g
    <3>2. /\ g \in Seq(Nat) /\ Len(g) = Len(got) + k
          /\ \A i \in 1 .. Len(g) : g[i] = i
      BY <3>1, TakeKeeps
    <3> QED
      BY <3>2 DEF k
  <2>3. Len(g) = sent
    BY <2>2 DEF IInv, TypeOK, OnePlace
  <2> HIDE DEF g
  <2>4. g = [i \in 1 .. sent |-> i]
    BY <2>2, <2>3
  <2> QED
    BY <2>4 DEF g
<1> QED
  BY <1>1 DEF IInv, Ordered, PipeExact, NeverStuckFull

\* The reader of a pipe gets the bytes of sys_write once each and in order,
\* misses none and sees no early end of file unless a write fell between its
\* test and its reset, and leaves no drained pipe full; for every size of
\* Pipe::buffer, every set of writers and all lengths.
THEOREM PipeCorrect == Spec => []PipeExact
<1>1. Init => IInv
  BY InitIInv
<1>2. IInv /\ [Next]_vars => IInv'
  BY NextKeeps
<1>3. IInv => PipeExact
  BY IInvExact
<1> QED
  BY <1>1, <1>2, <1>3, PTL DEF Spec
=============================================================================
