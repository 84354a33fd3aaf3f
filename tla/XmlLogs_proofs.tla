-------------------------- MODULE XmlLogs_proofs ---------------------------
(***************************************************************************)
(* Proofs about XmlLogs, for every set of files, every pair of default     *)
(* paths (one path for both logs included) and every bound.                *)
(***************************************************************************)
EXTENDS XmlLogs, SequenceTheorems, TLAPS

(***************************************************************************)
(* Suffixes.                                                               *)
(***************************************************************************)
LEMMA SuffixIs ==
  ASSUME NEW S, NEW d \in Seq(S), NEW f \in Seq(S)
  PROVE  IsSuffix(d, f) <=>
           Len(d) <= Len(f) /\ \A k \in 1 .. Len(d) : f[Len(f) - Len(d) + k] = d[k]
<1> DEFINE m == Len(d)
           n == Len(f)
<1>1. m \in Nat /\ n \in Nat
  BY LenProperties
<1>2. Reverse(d) = [i \in 1 .. m |-> d[m - i + 1]] /\ Reverse(f) = [i \in 1 .. n |-> f[n - i + 1]]
  BY DEF Reverse
<1>3. Len(Reverse(d)) = m /\ Len(Reverse(f)) = n
  <2> HIDE DEF m, n
  <2> QED BY <1>1, <1>2
<1>4. ASSUME m <= n
      PROVE  IsSuffix(d, f) <=> \A i \in 1 .. m : d[m - i + 1] = f[n - i + 1]
  <2>1. SubSeq(Reverse(d), 1, m) = [i \in 1 .. m |-> d[m - i + 1]]
    <3> HIDE DEF m, n
    <3> QED BY <1>1, <1>2
  <2>2. SubSeq(Reverse(f), 1, m) = [i \in 1 .. m |-> f[n - i + 1]]
    <3> HIDE DEF m, n
    <3> QED BY <1>1, <1>2, <1>4
  <2>3. IsSuffix(d, f) <=>
          [i \in 1 .. m |-> d[m - i + 1]] = [i \in 1 .. m |-> f[n - i + 1]]
    BY <1>3, <1>4, <2>1, <2>2 DEF IsSuffix, IsPrefix
  <2> HIDE DEF m, n
  <2> QED BY <2>3
<1>5. ASSUME m <= n
      PROVE  (\A i \in 1 .. m : d[m - i + 1] = f[n - i + 1]) <=>
             (\A k \in 1 .. m : f[n - m + k] = d[k])
  <2> HIDE DEF m, n
  <2>1. ASSUME \A i \in 1 .. m : d[m - i + 1] = f[n - i + 1], NEW k \in 1 .. m
        PROVE  f[n - m + k] = d[k]
    <3> DEFINE i == m - k + 1
    <3>1. i \in 1 .. m /\ m - i + 1 = k /\ n - i + 1 = n - m + k
      BY <1>1
    <3> QED BY <2>1, <3>1
  <2>2. ASSUME \A k \in 1 .. m : f[n - m + k] = d[k], NEW i \in 1 .. m
        PROVE  d[m - i + 1] = f[n - i + 1]
    <3> DEFINE k == m - i + 1
    <3>1. k \in 1 .. m /\ n - m + k = n - i + 1
      BY <1>1
    <3> QED BY <2>2, <3>1
  <2> QED BY <2>1, <2>2
<1>6. IsSuffix(d, f) => m <= n
  BY <1>3 DEF IsSuffix, IsPrefix
<1> QED BY <1>4, <1>5, <1>6

\* Appending the same text to both keeps a suffix one.
LEMMA SuffixGrows ==
  ASSUME NEW S, NEW d \in Seq(S), NEW f \in Seq(S), NEW text \in Seq(S), IsSuffix(d, f)
  PROVE  IsSuffix(d \o text, f \o text)
<1> DEFINE g == f \o text
           e == d \o text
<1>1. /\ g \in Seq(S) /\ Len(g) = Len(f) + Len(text)
      /\ e \in Seq(S) /\ Len(e) = Len(d) + Len(text)
  BY ConcatProperties
<1>2. Len(d) <= Len(f) /\ \A k \in 1 .. Len(d) : f[Len(f) - Len(d) + k] = d[k]
  BY SuffixIs
<1>3. Len(d) \in Nat /\ Len(f) \in Nat /\ Len(text) \in Nat
  BY LenProperties
<1>4. ASSUME NEW k \in 1 .. Len(e) PROVE g[Len(g) - Len(e) + k] = e[k]
  <2>1. Len(g) - Len(e) + k = Len(f) - Len(d) + k /\ k \in Nat
    BY <1>1, <1>3
  <2>2. CASE k <= Len(d)
    <3>1. e[k] = d[k] /\ g[Len(f) - Len(d) + k] = f[Len(f) - Len(d) + k]
      BY <1>1, <1>2, <1>3, <2>1, <2>2
    <3> QED BY <1>2, <1>3, <2>1, <2>2, <3>1
  <2>3. CASE k > Len(d)
    <3>1. e[k] = text[k - Len(d)]
      BY <1>1, <1>3, <2>1, <2>3
    <3>2. g[Len(f) - Len(d) + k] = text[k - Len(d)]
      BY <1>1, <1>2, <1>3, <2>1, <2>3
    <3> QED BY <2>1, <3>1, <3>2
  <2>4. k <= Len(d) \/ k > Len(d)
    BY <1>3, <2>1
  <2> HIDE DEF e, g
  <2> QED BY <2>2, <2>3, <2>4
<1>5. Len(e) <= Len(g)
  BY <1>1, <1>2, <1>3
<1> QED
  <2> HIDE DEF e, g
  <2>1. IsSuffix(e, g)
    BY <1>1, <1>4, <1>5, SuffixIs
  <2> QED BY <2>1 DEF e, g

\* What is written last is a suffix.
LEMMA LastIsSuffix ==
  ASSUME NEW S, NEW text \in Seq(S), NEW f \in Seq(S)
  PROVE  IsSuffix(text, f \o text)
<1>1. <<>> \in Seq(S) /\ IsSuffix(<<>>, f)
  <2> DEFINE none == <<>>
  <2>1. none \in Seq(S) /\ Len(none) = 0
    OBVIOUS
  <2>2. Len(none) <= Len(f) /\ \A k \in 1 .. Len(none) : f[Len(f) - Len(none) + k] = none[k]
    BY <2>1, LenProperties
  <2> HIDE DEF none
  <2>3. IsSuffix(none, f)
    BY <2>1, <2>2, SuffixIs
  <2> QED BY <2>1, <2>3 DEF none
<1>2. IsSuffix(<<>> \o text, f \o text)
  BY <1>1, SuffixGrows
<1> QED BY <1>2, ConcatEmptySeq
(***************************************************************************)
(* Types.  The history intact, whose values are Boolean, has a lemma of    *)
(* its own.                                                                *)
(***************************************************************************)
DataTypeOK ==
  /\ files \in [Paths -> Seq(Tokens)]
  /\ path \in [Logs -> Paths \cup {NoName}]
  /\ file \in [Logs -> Paths \cup {NoName}]
  /\ counter \in [Logs -> 0 .. MaxTicks]
  /\ writer \in [Logs -> {"idle", "started", "inside", "ended"}]
  /\ run \in 1 .. MaxRuns
  /\ clicks \in 0 .. MaxClicks
  /\ begun \subseteq Logs
  /\ headless \subseteq Paths \cup {NoName}

IntactTypeOK == intact \in [Logs -> BOOLEAN]

LEMMA TokenType ==
  ASSUME DataTypeOK, NEW l \in Logs, NEW kind \in Kinds, NEW index \in 0 .. MaxTicks
  PROVE  Token(l, kind, index) \in Tokens
  BY DEF DataTypeOK, Token, Tokens

\* The text an action writes, and what it does to the files.
LEMMA TextType ==
  ASSUME DataTypeOK, NEW l \in Logs
  PROVE  /\ <<Token(l, "header", 0)>> \in Seq(Tokens)
         /\ Append(Closing(l), Token(l, "entry", counter[l])) \in Seq(Tokens)
         /\ Ending(l) \in Seq(Tokens)
<1>1. 0 \in 0 .. MaxTicks /\ counter[l] \in 0 .. MaxTicks
  BY LogBoundsAssumption DEF DataTypeOK
<1>2. /\ Token(l, "header", 0) \in Tokens /\ Token(l, "close", 0) \in Tokens
      /\ Token(l, "empty", 0) \in Tokens /\ Token(l, "end", 0) \in Tokens
      /\ Token(l, "entry", counter[l]) \in Tokens
  BY <1>1, TokenType DEF Kinds
<1> QED BY <1>2 DEF Closing, Ending

LEMMA FilesAfterAppend ==
  ASSUME DataTypeOK, NEW l \in Logs, NEW name \in Writable, NEW text \in Seq(Tokens),
         NEW kept, AppendTo(name, l, text, kept)
  PROVE  /\ files' \in [Paths -> Seq(Tokens)]
         /\ files'[name] = files[name] \o text
         /\ \A p \in Paths : p # name => files'[p] = files[p]
  BY PathsAssumption, ConcatProperties DEF DataTypeOK, AppendTo

LEMMA DataTypeInit == Init => DataTypeOK
  BY PathsAssumption, LogBoundsAssumption DEF Init, DataTypeOK, DefaultPath, Logs

LEMMA TickDataType ==
  ASSUME DataTypeOK, NEW l \in Logs, Tick(l)
  PROVE  DataTypeOK'
<1> USE DEF DataTypeOK
<1>1. counter' \in [Logs -> 0 .. MaxTicks]
  BY LogBoundsAssumption DEF Tick, CountTick
<1>2. UNCHANGED <<path, run, clicks, headless>>
  BY DEF Tick
<1>3. CASE HeaderTick(l)
  <2>1. HeaderName(l) \in Paths \cup {NoName}
    BY DEF HeaderName
  <2>2. CASE Opens(HeaderName(l))
    BY <1>1, <1>2, <1>3, <2>1, <2>2, TextType, FilesAfterAppend
       DEF HeaderTick, WriteHeader, Opens
  <2>3. CASE ~Opens(HeaderName(l))
    BY <1>1, <1>2, <1>3, <2>1, <2>3 DEF HeaderTick, WriteHeader
  <2> QED BY <2>2, <2>3
<1>4. CASE EntryTick(l)
  <2>1. CASE Opens(file[l]) /\ writer[l] # "idle"
    BY <1>1, <1>2, <1>4, <2>1, TextType, FilesAfterAppend DEF EntryTick, Opens
  <2>2. CASE ~(Opens(file[l]) /\ writer[l] # "idle")
    BY <1>1, <1>2, <1>4, <2>2 DEF EntryTick
  <2> QED BY <2>1, <2>2
<1> QED BY <1>3, <1>4 DEF Tick

LEMMA ClickType == Click /\ clicks \in 0 .. MaxClicks => clicks' \in 0 .. MaxClicks
  BY LogBoundsAssumption DEF Click

LEMMA CompleteDataType ==
  ASSUME DataTypeOK, NEW l \in Logs, Complete(l)
  PROVE  DataTypeOK'
<1> USE DEF DataTypeOK
<1>1. UNCHANGED <<path, file, counter, run, begun, headless>> /\ clicks' \in 0 .. MaxClicks
  BY ClickType DEF Complete
<1>2. CASE Opens(file[l])
  BY <1>1, <1>2, TextType, FilesAfterAppend DEF Complete, Opens, EndRoot
<1>3. CASE ~Opens(file[l])
  BY <1>1, <1>3 DEF Complete
<1> QED BY <1>2, <1>3

LEMMA DataTypeStep == DataTypeOK /\ [Next]_vars => DataTypeOK'
<1> SUFFICES ASSUME DataTypeOK, [Next]_vars PROVE DataTypeOK'
  OBVIOUS
<1>1. ASSUME NEW l \in Logs, Reset(l) PROVE DataTypeOK'
  <2>1. ResetName(l) \in Paths \cup {NoName}
    BY DEF DataTypeOK, ResetName, Logs
  <2>2. files' \in [Paths -> Seq(Tokens)]
    BY <1>1 DEF Reset, DataTypeOK
  <2> QED BY <1>1, <2>1, <2>2, ClickType DEF Reset, DataTypeOK
<1>2. ASSUME NEW l \in Logs, NEW p \in Paths \cup {NoName}, Browse(l, p) PROVE DataTypeOK'
  BY <1>2, ClickType DEF Browse, DataTypeOK
<1>3. CASE Restart
  <2>1. run' \in 1 .. MaxRuns
    BY <1>3, LogBoundsAssumption DEF Restart, DataTypeOK
  <2> QED BY <1>3, <2>1, PathsAssumption, LogBoundsAssumption DEF Restart, DataTypeOK, DefaultPath
<1>4. CASE UNCHANGED vars
  BY <1>4 DEF vars, memoryVars, DataTypeOK
<1> QED BY <1>1, <1>2, <1>3, <1>4, TickDataType, CompleteDataType DEF Next

LEMMA IntactTypeInit == Init => IntactTypeOK
  BY DEF Init, IntactTypeOK

LEMMA IntactTypeStep == IntactTypeOK /\ [Next]_vars => IntactTypeOK'
<1> SUFFICES ASSUME IntactTypeOK, [Next]_vars PROVE IntactTypeOK'
  OBVIOUS
<1> USE DEF IntactTypeOK
<1>1. ASSUME NEW l \in Logs, NEW name, NEW text, NEW kept \in BOOLEAN,
             AppendTo(name, l, text, kept)
      PROVE  IntactTypeOK'
  BY <1>1, Zenon DEF AppendTo
<1>2. ASSUME NEW l \in Logs, Tick(l) PROVE IntactTypeOK'
  <2>1. CASE HeaderTick(l)
    BY <1>1, <2>1, Zenon DEF HeaderTick, WriteHeader
  <2>2. CASE EntryTick(l)
    <3>1. (intact[l] /\ writer[l] # "ended") \in BOOLEAN
      BY Zenon
    <3> QED BY <1>1, <2>2, <3>1, Zenon DEF EntryTick
  <2> QED BY <1>2, <2>1, <2>2 DEF Tick
<1>3. ASSUME NEW l \in Logs, Complete(l) PROVE IntactTypeOK'
  <2>1. intact[l] \in BOOLEAN
    BY Zenon
  <2> QED BY <1>1, <1>3, <2>1, Zenon DEF Complete
<1>4. ASSUME NEW l \in Logs, Reset(l) PROVE IntactTypeOK'
  BY <1>4, Zenon DEF Reset
<1>5. ASSUME NEW l \in Logs, NEW p \in Paths \cup {NoName}, Browse(l, p) PROVE IntactTypeOK'
  BY <1>5, Zenon DEF Browse
<1>6. CASE Restart
  BY <1>6, Zenon DEF Restart
<1>7. CASE UNCHANGED vars
  BY <1>7 DEF vars
<1> QED BY <1>2, <1>3, <1>4, <1>5, <1>6, <1>7 DEF Next

\* Every variable keeps its type.
THEOREM LogsTypeOK == Spec => []TypeOK
<1>1. DataTypeOK /\ IntactTypeOK => TypeOK
  BY DEF DataTypeOK, IntactTypeOK, TypeOK
<1> QED BY <1>1, DataTypeInit, DataTypeStep, IntactTypeInit, IntactTypeStep, PTL DEF Spec
(***************************************************************************)
(* Headers.  A log that has begun either writes to a file that is already  *)
(* known to be headless or to one that is not empty any more.              *)
(***************************************************************************)
BegunOK ==
  /\ \A l \in Logs : counter[l] = 0 => l \notin begun
  /\ \A l \in Logs : writer[l] # "idle" => l \in begun
  /\ \A l \in begun : file[l] \in headless \/ (file[l] \in Paths /\ files[file[l]] # <<>>)

HeaderInv == DataTypeOK /\ BegunOK /\ BeginsWithHeader

LEMMA HeaderInit == Init => HeaderInv
  BY DataTypeInit DEF Init, HeaderInv, BegunOK, BeginsWithHeader

LEMMA AppendKeepsFirst ==
  ASSUME DataTypeOK, NEW name \in Paths, NEW text \in Seq(Tokens),
         files' \in [Paths -> Seq(Tokens)],
         files'[name] = files[name] \o text,
         files[name] # <<>>
  PROVE  files'[name] # <<>> /\ files'[name][1] = files[name][1]
<1> DEFINE f == files[name]
<1>1. f \in Seq(Tokens) /\ Len(f) \in Nat /\ Len(text) \in Nat /\ Len(f) # 0
  <2>1. f \in Seq(Tokens)
    BY DEF DataTypeOK
  <2> HIDE DEF f
  <2>2. Len(f) \in Nat /\ Len(text) \in Nat /\ (Len(f) = 0 => f = <<>>)
    BY <2>1, LenProperties, EmptySeq
  <2> QED BY <2>1, <2>2 DEF f
<1>2. Len(f \o text) = Len(f) + Len(text) /\ (f \o text)[1] = f[1]
  <2> HIDE DEF f
  <2> QED BY <1>1, ConcatProperties
<1>3. Len(f \o text) # 0
  BY <1>1, <1>2
<1> QED BY <1>2, <1>3

LEMMA HeaderStep == HeaderInv /\ DataTypeOK' /\ [Next]_vars => HeaderInv'
<1> SUFFICES ASSUME HeaderInv, DataTypeOK', [Next]_vars PROVE BegunOK' /\ BeginsWithHeader'
  BY DEF HeaderInv
<1> USE DEF HeaderInv
<1>1. ASSUME NEW l \in Logs, Tick(l), HeaderTick(l) PROVE BegunOK' /\ BeginsWithHeader'
  <2> DEFINE name == HeaderName(l)
  <2>1. /\ l \notin begun /\ writer[l] = "idle" /\ counter' = [counter EXCEPT ![l] = @ + 1]
        /\ counter[l] = 0 /\ UNCHANGED headless /\ file' = [file EXCEPT ![l] = name]
    BY <1>1 DEF Tick, HeaderTick, CountTick, BegunOK
  <2>2. CASE Opens(name)
    <3>1. /\ AppendTo(name, l, <<Token(l, "header", 0)>>, TRUE)
          /\ writer' = [writer EXCEPT ![l] = "started"] /\ begun' = begun \cup {l}
      BY <1>1, <2>2 DEF HeaderTick, WriteHeader
    <3>2. name \in Writable /\ name \in Paths
      BY <2>2, PathsAssumption DEF Opens
    <3>3. /\ files' \in [Paths -> Seq(Tokens)]
          /\ files'[name] = files[name] \o <<Token(l, "header", 0)>>
          /\ \A p \in Paths : p # name => files'[p] = files[p]
      BY <3>1, <3>2, TextType, FilesAfterAppend
    <3>4. files'[name] # <<>> /\ (files[name] # <<>> => files'[name][1] = files[name][1])
      <4>1. CASE files[name] = <<>>
        BY <3>3, <4>1
      <4>2. CASE files[name] # <<>>
        BY <3>2, <3>3, <4>2, TextType, AppendKeepsFirst
      <4> QED BY <4>1, <4>2
    <3>5. files[name] = <<>> => files'[name][1].kind = "header"
      BY <3>3 DEF Token
    <3>6. BeginsWithHeader'
      BY <2>1, <3>3, <3>4, <3>5 DEF BeginsWithHeader
    <3>7. \A m \in Logs : counter'[m] = 0 => m \notin begun'
      BY <2>1, <3>1 DEF BegunOK, DataTypeOK
    <3>8. \A m \in Logs : writer'[m] # "idle" => m \in begun'
      BY <3>1 DEF BegunOK, DataTypeOK
    <3>9. \A p \in Paths : files[p] # <<>> => files'[p] # <<>>
      BY <3>3, <3>4
    <3>10. \A m \in begun' : file'[m] \in headless' \/ (file'[m] \in Paths /\ files'[file'[m]] # <<>>)
      BY <2>1, <3>1, <3>2, <3>4, <3>9 DEF BegunOK, DataTypeOK
    <3> QED BY <3>6, <3>7, <3>8, <3>10 DEF BegunOK
  <2>3. CASE ~Opens(name)
    <3>1. UNCHANGED <<writer, files, begun>>
      BY <1>1, <2>3 DEF HeaderTick, WriteHeader
    <3> QED BY <2>1, <3>1 DEF BegunOK, BeginsWithHeader, DataTypeOK
  <2> QED BY <2>2, <2>3
<1>2. ASSUME NEW l \in Logs, UNCHANGED <<file, begun, headless>>,
             \A m \in Logs : counter'[m] = 0 => counter[m] = 0,
             \A m \in Logs : writer'[m] # "idle" => writer[m] # "idle",
             NEW text \in Seq(Tokens), NEW kept,
             AppendTo(file[l], l, text, kept), Opens(file[l]), writer[l] # "idle" \/ text = <<>>
      PROVE  BegunOK' /\ BeginsWithHeader'
  <2> DEFINE name == file[l]
  <2>1. name \in Writable /\ name \in Paths
    BY <1>2, PathsAssumption DEF Opens
  <2>2. /\ files' \in [Paths -> Seq(Tokens)]
        /\ files'[name] = files[name] \o text
        /\ \A p \in Paths : p # name => files'[p] = files[p]
    BY <1>2, <2>1, FilesAfterAppend
  <2>3. files[name] # <<>> => files'[name] # <<>> /\ files'[name][1] = files[name][1]
    BY <2>1, <2>2, AppendKeepsFirst
  <2>4. files[name] = <<>> => name \in headless \/ text = <<>>
    BY <1>2 DEF BegunOK
  <2>5. BeginsWithHeader'
    BY <1>2, <2>2, <2>3, <2>4 DEF BeginsWithHeader
  <2>6. \A p \in Paths : files[p] # <<>> => files'[p] # <<>>
    BY <2>2, <2>3
  <2>7. BegunOK'
    BY <1>2, <2>6 DEF BegunOK
  <2> QED BY <2>5, <2>7
<1>3. ASSUME NEW l \in Logs, Tick(l), EntryTick(l) PROVE BegunOK' /\ BeginsWithHeader'
  <2>1. /\ counter' = [counter EXCEPT ![l] = @ + 1] /\ counter[l] > 0
        /\ UNCHANGED <<file, begun, headless>>
    BY <1>3 DEF Tick, EntryTick, CountTick
  <2>2. \A m \in Logs : counter'[m] = 0 => counter[m] = 0
    BY <2>1 DEF DataTypeOK
  <2>3. CASE Opens(file[l]) /\ writer[l] # "idle"
    <3>1. \A m \in Logs : writer'[m] # "idle" => writer[m] # "idle"
      BY <1>3, <2>3 DEF EntryTick, DataTypeOK
    <3>2. PICK kept : AppendTo(file[l], l, Append(Closing(l), Token(l, "entry", counter[l])), kept)
      BY <1>3, <2>3 DEF EntryTick
    <3> QED BY <1>2, <2>1, <2>2, <2>3, <3>1, <3>2, TextType
  <2>4. CASE ~(Opens(file[l]) /\ writer[l] # "idle")
    <3>1. UNCHANGED <<files, writer>>
      BY <1>3, <2>4 DEF EntryTick
    <3> QED BY <2>1, <2>2, <3>1 DEF BegunOK, BeginsWithHeader
  <2> QED BY <2>3, <2>4
<1>4. ASSUME NEW l \in Logs, Complete(l) PROVE BegunOK' /\ BeginsWithHeader'
  <2>1. UNCHANGED <<file, counter, begun, headless>>
    BY <1>4 DEF Complete
  <2>2. CASE Opens(file[l])
    <3>1. \A m \in Logs : writer'[m] # "idle" => writer[m] # "idle"
      BY <1>4, <2>2 DEF Complete, EndRoot, DataTypeOK
    <3>2. AppendTo(file[l], l, Ending(l), intact[l])
      BY <1>4, <2>2 DEF Complete
    <3>3. writer[l] # "idle" \/ Ending(l) = <<>>
      BY DEF Ending
    <3> QED BY <1>2, <2>1, <2>2, <3>1, <3>2, <3>3, TextType
  <2>3. CASE ~Opens(file[l])
    <3>1. UNCHANGED <<files, writer>>
      BY <1>4, <2>3 DEF Complete
    <3> QED BY <2>1, <3>1 DEF BegunOK, BeginsWithHeader
  <2> QED BY <2>2, <2>3
<1>5. ASSUME NEW l \in Logs, Reset(l) PROVE BegunOK' /\ BeginsWithHeader'
  <2> DEFINE name == ResetName(l)
  <2>1. /\ file' = [file EXCEPT ![l] = name] /\ headless' = headless \cup {name}
        /\ UNCHANGED <<counter, writer, begun>>
        /\ \A p \in Paths : p # name => files'[p] = files[p]
    BY <1>5 DEF Reset
  <2>2. BeginsWithHeader'
    BY <2>1 DEF BeginsWithHeader
  <2> HIDE DEF name
  <2>3. BegunOK'
    BY <2>1 DEF BegunOK, DataTypeOK
  <2> QED BY <2>2, <2>3
<1>6. ASSUME NEW l \in Logs, NEW p \in Paths \cup {NoName}, Browse(l, p)
      PROVE BegunOK' /\ BeginsWithHeader'
  BY <1>6 DEF Browse, BegunOK, BeginsWithHeader, DataTypeOK
<1>7. CASE Restart
  BY <1>7 DEF Restart, BegunOK, BeginsWithHeader
<1>8. CASE UNCHANGED vars
  BY <1>8 DEF vars, memoryVars, BegunOK, BeginsWithHeader
<1> QED BY <1>1, <1>3, <1>4, <1>5, <1>6, <1>7, <1>8 DEF Next, Tick

\* A file begins with a header unless it was reset or given to a log that had
\* begun.
THEOREM BeginsWithHeaderAlways == Spec => []BeginsWithHeader
<1>1. HeaderInv => BeginsWithHeader
  BY DEF HeaderInv
<1>2. Spec => []DataTypeOK
  BY DataTypeInit, DataTypeStep, PTL DEF Spec
<1> QED BY <1>1, <1>2, HeaderInit, HeaderStep, PTL DEF Spec
(***************************************************************************)
(* Documents.                                                              *)
(***************************************************************************)
LEMMA BodyType ==
  ASSUME DataTypeOK, NEW l \in Logs, NEW n \in 0 .. MaxTicks
  PROVE  Opened(l) \in Seq(Tokens) /\ Entries(l, n) \in Seq(Tokens) /\ Body(l, n) \in Seq(Tokens)
<1>1. 0 \in 0 .. MaxTicks
  BY LogBoundsAssumption
<1>2. Token(l, "header", 0) \in Tokens /\ Token(l, "close", 0) \in Tokens
  BY <1>1, TokenType DEF Kinds
<1>3. \A k \in 1 .. n : Token(l, "entry", k) \in Tokens
  <2> SUFFICES ASSUME NEW k \in 1 .. n PROVE Token(l, "entry", k) \in Tokens
    OBVIOUS
  <2>1. k \in 0 .. MaxTicks
    BY LogBoundsAssumption
  <2> QED BY <2>1, TokenType DEF Kinds
<1>4. Entries(l, n) \in Seq(Tokens)
  BY <1>3 DEF Entries
<1>5. Opened(l) \in Seq(Tokens) /\ <<Token(l, "close", 0)>> \in Seq(Tokens)
  BY <1>2 DEF Opened
<1>6. Body(l, n) \in Seq(Tokens)
  BY <1>4, <1>5, ConcatProperties DEF Body
<1> QED BY <1>4, <1>5, <1>6

\* The next entry makes the next document.
LEMMA BodyGrows ==
  ASSUME DataTypeOK, NEW l \in Logs, NEW n \in 0 .. MaxTicks, n + 1 <= MaxTicks
  PROVE  Body(l, n) \o <<Token(l, "entry", n + 1)>> = Body(l, n + 1)
<1> DEFINE entry == <<Token(l, "entry", n + 1)>>
           start == Opened(l) \o <<Token(l, "close", 0)>>
<1>1. n + 1 \in 0 .. MaxTicks /\ 0 \in 0 .. MaxTicks
  BY LogBoundsAssumption
<1>2. entry \in Seq(Tokens) /\ Entries(l, n) \in Seq(Tokens) /\ Entries(l, n + 1) \in Seq(Tokens)
  BY <1>1, TokenType, BodyType DEF Kinds
<1>3. start \in Seq(Tokens)
  BY <1>1, TokenType, BodyType, ConcatProperties DEF Kinds
<1>4. Entries(l, n) \o entry = Entries(l, n + 1)
  <2> DEFINE es == Entries(l, n)
             last == Token(l, "entry", n + 1)
  <2>1. es \in Seq(Tokens) /\ Len(es) = n /\ \A k \in 1 .. n : es[k] = Token(l, "entry", k)
    BY <1>2 DEF Entries
  <2>2. last \in Tokens
    BY <1>1, TokenType DEF Kinds
  <2>3. Append(es, last) = Entries(l, n + 1)
    <3> DEFINE more == Entries(l, n + 1)
    <3>1. more \in Seq(Tokens) /\ Len(more) = n + 1 /\ more[n + 1] = last
      BY <1>2 DEF Entries
    <3>2. \A k \in 1 .. n : more[k] = es[k]
      BY <2>1 DEF Entries
    <3> HIDE DEF es, last, more
    <3> DEFINE longer == Append(es, last)
    <3>3. longer \in Seq(Tokens) /\ Len(longer) = n + 1 /\ longer[n + 1] = last
      BY <2>1, <2>2, AppendProperties
    <3>4. \A k \in 1 .. n : longer[k] = es[k]
      BY <2>1, <2>2, AppendProperties
    <3> HIDE DEF longer
    <3>5. \A k \in 1 .. n + 1 : longer[k] = more[k]
      BY <3>1, <3>2, <3>3, <3>4
    <3>6. longer = more
      BY <3>1, <3>3, <3>5, SeqEqual
    <3> QED BY <3>6 DEF more, longer
  <2>4. es \o <<last>> = Append(es, last)
    <3> HIDE DEF es, last
    <3> QED BY <2>1, <2>2, AppendIsConcat
  <2> QED BY <2>3, <2>4
<1>5. (start \o Entries(l, n)) \o entry = start \o (Entries(l, n) \o entry)
  <2> HIDE DEF start, entry
  <2> QED BY <1>2, <1>3, ConcatAssociative
<1> QED BY <1>4, <1>5 DEF Body

\* The first entry closes the root's tag.
LEMMA BodyBegins ==
  ASSUME DataTypeOK, NEW l \in Logs, 1 <= MaxTicks
  PROVE  Opened(l) \o Append(<<Token(l, "close", 0)>>, Token(l, "entry", 1)) = Body(l, 1)
<1>1. /\ Token(l, "close", 0) \in Tokens /\ Token(l, "entry", 1) \in Tokens
      /\ Token(l, "header", 0) \in Tokens
  BY LogBoundsAssumption, TokenType DEF Kinds
<1>2. Entries(l, 1) = <<Token(l, "entry", 1)>>
  BY DEF Entries
<1> DEFINE header == Token(l, "header", 0)
           close == Token(l, "close", 0)
           entry == Token(l, "entry", 1)
<1>3. <<header>> \o Append(<<close>>, entry) = (<<header>> \o <<close>>) \o <<entry>>
  <2>1. header \in Tokens /\ close \in Tokens /\ entry \in Tokens
    BY <1>1
  <2> HIDE DEF header, close, entry
  <2>2. <<header>> \in Seq(Tokens) /\ <<close>> \in Seq(Tokens) /\ <<entry>> \in Seq(Tokens)
    BY <2>1
  <2>3. Append(<<close>>, entry) = <<close>> \o <<entry>>
    BY <2>1, <2>2, AppendIsConcat
  <2>4. (<<header>> \o <<close>>) \o <<entry>> = <<header>> \o (<<close>> \o <<entry>>)
    BY <2>2, ConcatAssociative
  <2> QED BY <2>3, <2>4
<1> QED BY <1>2, <1>3 DEF Opened, Body

(***************************************************************************)
(* An intact log.  While the root's tag is unclosed only the header tick   *)
(* has been, and the file of an intact log can be written.                 *)
(***************************************************************************)
IntactOK(l) ==
  intact[l] =>
    /\ file[l] \in Writable
    /\ counter[l] >= 1
    /\ writer[l] = "started" => counter[l] = 1
    /\ DocumentOK(l)

IntactInv == \A l \in Logs : IntactOK(l)

LEMMA IntactInit == Init => IntactInv
  BY DEF Init, IntactInv, IntactOK

LEMMA IntactIs == IntactInv => IntactLog
  BY DEF IntactInv, IntactOK, IntactLog

\* A log that nobody touches, nor the file it has, keeps its document.
LEMMA UntouchedOK ==
  ASSUME NEW m \in Logs, IntactOK(m), UNCHANGED <<run, file[m], counter[m], writer[m]>>,
         intact'[m] => intact[m] /\ files'[file[m]] = files[file[m]]
  PROVE  IntactOK(m)'
  BY DEF IntactOK, DocumentOK, FileEndsWith, Opened, Body, Entries, Token

\* What AppendTo does to the other logs.
LEMMA AppendSparesOthers ==
  ASSUME DataTypeOK, NEW l \in Logs, NEW m \in Logs, m # l, IntactOK(m),
         NEW name \in Writable, NEW text \in Seq(Tokens), NEW kept,
         AppendTo(name, l, text, kept),
         UNCHANGED <<run, file[m], counter[m], writer[m]>>
  PROVE  IntactOK(m)'
<1>1. intact'[m] => intact[m] /\ file[m] # name
  BY ZenonT(30) DEF AppendTo
<1>2. file[m] # name /\ file[m] \in Paths => files'[file[m]] = files[file[m]]
  BY FilesAfterAppend
<1>3. intact[m] => file[m] \in Paths
  BY PathsAssumption DEF IntactOK
<1> QED BY <1>1, <1>2, <1>3, UntouchedOK

\* The header is a document whose root is still to be closed.
LEMMA HeaderTickIntact ==
  ASSUME DataTypeOK, IntactInv, NEW l \in Logs, Tick(l), HeaderTick(l)
  PROVE  IntactInv'
<1> DEFINE name == HeaderName(l)
           text == <<Token(l, "header", 0)>>
<1>1. /\ counter[l] = 0 /\ counter' = [counter EXCEPT ![l] = @ + 1]
      /\ file' = [file EXCEPT ![l] = name] /\ UNCHANGED run
  BY DEF Tick, HeaderTick, CountTick
<1>2. counter'[l] = 1 /\ file'[l] = name
  BY <1>1 DEF DataTypeOK
<1>3. \A m \in Logs : m # l => UNCHANGED <<file[m], counter[m]>>
  BY <1>1 DEF DataTypeOK
<1>4. text \in Seq(Tokens)
  BY TextType
<1>5. CASE Opens(name)
  <2>1. /\ writer' = [writer EXCEPT ![l] = "started"] /\ AppendTo(name, l, text, TRUE)
        /\ name \in Writable
    BY <1>5 DEF HeaderTick, WriteHeader, Opens
  <2>2. writer'[l] = "started" /\ \A m \in Logs : m # l => UNCHANGED writer[m]
    BY <2>1 DEF DataTypeOK
  <2>3. name \in Paths /\ files[name] \in Seq(Tokens)
    BY <2>1, PathsAssumption DEF DataTypeOK
  <2>4. files'[name] = files[name] \o text
    BY <1>4, <2>1, FilesAfterAppend
  <2>5. IsSuffix(text, files'[name])
    <3> HIDE DEF text, name
    <3> QED BY <1>4, <2>3, <2>4, LastIsSuffix
  <2>6. Opened(l)' = text
    BY <1>1 DEF Opened, Token
  <2>7. FileEndsWith(l, Opened(l))'
    BY <1>2, <2>5, <2>6 DEF FileEndsWith
  <2>8. IntactOK(l)'
    BY <1>2, <2>1, <2>2, <2>7 DEF IntactOK, DocumentOK
  <2>9. \A m \in Logs : m # l => IntactOK(m)'
    <3> HIDE DEF text, name
    <3> QED BY <1>1, <1>3, <1>4, <2>1, <2>2, AppendSparesOthers DEF IntactInv
  <2> QED BY <2>8, <2>9 DEF IntactInv
<1>6. CASE ~Opens(name)
  <2>1. UNCHANGED <<writer, files, intact>>
    BY <1>6 DEF HeaderTick, WriteHeader
  <2>2. ~intact'[l]
    BY <1>1, <2>1 DEF IntactInv, IntactOK
  <2>3. IntactOK(l)'
    BY <2>2 DEF IntactOK
  <2>4. \A m \in Logs : m # l => IntactOK(m)'
    BY <1>1, <1>3, <2>1, UntouchedOK DEF IntactInv
  <2> QED BY <2>3, <2>4 DEF IntactInv
<1> QED BY <1>5, <1>6

\* An entry makes the document of the tick before one entry longer.
LEMMA EntryTickIntact ==
  ASSUME DataTypeOK, IntactInv, NEW l \in Logs, Tick(l), EntryTick(l)
  PROVE  IntactInv'
<1> DEFINE n == counter[l]
           name == file[l]
           text == Append(Closing(l), Token(l, "entry", n))
<1>1. /\ n > 0 /\ n < MaxTicks /\ counter' = [counter EXCEPT ![l] = @ + 1]
      /\ UNCHANGED <<file, run>>
  BY DEF Tick, EntryTick, CountTick
<1>2. n \in 0 .. MaxTicks /\ counter'[l] = n + 1 /\ MaxTicks \in Nat
  BY <1>1, LogBoundsAssumption DEF DataTypeOK
<1>3. \A m \in Logs : m # l => UNCHANGED counter[m]
  BY <1>1 DEF DataTypeOK
<1>4. text \in Seq(Tokens)
  BY TextType
<1>5. CASE Opens(name) /\ writer[l] # "idle"
  <2>1. /\ writer' = [writer EXCEPT ![l] = IF @ = "started" THEN "inside" ELSE @]
        /\ AppendTo(name, l, text, intact[l] /\ writer[l] # "ended")
        /\ name \in Writable
    BY <1>5 DEF EntryTick, Opens
  <2>2. name \in Paths /\ files[name] \in Seq(Tokens)
    BY <2>1, PathsAssumption DEF DataTypeOK
  <2>3. files'[name] = files[name] \o text
    BY <1>4, <2>1, FilesAfterAppend
  <2>4. /\ writer'[l] = IF writer[l] = "started" THEN "inside" ELSE writer[l]
        /\ \A m \in Logs : m # l => UNCHANGED writer[m]
    BY <2>1 DEF DataTypeOK
  <2>5. intact'[l] => intact[l] /\ writer[l] # "ended"
    <3> HIDE DEF text, name
    <3> QED BY <2>1, ZenonT(30) DEF AppendTo
  <2>7. ASSUME intact[l], writer[l] = "started" PROVE IsSuffix(Body(l, n), files'[name])
    <3>1. n = 1 /\ IsSuffix(Opened(l), files[name])
      BY <2>7 DEF IntactInv, IntactOK, DocumentOK, FileEndsWith
    <3>2. Opened(l) \o Append(<<Token(l, "close", 0)>>, Token(l, "entry", 1)) = Body(l, 1)
      BY <1>1, <1>2, <3>1, BodyBegins
    <3>5. Opened(l) \o text = Body(l, n)
      BY <2>7, <3>1, <3>2 DEF Closing
    <3>3. Opened(l) \in Seq(Tokens)
      BY <1>2, BodyType
    <3>4. IsSuffix(Opened(l) \o text, files[name] \o text)
      <4> HIDE DEF text, name
      <4> QED BY <1>4, <2>2, <3>1, <3>3, SuffixGrows
    <3> QED BY <2>3, <3>4, <3>5
  <2>8. ASSUME intact[l], writer[l] = "inside" PROVE IsSuffix(Body(l, n), files'[name])
    <3>1. IsSuffix(Body(l, n - 1), files[name])
      BY <2>8 DEF IntactInv, IntactOK, DocumentOK, FileEndsWith
    <3>2. n - 1 \in 0 .. MaxTicks /\ (n - 1) + 1 = n
      BY <1>1, <1>2
    <3>3. text = <<Token(l, "entry", n)>>
      BY <2>8 DEF Closing
    <3>7. Body(l, n - 1) \o <<Token(l, "entry", (n - 1) + 1)>> = Body(l, (n - 1) + 1)
      <4> DEFINE k == n - 1
      <4>1. k \in 0 .. MaxTicks /\ k + 1 <= MaxTicks
        BY <1>1, <1>2, <3>2
      <4> HIDE DEF k
      <4>2. Body(l, k) \o <<Token(l, "entry", k + 1)>> = Body(l, k + 1)
        BY <4>1, BodyGrows
      <4> QED BY <4>2 DEF k
    <3>4. Body(l, n - 1) \o text = Body(l, n)
      BY <3>2, <3>3, <3>7
    <3>5. Body(l, n - 1) \in Seq(Tokens)
      BY <3>2, BodyType
    <3>6. IsSuffix(Body(l, n - 1) \o text, files[name] \o text)
      <4> HIDE DEF text, name
      <4> QED BY <1>4, <2>2, <3>1, <3>5, SuffixGrows
    <3> QED BY <2>3, <3>4, <3>6
  <2>9. IntactOK(l)'
    <3>1. SUFFICES ASSUME intact'[l] PROVE IntactOK(l)'
      BY DEF IntactOK
    <3>2. writer[l] \in {"started", "inside"} /\ intact[l]
      BY <1>5, <2>5, <3>1 DEF DataTypeOK
    <3>3. writer'[l] = "inside" /\ file'[l] = name /\ counter'[l] - 1 = n
      BY <1>1, <1>2, <2>4, <3>2
    <3>4. IsSuffix(Body(l, n), files'[name])
      BY <2>7, <2>8, <3>2
    <3>5. Body(l, counter[l] - 1)' = Body(l, n)
      BY <1>1, <3>3 DEF Body, Opened, Entries, Token
    <3>6. FileEndsWith(l, Body(l, counter[l] - 1))'
      BY <3>3, <3>4, <3>5 DEF FileEndsWith
    <3>7. DocumentOK(l)'
      BY <3>3, <3>6 DEF DocumentOK
    <3> QED BY <1>1, <1>2, <2>1, <3>3, <3>7 DEF IntactOK
  <2>10. \A m \in Logs : m # l => IntactOK(m)'
    <3> HIDE DEF text, name
    <3> QED BY <1>1, <1>3, <1>4, <2>1, <2>4, AppendSparesOthers DEF IntactInv
  <2> QED BY <2>9, <2>10 DEF IntactInv
<1>6. CASE ~(Opens(name) /\ writer[l] # "idle")
  <2>1. UNCHANGED <<files, writer, intact>>
    BY <1>6 DEF EntryTick
  <2>2. ~intact[l]
    BY <1>6 DEF IntactInv, IntactOK, DocumentOK, Opens
  <2>3. IntactOK(l)'
    BY <2>1, <2>2 DEF IntactOK
  <2>4. \A m \in Logs : m # l => IntactOK(m)'
    BY <1>1, <1>3, <2>1, UntouchedOK DEF IntactInv
  <2> QED BY <2>3, <2>4 DEF IntactInv
<1> QED BY <1>5, <1>6

\* "Complete Log" closes the document; a second one adds nothing.
LEMMA CompleteIntact ==
  ASSUME DataTypeOK, IntactInv, NEW l \in Logs, Complete(l)
  PROVE  IntactInv'
<1> DEFINE name == file[l]
           text == Ending(l)
           n == counter[l] - 1
           empty == Token(l, "empty", 0)
           end == Token(l, "end", 0)
<1>1. UNCHANGED <<file, counter, run>>
  BY DEF Complete
<1>2. text \in Seq(Tokens)
  BY TextType
<1>3. empty \in Tokens /\ end \in Tokens
  BY LogBoundsAssumption, TokenType DEF Kinds
<1>4. CASE Opens(name)
  <2>1. /\ writer' = [writer EXCEPT ![l] = IF @ = "idle" THEN @ ELSE "ended"]
        /\ AppendTo(name, l, text, intact[l])
        /\ name \in Writable
    BY <1>4 DEF Complete, EndRoot, Opens
  <2>2. name \in Paths /\ files[name] \in Seq(Tokens)
    BY <2>1, PathsAssumption DEF DataTypeOK
  <2>3. files'[name] = files[name] \o text
    BY <1>2, <2>1, FilesAfterAppend
  <2>4. /\ writer'[l] = IF writer[l] = "idle" THEN "idle" ELSE "ended"
        /\ \A m \in Logs : m # l => UNCHANGED writer[m]
    BY <2>1 DEF DataTypeOK
  <2>5. intact'[l] => intact[l]
    <3> HIDE DEF text, name
    <3> QED BY <2>1, ZenonT(30) DEF AppendTo
  <2>6. ASSUME intact[l], writer[l] = "started"
        PROVE  IsSuffix(Append(Opened(l), empty), files'[name])
    <3>1. IsSuffix(Opened(l), files[name]) /\ text = <<empty>>
      BY <2>6 DEF IntactInv, IntactOK, DocumentOK, FileEndsWith, Ending
    <3>2. Opened(l) \in Seq(Tokens)
      BY LogBoundsAssumption, BodyType
    <3> HIDE DEF text, name, empty
    <3>3. Append(Opened(l), empty) = Opened(l) \o text
      BY <1>3, <3>1, <3>2, AppendIsConcat
    <3> QED BY <1>2, <2>2, <2>3, <3>1, <3>2, <3>3, SuffixGrows
  <2>7. ASSUME intact[l], writer[l] = "inside"
        PROVE  IsSuffix(Append(Body(l, n), end), files'[name])
    <3>1. IsSuffix(Body(l, n), files[name]) /\ text = <<end>>
      BY <2>7 DEF IntactInv, IntactOK, DocumentOK, FileEndsWith, Ending
    <3>2. n \in 0 .. MaxTicks
      BY <2>7, LogBoundsAssumption DEF IntactInv, IntactOK, DataTypeOK
    <3> HIDE DEF text, name, end, n
    <3>3. Body(l, n) \in Seq(Tokens)
      BY <3>2, BodyType
    <3>4. Append(Body(l, n), end) = Body(l, n) \o text
      BY <1>3, <3>1, <3>3, AppendIsConcat
    <3> QED BY <1>2, <2>2, <2>3, <3>1, <3>3, <3>4, SuffixGrows
  <2>8. ASSUME writer[l] = "ended" PROVE files'[name] = files[name]
    <3>1. text = <<>>
      BY <2>8 DEF Ending
    <3> HIDE DEF text, name
    <3> QED BY <2>2, <2>3, <3>1, ConcatEmptySeq
  <2>9. IntactOK(l)'
    <3>1. SUFFICES ASSUME intact'[l] PROVE IntactOK(l)'
      BY DEF IntactOK
    <3>2. intact[l] /\ writer[l] \in {"started", "inside", "ended"} /\ DocumentOK(l) /\ n + 1 >= 1
      BY <2>5, <3>1 DEF IntactInv, IntactOK, DocumentOK, DataTypeOK
    <3>3. \/ IsSuffix(Append(Opened(l), empty), files'[name])
          \/ IsSuffix(Append(Body(l, n), end), files'[name])
      BY <2>6, <2>7, <2>8, <3>2 DEF DocumentOK, FileEndsWith
    <3>4. writer'[l] = "ended" /\ file'[l] = name /\ counter'[l] = counter[l]
      BY <1>1, <2>4, <3>2
    <3>5. /\ Append(Opened(l), Token(l, "empty", 0))' = Append(Opened(l), empty)
          /\ Append(Body(l, counter[l] - 1), Token(l, "end", 0))' = Append(Body(l, n), end)
      BY <1>1 DEF Body, Opened, Entries, Token
    <3>6. DocumentOK(l)'
      BY <3>3, <3>4, <3>5 DEF DocumentOK, FileEndsWith
    <3>7. counter[l] >= 1
      BY <3>2 DEF IntactInv, IntactOK
    <3> QED BY <2>1, <3>4, <3>6, <3>7 DEF IntactOK
  <2>10. \A m \in Logs : m # l => IntactOK(m)'
    <3> HIDE DEF text, name
    <3> QED BY <1>1, <1>2, <2>1, <2>4, AppendSparesOthers DEF IntactInv
  <2> QED BY <2>9, <2>10 DEF IntactInv
<1>5. CASE ~Opens(name)
  <2>1. UNCHANGED <<files, writer, intact>>
    BY <1>5 DEF Complete
  <2> QED BY <1>1, <2>1, UntouchedOK DEF IntactInv
<1> QED BY <1>4, <1>5

LEMMA ResetIntact ==
  ASSUME DataTypeOK, IntactInv, NEW l \in Logs, Reset(l)
  PROVE  IntactInv'
<1> DEFINE name == ResetName(l)
<1>1. /\ file' = [file EXCEPT ![l] = name] /\ UNCHANGED <<counter, writer, run>>
      /\ \A p \in Paths : p # name => files'[p] = files[p]
  BY DEF Reset
<1>2. \A m \in Logs : intact'[m] => intact[m] /\ m # l /\ file[m] # name
  BY ZenonT(30) DEF Reset
<1>3. IntactOK(l)'
  BY <1>2 DEF IntactOK
<1>4. ASSUME NEW m \in Logs, m # l PROVE IntactOK(m)'
  <2>1. UNCHANGED file[m]
    BY <1>1, <1>4 DEF DataTypeOK
  <2>2. intact[m] => file[m] \in Paths
    BY PathsAssumption DEF IntactInv, IntactOK
  <2> QED BY <1>1, <1>2, <2>1, <2>2, UntouchedOK DEF IntactInv
<1> QED BY <1>3, <1>4 DEF IntactInv

LEMMA BrowseIntact ==
  ASSUME DataTypeOK, IntactTypeOK, IntactInv, NEW l \in Logs,
         NEW p \in Paths \cup {NoName}, Browse(l, p)
  PROVE  IntactInv'
<1>1. /\ file' = [file EXCEPT ![l] = p] /\ UNCHANGED <<files, counter, writer, run>>
      /\ intact' = [intact EXCEPT ![l] = FALSE]
  BY DEF Browse
<1>2. ~intact'[l] /\ \A m \in Logs : m # l => intact'[m] = intact[m]
  BY <1>1, ZenonT(30) DEF IntactTypeOK
<1>3. IntactOK(l)'
  BY <1>2 DEF IntactOK
<1>4. ASSUME NEW m \in Logs, m # l PROVE IntactOK(m)'
  <2>1. UNCHANGED file[m]
    BY <1>1, <1>4 DEF DataTypeOK
  <2>2. intact'[m] => intact[m]
    BY <1>2, <1>4, Zenon
  <2> QED BY <1>1, <2>1, <2>2, UntouchedOK DEF IntactInv
<1> QED BY <1>3, <1>4 DEF IntactInv

LEMMA IntactStep ==
  ASSUME DataTypeOK, IntactTypeOK, IntactInv, [Next]_vars
  PROVE  IntactInv'
<1>1. ASSUME NEW l \in Logs, Tick(l) PROVE IntactInv'
  BY <1>1, HeaderTickIntact, EntryTickIntact DEF Tick
<1>2. CASE Restart
  <2>1. \A l \in Logs : ~intact'[l]
    BY <1>2, ZenonT(30) DEF Restart
  <2> QED BY <2>1 DEF IntactInv, IntactOK
<1>3. CASE UNCHANGED vars
  <2>1. UNCHANGED <<files, file, counter, writer, run, intact>>
    BY <1>3 DEF vars, memoryVars
  <2> QED BY <2>1, UntouchedOK DEF IntactInv
<1> QED BY <1>1, <1>2, <1>3, CompleteIntact, ResetIntact, BrowseIntact DEF Next

\* While nobody renames, resets or shares a log's file, it ends with the whole
\* document of the run: header, one entry a tick in order, and the root's end
\* once completed.
THEOREM IntactLogAlways == Spec => []IntactLog
<1>1. Spec => []DataTypeOK
  BY DataTypeInit, DataTypeStep, PTL DEF Spec
<1>2. Spec => []IntactTypeOK
  BY LogsTypeOK, PTL DEF TypeOK, IntactTypeOK
<1> QED BY <1>1, <1>2, IntactInit, IntactStep, IntactIs, PTL DEF Spec
(***************************************************************************)
(* Order.  What a log wrote in this run is stamped with indices below its  *)
(* counter, so that the next stamp is new and later than all of them.      *)
(***************************************************************************)
StampsPast ==
  \A p \in Paths : \A i \in DOMAIN files[p] :
    Stamped(files[p][i]) =>
      \/ files[p][i].run < run
      \/ files[p][i].run = run /\ files[p][i].index < counter[files[p][i].log]

OrderInv == DataTypeOK /\ EntriesInOrder /\ StampsPast

LEMMA OrderInit == Init => OrderInv
  BY DataTypeInit DEF Init, OrderInv, EntriesInOrder, StampsPast

\* Counting on and changing nothing else of a stamp's past.
LEMMA StampsStayPast ==
  ASSUME DataTypeOK, DataTypeOK', StampsPast, UNCHANGED run,
         \A m \in Logs : counter'[m] >= counter[m],
         NEW p \in Paths, NEW i \in DOMAIN files[p], Stamped(files[p][i])
  PROVE  \/ files[p][i].run < run
         \/ files[p][i].run = run /\ files[p][i].index < counter'[files[p][i].log]
<1> DEFINE t == files[p][i]
<1>1. t \in Tokens
  BY DEF DataTypeOK
<1>2. t.log \in Logs /\ t.index \in Int
  BY <1>1 DEF Tokens
<1>3. t.run < run \/ (t.run = run /\ t.index < counter[t.log])
  BY DEF StampsPast
<1>4. counter[t.log] \in Int /\ counter'[t.log] \in Int
  BY <1>2 DEF DataTypeOK
<1> HIDE DEF t
<1>5. t.run < run \/ (t.run = run /\ t.index < counter'[t.log])
  BY <1>2, <1>3, <1>4
<1> QED BY <1>5 DEF t

\* A text that has a stamp at most at its end, the log's next one.
LEMMA AppendOrder ==
  ASSUME OrderInv, DataTypeOK', UNCHANGED run, NEW l \in Logs, NEW name \in Writable,
         NEW text \in Seq(Tokens), NEW kept, AppendTo(name, l, text, kept),
         \A m \in Logs : counter'[m] >= counter[m],
         \A j \in DOMAIN text : Stamped(text[j]) =>
           /\ j = Len(text) /\ text[j].log = l /\ text[j].run = run
           /\ text[j].index = counter[l] /\ counter[l] < counter'[l]
  PROVE  OrderInv'
<1> DEFINE f == files[name]
           g == f \o text
<1>1. DataTypeOK /\ EntriesInOrder /\ StampsPast
  BY DEF OrderInv
<1>2. name \in Paths /\ f \in Seq(Tokens)
  BY <1>1, PathsAssumption DEF DataTypeOK
<1>3. files'[name] = g /\ \A p \in Paths : p # name => files'[p] = files[p]
  BY <1>1, FilesAfterAppend
<1>4. /\ Len(f) \in Nat /\ Len(text) \in Nat /\ DOMAIN f = 1 .. Len(f) /\ DOMAIN text = 1 .. Len(text)
      /\ DOMAIN g = 1 .. Len(f) + Len(text)
      /\ \A i \in 1 .. Len(f) : g[i] = f[i]
      /\ \A i \in Len(f) + 1 .. Len(f) + Len(text) : g[i] = text[i - Len(f)]
  <2> HIDE DEF f
  <2>1. g \in Seq(Tokens) /\ Len(g) = Len(f) + Len(text)
    BY <1>2, ConcatProperties
  <2>2. \A i \in 1 .. Len(f) + Len(text) : g[i] = IF i <= Len(f) THEN f[i] ELSE text[i - Len(f)]
    BY <1>2, ConcatProperties
  <2> HIDE DEF g
  <2> QED BY <1>2, <2>1, <2>2
<1> HIDE DEF f, g
\* The new stamp, if there is one, is the file's last token.
<1>5. ASSUME NEW i \in DOMAIN g, i \notin DOMAIN f, Stamped(g[i])
      PROVE  /\ i = Len(f) + Len(text) /\ g[i].log = l /\ g[i].run = run
             /\ g[i].index = counter[l] /\ counter[l] < counter'[l]
  <2>1. i \in Len(f) + 1 .. Len(f) + Len(text) /\ i - Len(f) \in DOMAIN text
    BY <1>4, <1>5
  <2>2. g[i] = text[i - Len(f)]
    BY <1>4, <2>1
  <2> QED BY <1>4, <1>5, <2>1, <2>2
\* It is later than what the log wrote in any file.
<1>6. ASSUME NEW i \in DOMAIN g, i \notin DOMAIN f, Stamped(g[i]),
             NEW p \in Paths, NEW j \in DOMAIN files[p], Stamped(files[p][j]),
             files[p][j].log = l
      PROVE  Before(files[p][j], g[i])
  <2>1. g[i].run = run /\ g[i].index = counter[l]
    BY <1>5, <1>6
  <2>2. files[p][j].run < run \/ (files[p][j].run = run /\ files[p][j].index < counter[l])
    BY <1>1, <1>6 DEF StampsPast
  <2> QED BY <2>1, <2>2 DEF Before
<1>7. ASSUME NEW s \in Tokens, NEW t \in Tokens, Before(s, t) PROVE s # t
  <2>1. s.run \in Int /\ s.index \in Int
    BY DEF Tokens
  <2> QED BY <1>7, <2>1 DEF Before
<1>8. ASSUME NEW p \in Paths, NEW i \in DOMAIN files'[p], NEW j \in DOMAIN files'[p], i < j,
             files'[p][i].log = files'[p][j].log, Stamped(files'[p][i]), Stamped(files'[p][j])
      PROVE  Before(files'[p][i], files'[p][j])
  <2>1. CASE p # name
    BY <1>1, <1>3, <1>8, <2>1 DEF EntriesInOrder
  <2>2. CASE p = name
    <3>1. i \in DOMAIN g /\ j \in DOMAIN g /\ Stamped(g[i]) /\ Stamped(g[j]) /\ g[i].log = g[j].log
      BY <1>3, <1>8, <2>2
    <3>2. CASE j \in DOMAIN f
      <4>1. i \in DOMAIN f /\ g[i] = f[i] /\ g[j] = f[j]
        BY <1>4, <1>8, <3>1, <3>2
      <4> QED BY <1>1, <1>2, <1>3, <1>8, <2>2, <3>1, <3>2, <4>1 DEF EntriesInOrder, f
    <3>3. CASE j \notin DOMAIN f
      <4>1. j = Len(f) + Len(text) /\ g[j].log = l
        BY <1>5, <3>1, <3>3
      <4>2. i \in DOMAIN f
        <5> SUFFICES ASSUME i \notin DOMAIN f PROVE FALSE
          OBVIOUS
        <5>1. i = Len(f) + Len(text)
          BY <1>5, <3>1
        <5> QED BY <1>4, <1>8, <4>1, <5>1
      <4>3. g[i] = f[i]
        BY <1>4, <4>2
      <4>4. Before(f[i], g[j])
        BY <1>2, <1>6, <3>1, <3>3, <4>1, <4>2, <4>3 DEF f
      <4> QED BY <1>3, <2>2, <4>3, <4>4
    <3> QED BY <3>2, <3>3
  <2> QED BY <2>1, <2>2
\* A stamp that is new in its file is in no other one.
<1>9. ASSUME NEW i \in DOMAIN g, Stamped(g[i]),
             NEW q \in Paths, q # name, NEW j \in DOMAIN files[q]
      PROVE  g[i] # files[q][j]
  <2>1. CASE i \in DOMAIN f
    <3>1. g[i] = f[i]
      BY <1>4, <2>1
    <3> QED BY <1>1, <1>2, <1>9, <2>1, <3>1 DEF EntriesInOrder, f
  <2>2. CASE i \notin DOMAIN f
    <3> SUFFICES ASSUME g[i] = files[q][j] PROVE FALSE
      OBVIOUS
    <3>1. files[q][j] \in Tokens
      BY <1>1, <1>9 DEF DataTypeOK
    <3>2. Stamped(files[q][j]) /\ files[q][j].log = l
      BY <1>5, <1>9, <2>2
    <3>3. Before(files[q][j], g[i])
      BY <1>6, <1>9, <2>2, <3>2
    <3> QED BY <1>7, <3>1, <3>3
  <2> QED BY <2>1, <2>2
<1>10. ASSUME NEW p \in Paths, NEW q \in Paths, NEW i \in DOMAIN files'[p], NEW j \in DOMAIN files'[q],
              p # q, Stamped(files'[p][i])
       PROVE  files'[p][i] # files'[q][j]
  <2>1. CASE p = name
    BY <1>3, <1>9, <1>10, <2>1
  <2>2. CASE q = name
    <3> SUFFICES ASSUME files'[p][i] = files'[q][j] PROVE FALSE
      OBVIOUS
    <3>1. j \in DOMAIN g /\ Stamped(g[j]) /\ i \in DOMAIN files[p] /\ files[p][i] = g[j]
      BY <1>3, <1>10, <2>2
    <3> QED BY <1>9, <1>10, <2>2, <3>1
  <2>3. CASE p # name /\ q # name
    BY <1>1, <1>3, <1>10, <2>3 DEF EntriesInOrder
  <2> QED BY <2>1, <2>2, <2>3
<1>11. EntriesInOrder'
  BY <1>8, <1>10 DEF EntriesInOrder
<1>12. ASSUME NEW p \in Paths, NEW i \in DOMAIN files'[p], Stamped(files'[p][i])
       PROVE  \/ files'[p][i].run < run
              \/ files'[p][i].run = run /\ files'[p][i].index < counter'[files'[p][i].log]
  <2>1. CASE p # name
    BY <1>1, <1>3, <1>12, <2>1, StampsStayPast
  <2>2. CASE p = name
    <3>1. i \in DOMAIN g /\ Stamped(g[i])
      BY <1>3, <1>12, <2>2
    <3>2. CASE i \in DOMAIN f
      <4>1. g[i] = f[i]
        BY <1>4, <3>2
      <4> QED BY <1>1, <1>2, <1>3, <2>2, <3>1, <3>2, <4>1, StampsStayPast DEF f
    <3>3. CASE i \notin DOMAIN f
      BY <1>3, <1>5, <2>2, <3>1, <3>3
    <3> QED BY <3>2, <3>3
  <2> QED BY <2>1, <2>2
<1>13. StampsPast'
  BY <1>12 DEF StampsPast
<1> QED BY <1>11, <1>13 DEF OrderInv

\* Files that only lose what they held.
LEMMA FewerFilesOrder ==
  ASSUME OrderInv, DataTypeOK', \A p \in Paths : files'[p] = files[p] \/ files'[p] = <<>>,
         \/ UNCHANGED run /\ \A m \in Logs : counter'[m] >= counter[m]
         \/ run' = run + 1
  PROVE  OrderInv'
<1>1. DataTypeOK /\ EntriesInOrder /\ StampsPast
  BY DEF OrderInv
<1>2. ASSUME NEW p \in Paths, NEW i \in DOMAIN files'[p]
      PROVE  i \in DOMAIN files[p] /\ files'[p][i] = files[p][i] /\ files'[p] = files[p]
  BY <1>2
<1>3. EntriesInOrder'
  BY <1>1, <1>2 DEF EntriesInOrder
<1>4. ASSUME NEW p \in Paths, NEW i \in DOMAIN files'[p], Stamped(files'[p][i])
      PROVE  \/ files'[p][i].run < run'
             \/ files'[p][i].run = run' /\ files'[p][i].index < counter'[files'[p][i].log]
  <2>1. i \in DOMAIN files[p] /\ files'[p][i] = files[p][i]
    BY <1>2, <1>4
  <2>2. CASE UNCHANGED run /\ \A m \in Logs : counter'[m] >= counter[m]
    BY <1>1, <1>4, <2>1, <2>2, StampsStayPast
  <2>3. CASE run' = run + 1
    <3>1. files[p][i].run \in Int /\ run \in Int
      <4>1. files[p][i] \in Tokens
        BY <1>1, <1>4, <2>1 DEF DataTypeOK
      <4> QED BY <1>1, <4>1 DEF DataTypeOK, Tokens
    <3>2. files[p][i].run <= run
      BY <1>1, <1>4, <2>1, <3>1 DEF StampsPast
    <3> QED BY <2>1, <2>3, <3>1, <3>2
  <2> QED BY <2>2, <2>3
<1>5. StampsPast'
  BY <1>4 DEF StampsPast
<1> QED BY <1>3, <1>5 DEF OrderInv

LEMMA OrderStep == OrderInv /\ DataTypeOK' /\ [Next]_vars => OrderInv'
<1> SUFFICES ASSUME OrderInv, DataTypeOK', [Next]_vars PROVE OrderInv'
  OBVIOUS
<1>0. DataTypeOK
  BY DEF OrderInv
<1>1. ASSUME NEW l \in Logs, Tick(l) PROVE OrderInv'
  <2>1. UNCHANGED run /\ counter' = [counter EXCEPT ![l] = @ + 1]
    BY <1>1 DEF Tick, CountTick
  <2>2. counter[l] < counter'[l] /\ \A m \in Logs : counter'[m] >= counter[m]
    BY <1>0, <2>1 DEF DataTypeOK
  <2>3. CASE HeaderTick(l)
    <3>1. counter[l] = 0
      BY <2>3 DEF HeaderTick
    <3>2. CASE Opens(HeaderName(l))
      <4> DEFINE text == <<Token(l, "header", 0)>>
      <4>1. AppendTo(HeaderName(l), l, text, TRUE) /\ HeaderName(l) \in Writable /\ text \in Seq(Tokens)
        BY <1>0, <2>3, <3>2, TextType DEF HeaderTick, WriteHeader, Opens
      <4>2. \A j \in DOMAIN text :
              /\ j = Len(text) /\ text[j].log = l /\ text[j].run = run /\ text[j].index = counter[l]
        BY <3>1 DEF Token
      <4> HIDE DEF text
      <4> QED BY <2>1, <2>2, <4>1, <4>2, AppendOrder
    <3>3. CASE ~Opens(HeaderName(l))
      BY <2>1, <2>2, <2>3, <3>3, FewerFilesOrder DEF HeaderTick, WriteHeader
    <3> QED BY <3>2, <3>3
  <2>4. CASE EntryTick(l)
    <3>1. CASE Opens(file[l]) /\ writer[l] # "idle"
      <4> DEFINE text == Append(Closing(l), Token(l, "entry", counter[l]))
      <4>1. PICK kept : AppendTo(file[l], l, text, kept)
        BY <2>4, <3>1 DEF EntryTick
      <4>2. file[l] \in Writable /\ text \in Seq(Tokens)
        BY <1>0, <3>1, TextType DEF Opens
      <4>3. \A j \in DOMAIN text : Stamped(text[j]) =>
              /\ j = Len(text) /\ text[j].log = l /\ text[j].run = run /\ text[j].index = counter[l]
        BY DEF Token, Closing, Stamped
      <4> HIDE DEF text
      <4> QED BY <2>1, <2>2, <4>1, <4>2, <4>3, AppendOrder
    <3>2. CASE ~(Opens(file[l]) /\ writer[l] # "idle")
      BY <2>1, <2>2, <2>4, <3>2, FewerFilesOrder DEF EntryTick
    <3> QED BY <3>1, <3>2
  <2> QED BY <1>1, <2>3, <2>4 DEF Tick
<1>2. ASSUME NEW l \in Logs, Complete(l) PROVE OrderInv'
  <2>1. UNCHANGED <<run, counter>> /\ \A m \in Logs : counter'[m] >= counter[m]
    BY <1>0, <1>2 DEF Complete, DataTypeOK
  <2>2. CASE Opens(file[l])
    <3> DEFINE text == Ending(l)
    <3>1. AppendTo(file[l], l, text, intact[l]) /\ file[l] \in Writable /\ text \in Seq(Tokens)
      BY <1>0, <1>2, <2>2, TextType DEF Complete, Opens
    <3>2. \A j \in DOMAIN text : ~Stamped(text[j])
      BY DEF Ending, Token, Stamped
    <3> HIDE DEF text
    <3> QED BY <2>1, <3>1, <3>2, AppendOrder
  <2>3. CASE ~Opens(file[l])
    BY <1>2, <2>1, <2>3, FewerFilesOrder DEF Complete
  <2> QED BY <2>2, <2>3
<1>3. ASSUME NEW l \in Logs, Reset(l) PROVE OrderInv'
  <2>1. /\ UNCHANGED <<run, counter>> /\ \A m \in Logs : counter'[m] >= counter[m]
        /\ \A p \in Paths : files'[p] = files[p] \/ files'[p] = <<>>
    BY <1>0, <1>3 DEF Reset, DataTypeOK
  <2> QED BY <2>1, FewerFilesOrder
<1>4. ASSUME NEW l \in Logs, NEW p \in Paths \cup {NoName}, Browse(l, p) PROVE OrderInv'
  <2>1. UNCHANGED <<run, counter, files>> /\ \A m \in Logs : counter'[m] >= counter[m]
    BY <1>0, <1>4 DEF Browse, DataTypeOK
  <2> QED BY <2>1, FewerFilesOrder
<1>5. CASE Restart
  BY <1>5, FewerFilesOrder DEF Restart
<1>6. CASE UNCHANGED vars
  <2>1. UNCHANGED <<run, counter, files>> /\ \A m \in Logs : counter'[m] >= counter[m]
    BY <1>0, <1>6 DEF vars, memoryVars, DataTypeOK
  <2> QED BY <2>1, FewerFilesOrder
<1> QED BY <1>1, <1>2, <1>3, <1>4, <1>5, <1>6 DEF Next

\* In every file and over every restart, the headers and entries of one log
\* stand in the order of its runs and ticks, and none is written twice, in one
\* file or in two.
THEOREM EntriesInOrderAlways == Spec => []EntriesInOrder
<1>1. OrderInv => EntriesInOrder
  BY DEF OrderInv
<1>2. Spec => []DataTypeOK
  BY DataTypeInit, DataTypeStep, PTL DEF Spec
<1> QED BY <1>1, <1>2, OrderInit, OrderStep, PTL DEF Spec
=============================================================================
