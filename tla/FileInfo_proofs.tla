-------------------------- MODULE FileInfo_proofs --------------------------
(***************************************************************************)
(* Proofs about FileInfo: its type invariant; that a download gives what   *)
(* was asked for, and that the information which is told is what the       *)
(* camera says, however the functions call each other.                     *)
(***************************************************************************)
EXTENDS FileInfo, SequenceTheorems, TLAPS

(***************************************************************************)
(* Frames by what they do with their file: fill it, or rely on what it     *)
(* holds.  Of the first, some own the file, and some serve their caller.   *)
(***************************************************************************)
Owning  == {"get", "got", "second"}
Serving == {"impl", "driver file", "sized"}
Filling == Owning \union Serving
Full    == {"cached", "take", "stamped", "searched"}

GoodFrame ==
  {f \in FrameType :
     /\ f.at \in Filling \union Full \union {"exif read"} => f.file \in File
     /\ f.at = "second" => f.spare \in File /\ f.kind \in {"preview", "exif"}
     /\ f.at = "sized" => f.kind = "normal"}

TInv == TypeOK /\ stack \in Seq(GoodFrame)

LEMMA NewFileIsFree == ASSUME Free # {} PROVE NewFile \in Free /\ NewFile \in File
BY DEF NewFile, Free

(* What the three moves of the stack do. *)

LEMMA TopType ==
  ASSUME TInv, stack # << >>
  PROVE  /\ Top = stack[1] /\ Top \in GoodFrame /\ Top \in FrameType
         /\ Len(stack) \in Nat \ {0}
         /\ \A i \in 1 .. Len(stack) : stack[i] \in GoodFrame
<1>1. /\ Len(stack) \in Nat \ {0}
      /\ \A i \in 1 .. Len(stack) : stack[i] \in GoodFrame
  BY EmptySeq, ElementOfSeq DEF TInv
<1>2. Top = stack[1]
  BY HeadTailProperties DEF TInv, Top
<1>3. GoodFrame \subseteq FrameType
  BY DEF GoodFrame
<1> QED
  BY <1>1, <1>2, <1>3

LEMMA Popped ==
  ASSUME TInv, stack # << >>, stack' = Tail(stack)
  PROVE  /\ stack' \in Seq(GoodFrame)
         /\ Len(stack') = Len(stack) - 1
         /\ \A i \in 1 .. Len(stack') : stack'[i] = stack[i + 1]
BY HeadTailProperties, TopType DEF TInv

LEMMA Gone ==
  ASSUME TInv, stack # << >>, NEW g \in GoodFrame, Goes(g)
  PROVE  /\ stack' \in Seq(GoodFrame)
         /\ Len(stack') = Len(stack)
         /\ stack'[1] = g
         /\ \A i \in 2 .. Len(stack') : stack'[i] = stack[i]
BY HeadTailProperties, TopType DEF TInv, Goes

LEMMA Called ==
  ASSUME TInv, stack # << >>, NEW g \in GoodFrame, NEW f \in GoodFrame, Calls(g, f)
  PROVE  /\ stack' \in Seq(GoodFrame)
         /\ Len(stack') = Len(stack) + 1
         /\ stack'[1] = f /\ stack'[2] = g
         /\ \A i \in 3 .. Len(stack') : stack'[i] = stack[i - 1]
BY HeadTailProperties, TopType DEF TInv, Calls

(***************************************************************************)
(* Type correctness.                                                       *)
(***************************************************************************)
Codes == {"none", "ok", "error", "unsupported", "not found"}

EntryType == [known : BOOLEAN, dirty : BOOLEAN, info : InfoType]
CamType   == [perm : BOOLEAN, time : Time]

\* TypeOK without the stack.
DataOK ==
  /\ driver \in Driver /\ photo \in Photo /\ cam \in CamType
  /\ listed \in BOOLEAN /\ entry \in EntryType
  /\ slot \in [Kind -> File \union {NoFile}]
  /\ obj \in [File -> Content] /\ app \in File
  /\ ret \in [code : Codes, info : InfoType]
  /\ op \in Kind \union {"none", "info", "set"} /\ faulty \in BOOLEAN

LEMMA TypesSplit == TInv <=> DataOK /\ stack \in Seq(GoodFrame)
<1>1. GoodFrame \subseteq FrameType
  BY DEF GoodFrame
<1>2. stack \in Seq(GoodFrame) => stack \in Seq(FrameType)
  BY <1>1, SeqMonotonic
<1> QED
  BY <1>2 DEF TInv, TypeOK, DataOK, Codes, EntryType, CamType

LEMMA TypesPrime == DataOK' /\ stack' \in Seq(GoodFrame) => TInv'
<1>1. GoodFrame \subseteq FrameType
  BY DEF GoodFrame
<1>2. stack' \in Seq(GoodFrame) => stack' \in Seq(FrameType)
  BY <1>1, SeqMonotonic
<1> QED
  BY <1>2 DEF TInv, TypeOK, DataOK, Codes, EntryType, CamType

LEMMA NewFrames ==
  ASSUME NEW k \in Kind, NEW f \in File
  PROVE  /\ \A at \in Labels \ {"second", "sized"} : Frame(at, k, f) \in GoodFrame
         /\ \A at \in {"info", "exif time", "driver list", "driver info", "set"} :
              Frame(at, k, NoFile) \in GoodFrame
<1>1. << >> \in Seq(Kind \union {"info"})
  OBVIOUS
<1>2. \A at \in Labels, g \in File \union {NoFile} : Frame(at, k, g) \in FrameType
  BY <1>1 DEF Frame, FrameType
<1> QED
  BY <1>2 DEF Frame, GoodFrame, Labels, Filling, Owning, Serving, Full, NoFile

LEMMA ContinuedFrames ==
  ASSUME NEW g \in GoodFrame, NEW label \in Labels \ {"second", "sized"},
         label \in Filling \union Full \union {"exif read"} => g.file \in File
  PROVE  [g EXCEPT !.at = label] \in GoodFrame
<1> DEFINE h == [g EXCEPT !.at = label]
<1>1. g \in FrameType /\ label \in Labels
  BY DEF GoodFrame
<1>2. h \in FrameType
  BY <1>1 DEF FrameType
<1>3. h.at = label /\ h.file = g.file
  BY <1>1 DEF FrameType
<1>4. h \in GoodFrame
  <2> HIDE DEF h
  <2> QED
    BY <1>2, <1>3 DEF GoodFrame
<1> QED
  BY <1>4

LEMMA DataTypes ==
  ASSUME DataOK
  PROVE  /\ driver \in DriverType /\ photo \in PhotoType
         /\ Blank \in Content /\ NoInfo \in InfoType /\ NoEntry \in EntryType
         /\ SentInfo \in InfoType
         /\ \A k \in Kind : Sent(k) \in Content
         /\ \A time \in Time \union {None} : [perm |-> FALSE, time |-> time] \in InfoType
<1>1. driver \in DriverType /\ photo \in PhotoType
  BY FileInfoAssumption DEF DataOK
<1>2. Blank \in Content /\ NoInfo \in InfoType /\ NoEntry \in EntryType
  BY DEF Blank, Content, NoInfo, InfoType, NoEntry, EntryType
<1>3. cam.perm \in BOOLEAN /\ cam.time \in Time /\ photo.date \in Time \union {None}
  BY <1>1 DEF DataOK, CamType, PhotoType
<1>4. SentInfo \in InfoType
  BY <1>3 DEF SentInfo, InfoType, Told
<1>5. \A k \in Kind : Sent(k) \in Content
  BY <1>3 DEF Sent, Content, Told
<1> QED
  BY <1>1, <1>2, <1>4, <1>5 DEF InfoType

LEMMA Returned ==
  ASSUME TInv, stack # << >>, NEW code \in Codes, NEW info \in InfoType, Returns(code, info)
  PROVE  stack' \in Seq(GoodFrame) /\ ret' \in [code : Codes, info : InfoType]
BY Popped DEF Returns

\* What a function finds when it is its turn.
LEMMA TurnTypes ==
  ASSUME TInv, NEW label, At(label)
  PROVE  /\ stack # << >> /\ Top.at = label /\ Top \in GoodFrame /\ Top \in FrameType
         /\ Top.kind \in Kind
         /\ label \in Filling \union Full \union {"exif read"} => Top.file \in File
         /\ label = "second" => Top.spare \in File /\ Top.kind \in {"preview", "exif"}
         /\ label = "sized" => Top.kind = "normal"
         /\ NewFile \in Free /\ NewFile \in File
<1>1. stack # << >> /\ Top.at = label /\ Free # {}
  BY DEF At
<1> QED
  BY <1>1, TopType, NewFileIsFree DEF GoodFrame, FrameType

LEMMA ListTypes ==
  ASSUME TInv, ListFolder \/ NotFound
  PROVE  TInv'
<1>1. DataOK
  BY TypesSplit
<1>2. PICK label \in Seeks : At(label)
  BY DEF ListFolder, NotFound
<1>3. CASE ListFolder
  <2>1. Frame("driver list", "normal", NoFile) \in GoodFrame
    BY NewFrames, FileInfoAssumption DEF Kind
  <2>2. stack' \in Seq(GoodFrame)
    BY <1>2, <1>3, <2>1, TurnTypes, Called DEF ListFolder
  <2> QED
    BY <1>1, <1>3, <2>2, TypesPrime DEF ListFolder, DataOK, Fixed, Memory
<1>4. CASE NotFound
  <2>1. stack' \in Seq(GoodFrame) /\ ret' \in [code : Codes, info : InfoType]
    BY <1>1, <1>2, <1>4, TurnTypes, Returned, DataTypes DEF NotFound, Fails, Codes
  <2> QED
    BY <1>1, <1>4, <2>1, TypesPrime DEF NotFound, DataOK, Fixed, Memory, Cache
<1> QED
  BY <1>3, <1>4

LEMMA LookForTimeTypes ==
  ASSUME TInv, stack # << >>, LookForTime
  PROVE  stack' \in Seq(GoodFrame) /\ ret' \in [code : Codes, info : InfoType]
<1>1. DataOK
  BY TypesSplit
<1>2. CASE entry.info.time # None
  BY <1>1, <1>2, Returned DEF LookForTime, DataOK, EntryType, Codes
<1>3. CASE entry.info.time = None
  <2>1. Frame("exif time", "exif", NoFile) \in GoodFrame
    BY NewFrames, FileInfoAssumption DEF Kind
  <2>2. Continue("timed") \in GoodFrame
    BY TopType, ContinuedFrames DEF Continue, Labels, Filling, Owning, Serving, Full
  <2> QED
    BY <1>1, <1>3, <2>1, <2>2, Called DEF LookForTime, DataOK
<1> QED
  BY <1>2, <1>3

LEMMA InfoTypes ==
  ASSUME TInv, InfoUnsupported \/ InfoClean \/ InfoDirty \/ InfoAsked \/ InfoTimed
  PROVE  TInv'
<1>1. DataOK /\ stack # << >>
  BY TypesSplit
     DEF InfoUnsupported, InfoClean, InfoDirty, InfoAsked, InfoTimed, Found, At
<1>2. CASE InfoUnsupported
  <2>1. stack' \in Seq(GoodFrame) /\ ret' \in [code : Codes, info : InfoType]
    BY <1>1, <1>2, Returned, DataTypes DEF InfoUnsupported, Fails, Codes
  <2> QED
    BY <1>1, <1>2, <2>1, TypesPrime DEF InfoUnsupported, DataOK, Fixed, Memory, Cache
<1>3. CASE InfoClean
  <2>1. stack' \in Seq(GoodFrame) /\ ret' \in [code : Codes, info : InfoType]
    BY <1>1, <1>3, LookForTimeTypes DEF InfoClean
  <2> QED
    BY <1>1, <1>3, <2>1, TypesPrime DEF InfoClean, DataOK, Fixed, Memory, Cache
<1>4. CASE InfoDirty
  <2>1. Frame("driver info", "normal", NoFile) \in GoodFrame
    BY NewFrames, FileInfoAssumption DEF Kind
  <2>2. Continue("asked") \in GoodFrame
    BY <1>1, TopType, ContinuedFrames DEF Continue, Labels, Filling, Owning, Serving, Full
  <2>3. stack' \in Seq(GoodFrame)
    BY <1>1, <1>4, <2>1, <2>2, Called DEF InfoDirty
  <2> QED
    BY <1>1, <1>4, <2>3, TypesPrime DEF InfoDirty, DataOK, Fixed, Memory, Cache
<1>5. CASE InfoAsked
  <2>1. stack' \in Seq(GoodFrame) /\ ret' \in [code : Codes, info : InfoType]
    <3>1. CASE ret.code = "ok"
      BY <1>1, <1>5, <3>1, LookForTimeTypes DEF InfoAsked
    <3>2. CASE ret.code # "ok"
      BY <1>1, <1>5, <3>2, Returned, DataTypes DEF InfoAsked, Fails, DataOK
    <3> QED
      BY <3>1, <3>2
  <2>2. entry' \in EntryType
    BY <1>1, <1>5 DEF InfoAsked, DataOK, EntryType
  <2> QED
    BY <1>1, <1>5, <2>1, <2>2, TypesPrime DEF InfoAsked, DataOK, Fixed, Memory
<1>6. CASE InfoTimed
  <2> DEFINE info == IF ret.info.time = None THEN entry.info
                     ELSE [entry.info EXCEPT !.time = ret.info.time]
  <2>1. info \in InfoType
    BY <1>1 DEF DataOK, EntryType, InfoType
  <2>2. Returns("ok", info) /\ entry' = [entry EXCEPT !.info = info]
    BY <1>6 DEF InfoTimed
  <2>3. stack' \in Seq(GoodFrame) /\ ret' \in [code : Codes, info : InfoType]
    BY <1>1, <2>1, <2>2, Returned DEF Codes
  <2>4. entry' \in EntryType
    BY <1>1, <2>1, <2>2 DEF DataOK, EntryType
  <2> QED
    BY <1>1, <1>6, <2>3, <2>4, TypesPrime DEF InfoTimed, DataOK, Fixed, Memory
<1> QED
  BY <1>2, <1>3, <1>4, <1>5, <1>6

LEMMA PutTypes ==
  ASSUME DataOK, NEW f \in File, NEW c \in Content, Put(f, c)
  PROVE  obj' \in [File -> Content]
BY DEF DataOK, Put

LEMMA ExifTypes ==
  ASSUME TInv, ExifTime \/ ExifRead
  PROVE  TInv'
<1>1. DataOK /\ stack # << >>
  BY TypesSplit DEF ExifTime, ExifRead, At
<1>2. CASE ExifTime /\ driver.jpeg
  <2>1. NewFile \in File /\ Top \in GoodFrame
    BY <1>2, TurnTypes DEF ExifTime
  <2>2. Frame("get", "exif", NewFile) \in GoodFrame
    BY <2>1, NewFrames DEF Kind, Labels
  <2>3. [Continue("exif read") EXCEPT !.file = NewFile] \in GoodFrame
    BY <2>1 DEF Continue, GoodFrame, FrameType, Labels, Filling, Owning, Serving, Full
  <2>4. stack' \in Seq(GoodFrame)
    BY <1>1, <1>2, <2>2, <2>3, Called DEF ExifTime
  <2>5. obj' \in [File -> Content]
    BY <1>1, <1>2, <2>1, PutTypes, DataTypes DEF ExifTime
  <2> QED
    BY <1>1, <1>2, <2>4, <2>5, TypesPrime DEF ExifTime, DataOK, Fixed, Cache
<1>3. CASE ExifTime /\ ~driver.jpeg
  <2>1. stack' \in Seq(GoodFrame) /\ ret' \in [code : Codes, info : InfoType]
    BY <1>1, <1>3, Returned, DataTypes DEF ExifTime, Finds, Codes
  <2> QED
    BY <1>1, <1>3, <2>1, TypesPrime DEF ExifTime, DataOK, Fixed, Cache
<1>4. CASE ExifRead
  <2>1. Top.file \in File
    BY <1>4, TurnTypes DEF ExifRead
  <2>2. obj[Top.file].date \in Time \union {None}
    BY <1>1, <2>1 DEF DataOK, Content
  <2>3. stack' \in Seq(GoodFrame) /\ ret' \in [code : Codes, info : InfoType]
    BY <1>1, <1>4, <2>2, Returned, DataTypes DEF ExifRead, Finds, Codes
  <2> QED
    BY <1>1, <1>4, <2>3, TypesPrime DEF ExifRead, DataOK, Fixed, Memory, Cache
<1> QED
  BY <1>2, <1>3, <1>4

LEMMA FailsTypes ==
  ASSUME TInv, stack # << >>, NEW code \in Codes, Fails(code)
  PROVE  stack' \in Seq(GoodFrame) /\ ret' \in [code : Codes, info : InfoType]
BY Returned, DataTypes, TypesSplit DEF Fails

LEMMA SucceedsTypes ==
  ASSUME TInv, stack # << >>, Succeeds
  PROVE  stack' \in Seq(GoodFrame) /\ ret' \in [code : Codes, info : InfoType]
BY Returned, DataTypes, TypesSplit DEF Succeeds, Codes

LEMMA GetTypes ==
  ASSUME TInv, GetFile \/ GotFile \/ Cached \/ CopyCached \/ Download
  PROVE  TInv'
<1>1. DataOK /\ stack # << >>
  BY TypesSplit DEF GetFile, GotFile, Cached, CopyCached, Download, Found, At
<1>2. ret.code \in Codes
  BY <1>1 DEF DataOK
<1>3. CASE GetFile
  <2>1. Top \in GoodFrame /\ Top.file \in File
    BY <1>3, TurnTypes DEF GetFile, Filling, Owning
  <2>2. Continue("got") \in GoodFrame /\ Continue("impl") \in GoodFrame
    BY <2>1, ContinuedFrames DEF Continue, Labels
  <2>3. stack' \in Seq(GoodFrame)
    BY <1>1, <1>3, <2>2, Called DEF GetFile, Continue
  <2> QED
    BY <1>1, <1>3, <2>3, TypesPrime DEF GetFile, DataOK, Fixed, Memory, Cache
<1>4. CASE GotFile /\ ret.code = "unsupported" /\ Top.kind \in {"preview", "exif"}
  <2>1. Top \in GoodFrame /\ Top.file \in File /\ NewFile \in File
    BY <1>4, TurnTypes DEF GotFile, Filling, Owning
  <2>2. Elsewhere(Top.kind) \in Kind
    BY <1>4 DEF Elsewhere, Kind
  <2>3. Frame("impl", Elsewhere(Top.kind), NewFile) \in GoodFrame
    BY <2>1, <2>2, NewFrames DEF Labels
  <2>4. [Continue("second") EXCEPT !.spare = NewFile] \in GoodFrame
    BY <1>4, <2>1 DEF Continue, GoodFrame, FrameType, Labels, Filling, Owning, Serving, Full
  <2>5. stack' \in Seq(GoodFrame)
    BY <1>1, <1>4, <2>3, <2>4, Called DEF GotFile
  <2>6. obj' \in [File -> Content]
    BY <1>1, <1>4, <2>1, PutTypes, DataTypes DEF GotFile
  <2> QED
    BY <1>1, <1>4, <2>5, <2>6, TypesPrime DEF GotFile, DataOK, Fixed, Cache
<1>5. CASE GotFile /\ ~(ret.code = "unsupported" /\ Top.kind \in {"preview", "exif"})
  <2>1. stack' \in Seq(GoodFrame) /\ ret' \in [code : Codes, info : InfoType]
    BY <1>1, <1>2, <1>5, FailsTypes DEF GotFile
  <2> QED
    BY <1>1, <1>5, <2>1, TypesPrime DEF GotFile, DataOK, Fixed, Cache
<1>6. CASE Cached
  <2>1. stack' \in Seq(GoodFrame) /\ ret' \in [code : Codes, info : InfoType]
    BY <1>1, <1>2, <1>6, FailsTypes DEF Cached
  <2> QED
    BY <1>1, <1>6, <2>1, TypesPrime DEF Cached, DataOK, Fixed, Memory, Cache
<1>7. CASE CopyCached
  <2>1. Top.file \in File /\ Top.kind \in Kind
    BY <1>7, TurnTypes DEF CopyCached, Found, Filling, Serving
  <2>2. slot[Top.kind] \in File
    BY <1>1, <1>7, <2>1 DEF CopyCached, DataOK
  <2>3. obj[slot[Top.kind]] \in Content
    BY <1>1, <2>2 DEF DataOK
  <2>4. obj' \in [File -> Content]
    BY <1>1, <1>7, <2>1, <2>3, PutTypes DEF CopyCached, Copy
  <2>5. stack' \in Seq(GoodFrame) /\ ret' \in [code : Codes, info : InfoType]
    BY <1>1, <1>7, SucceedsTypes DEF CopyCached
  <2> QED
    BY <1>1, <1>7, <2>4, <2>5, TypesPrime DEF CopyCached, DataOK, Fixed, Cache
<1>8. CASE Download
  <2>1. Top \in GoodFrame /\ Top.file \in File
    BY <1>8, TurnTypes DEF Download, Found, Filling, Serving
  <2>2. Continue("driver file") \in GoodFrame
    BY <2>1, ContinuedFrames DEF Continue, Labels
  <2>3. stack' \in Seq(GoodFrame)
    BY <1>1, <1>8, <2>2, Gone DEF Download
  <2> QED
    BY <1>1, <1>8, <2>3, TypesPrime DEF Download, DataOK, Fixed, Memory, Cache
<1> QED
  BY <1>3, <1>4, <1>5, <1>6, <1>7, <1>8

LEMMA SecondTypes ==
  ASSUME TInv, GotSecond
  PROVE  TInv'
<1>1. DataOK /\ stack # << >>
  BY TypesSplit DEF GotSecond, At
<1>2. /\ Top \in GoodFrame /\ Top.file \in File /\ Top.spare \in File
      /\ Top.kind \in Kind
  BY TurnTypes DEF GotSecond, Filling, Owning
<1> DEFINE from == obj[Top.spare]
           good == ret.code = "ok" /\ (Top.kind = "exif" \/ HasThumb(from))
<1>3. CASE good
  <2>1. from \in Content /\ obj[Top.file] \in Content
    BY <1>1, <1>2 DEF DataOK
  <2>2. Extracted(Top.kind, from) \in Content
    BY <1>2, <2>1 DEF Extracted, Content
  <2>3. /\ Put(Top.file, Extracted(Top.kind, from))
        /\ Calls([Continue("cached") EXCEPT !.spare = NoFile],
                 Frame("take", Top.kind, Top.file))
        /\ UNCHANGED ret
    BY <1>3 DEF GotSecond
  <2>4. obj' \in [File -> Content]
    BY <1>1, <1>2, <2>2, <2>3, PutTypes
  <2>5. Frame("take", Top.kind, Top.file) \in GoodFrame
    BY <1>2, NewFrames DEF Labels
  <2>6. [Continue("cached") EXCEPT !.spare = NoFile] \in GoodFrame
    BY <1>2 DEF Continue, GoodFrame, FrameType, Labels, Filling, Owning, Serving, Full
  <2>7. stack' \in Seq(GoodFrame)
    BY <1>1, <2>3, <2>5, <2>6, Called
  <2> QED
    BY <1>1, <2>3, <2>4, <2>7, TypesPrime DEF GotSecond, DataOK, Fixed, Cache
<1>4. CASE ~good
  <2>1. Fails(IF ret.code = "ok" THEN "unsupported" ELSE ret.code) /\ UNCHANGED obj
    BY <1>4 DEF GotSecond
  <2>2. stack' \in Seq(GoodFrame) /\ ret' \in [code : Codes, info : InfoType]
    BY <1>1, <2>1, FailsTypes DEF DataOK, Codes
  <2> QED
    BY <1>1, <2>1, <2>2, TypesPrime DEF GotSecond, DataOK, Fixed, Cache
<1> QED
  BY <1>3, <1>4

LEMMA TakeTypes ==
  ASSUME TInv, TakeFile \/ Stamped \/ Searched
  PROVE  TInv'
<1>1. DataOK /\ stack # << >>
  BY TypesSplit DEF TakeFile, Stamped, Searched, Found, At
<1>2. Top \in GoodFrame /\ Top.file \in File /\ Top.kind \in Kind
  BY TurnTypes DEF TakeFile, Stamped, Searched, Found, Full
<1>3. obj[Top.file] \in Content
  BY <1>1, <1>2 DEF DataOK
<1>4. /\ Frame("info", "normal", NoFile) \in GoodFrame
      /\ Frame("exif time", "exif", NoFile) \in GoodFrame
  BY NewFrames, FileInfoAssumption DEF Kind
<1>5. ASSUME NEW time \in Time \union {None}, Stamp(time)
      PROVE  obj' \in [File -> Content]
  <2>1. [obj[Top.file] EXCEPT !.mtime = time] \in Content
    BY <1>3 DEF Content
  <2> QED
    BY <1>1, <1>2, <1>5, <2>1, PutTypes DEF Stamp
<1>6. CASE TakeFile
  <2>1. slot' \in [Kind -> File \union {NoFile}]
    BY <1>1, <1>2, <1>6 DEF TakeFile, DataOK
  <2>2. Continue("stamped") \in GoodFrame
    BY <1>2, ContinuedFrames DEF Continue, Labels
  <2>3. stack' \in Seq(GoodFrame) /\ ret' \in [code : Codes, info : InfoType]
    BY <1>1, <1>4, <1>6, <2>2, Called, SucceedsTypes DEF TakeFile, DataOK
  <2> QED
    BY <1>1, <1>6, <2>1, <2>3, TypesPrime DEF TakeFile, DataOK, Fixed, Memory
<1>7. CASE Stamped
  <2> DEFINE known == ret.code = "ok" /\ ret.info.time # None
             time  == IF known THEN ret.info.time
                      ELSE IF Top.kind = "normal" THEN obj[Top.file].date ELSE None
  <2>1. time \in Time \union {None}
    BY <1>1, <1>3 DEF DataOK, Content, InfoType
  <2>2. IF time # None THEN Stamp(time) /\ Succeeds
        ELSE /\ Calls(Continue("searched"), Frame("exif time", "exif", NoFile))
             /\ UNCHANGED <<obj, ret>>
    BY <1>7 DEF Stamped
  <2>3. Continue("searched") \in GoodFrame
    BY <1>2, ContinuedFrames DEF Continue, Labels
  <2> HIDE DEF time
  <2>4. CASE time # None
    <3>1. obj' \in [File -> Content]
      BY <1>5, <2>1, <2>2, <2>4
    <3>2. stack' \in Seq(GoodFrame) /\ ret' \in [code : Codes, info : InfoType]
      BY <1>1, <2>2, <2>4, SucceedsTypes
    <3> QED
      BY <1>1, <1>7, <3>1, <3>2, TypesPrime DEF Stamped, DataOK, Fixed, Cache
  <2>5. CASE time = None
    <3>1. stack' \in Seq(GoodFrame)
      BY <1>1, <1>4, <2>2, <2>3, <2>5, Called
    <3> QED
      BY <1>1, <1>7, <2>2, <2>5, <3>1, TypesPrime DEF Stamped, DataOK, Fixed, Cache
  <2> QED
    BY <2>4, <2>5
<1>8. CASE Searched
  <2>1. ret.info.time \in Time \union {None}
    BY <1>1 DEF DataOK, InfoType
  <2>2. obj' \in [File -> Content]
    BY <1>5, <1>8, <2>1 DEF Searched
  <2>3. stack' \in Seq(GoodFrame) /\ ret' \in [code : Codes, info : InfoType]
    BY <1>1, <1>8, SucceedsTypes DEF Searched
  <2> QED
    BY <1>1, <1>8, <2>2, <2>3, TypesPrime DEF Searched, DataOK, Fixed, Cache
<1> QED
  BY <1>6, <1>7, <1>8

LEMMA SetTypes ==
  ASSUME TInv, SetInfo \/ SetInfoFails
  PROVE  TInv'
<1>1. DataOK /\ stack # << >>
  BY TypesSplit DEF SetInfo, SetInfoFails, Found, At
<1>2. ASSUME NEW fields, NEW perm \in BOOLEAN, NEW time \in Time
      PROVE  Changed(fields, perm, time) \in CamType
  BY <1>1 DEF DataOK, CamType, Changed
<1>3. stack' \in Seq(GoodFrame) /\ ret' \in [code : Codes, info : InfoType]
  BY <1>1, FailsTypes, SucceedsTypes DEF SetInfo, SetsReadOnly, Sets, SetInfoFails, Codes
<1>4. CASE UNCHANGED <<cam, entry>>
  BY <1>1, <1>3, <1>4, TypesPrime DEF SetInfo, SetInfoFails, DataOK, Fixed, Memory
<1>5. CASE SetInfo /\ driver.sets # {} /\ Sets
  <2>1. PICK fields \in SUBSET {"perm", "time"}, perm \in BOOLEAN, time \in Time :
          /\ cam' = Changed(fields \intersect driver.sets, perm, time)
          /\ entry' = [entry EXCEPT !.info.perm = IF "perm" \in fields THEN perm ELSE @]
    BY <1>5 DEF Sets
  <2>2. cam' \in CamType
    BY <1>2, <2>1
  <2>3. entry \in EntryType /\ entry.info \in InfoType
    BY <1>1 DEF DataOK, EntryType
  <2>4. [entry.info EXCEPT !.perm = IF "perm" \in fields THEN perm ELSE @] \in InfoType
    BY <2>3 DEF InfoType
  <2>5. entry' = [entry EXCEPT !.info = [entry.info EXCEPT
                    !.perm = IF "perm" \in fields THEN perm ELSE @]]
    BY <2>1, <2>3 DEF EntryType, InfoType
  <2>6. entry' \in EntryType
    BY <2>3, <2>4, <2>5 DEF EntryType
  <2> QED
    BY <1>1, <1>3, <1>5, <2>2, <2>6, TypesPrime DEF SetInfo, DataOK, Fixed, Memory
<1>6. CASE SetInfoFails
  <2>1. PICK done \in SUBSET driver.sets, perm \in BOOLEAN, time \in Time :
          cam' = Changed(done, perm, time)
    BY <1>6 DEF SetInfoFails
  <2>2. cam' \in CamType
    BY <1>2, <2>1
  <2>3. entry' \in EntryType
    BY <1>1, <1>6 DEF SetInfoFails, DataOK, EntryType
  <2> QED
    BY <1>1, <1>3, <1>6, <2>2, <2>3, TypesPrime DEF SetInfoFails, DataOK, Fixed, Memory
<1> QED
  BY <1>4, <1>5, <1>6 DEF SetInfo, SetsReadOnly

\* What the driver still has to hand over.
LEMMA RestTypes ==
  ASSUME TInv, stack # << >>
  PROVE  /\ Top.rest \in Seq(Kind \union {"info"})
         /\ Top.rest # << >> =>
              /\ Head(Top.rest) \in Kind \union {"info"}
              /\ Tail(Top.rest) \in Seq(Kind \union {"info"})
<1>1. Top.rest \in Seq(Kind \union {"info"})
  BY TopType DEF FrameType
<1> QED
  BY <1>1, HeadTailProperties

LEMMA RestFrames ==
  ASSUME NEW g \in GoodFrame, NEW rest \in Seq(Kind \union {"info"})
  PROVE  /\ [g EXCEPT !.rest = rest] \in GoodFrame
         /\ [[g EXCEPT !.at = "handed"] EXCEPT !.rest = rest] \in GoodFrame
<1>1. ASSUME NEW h \in GoodFrame
      PROVE  [h EXCEPT !.rest = rest] \in GoodFrame
  <2> DEFINE r == [h EXCEPT !.rest = rest]
  <2>1. h \in FrameType
    BY DEF GoodFrame
  <2>2. r \in FrameType
    BY <2>1 DEF FrameType
  <2>3. r.at = h.at /\ r.file = h.file /\ r.spare = h.spare /\ r.kind = h.kind
    BY <2>1 DEF FrameType
  <2>4. r \in GoodFrame
    <3> HIDE DEF r
    <3> QED
      BY <2>2, <2>3 DEF GoodFrame
  <2> QED
    BY <2>4
<1>2. [g EXCEPT !.at = "handed"] \in GoodFrame
  BY ContinuedFrames DEF Labels, Filling, Owning, Serving, Full
<1> QED
  BY <1>1, <1>2

LEMMA HandTypes ==
  ASSUME TInv, DriverFails \/ DriverList \/ HandInfo \/ HandFile \/ HandedAll \/ DriverInfo
  PROVE  TInv'
<1>1. DataOK /\ stack # << >> /\ Top \in GoodFrame
  BY TypesSplit, TopType
     DEF DriverFails, DriverList, HandInfo, HandFile, HandedAll, DriverInfo, At
<1>2. CASE DriverFails
  <2>1. stack' \in Seq(GoodFrame) /\ ret' \in [code : Codes, info : InfoType]
    BY <1>1, <1>2, FailsTypes DEF DriverFails, Codes
  <2> QED
    BY <1>1, <1>2, <2>1, TypesPrime DEF DriverFails, DataOK, Fixed, Memory, Cache
<1>3. CASE DriverList
  <2>1. driver.hands \in Seq(Kind \union {"info"})
    BY <1>1, DataTypes DEF DriverType
  <2>2. [Continue("handed") EXCEPT !.rest = driver.hands] \in GoodFrame
    BY <1>1, <2>1, RestFrames DEF Continue
  <2>3. stack' \in Seq(GoodFrame)
    BY <1>1, <1>3, <2>2, Gone DEF DriverList
  <2>4. entry' \in EntryType
    BY <1>1, <1>3, DataTypes DEF DriverList, EntryType
  <2> QED
    BY <1>1, <1>3, <2>3, <2>4, TypesPrime DEF DriverList, DataOK, Fixed, Memory
<1>4. CASE HandInfo
  <2>1. [Top EXCEPT !.rest = Tail(@)] \in GoodFrame
    BY <1>1, <1>4, RestTypes, RestFrames DEF HandInfo
  <2>2. stack' \in Seq(GoodFrame)
    BY <1>1, <1>4, <2>1, Gone DEF HandInfo
  <2>3. entry' \in EntryType
    BY <1>1, <1>4, DataTypes DEF HandInfo, EntryType, DataOK
  <2> QED
    BY <1>1, <1>4, <2>2, <2>3, TypesPrime DEF HandInfo, DataOK, Fixed, Memory
<1>5. CASE HandFile
  <2>1. NewFile \in File
    BY <1>5, TurnTypes DEF HandFile
  <2>2. Head(Top.rest) \in Kind
    BY <1>1, <1>5, RestTypes DEF HandFile
  <2>3. [Top EXCEPT !.rest = Tail(@)] \in GoodFrame
    BY <1>1, <1>5, RestTypes, RestFrames DEF HandFile
  <2>4. Frame("take", Head(Top.rest), NewFile) \in GoodFrame
    BY <2>1, <2>2, NewFrames DEF Labels
  <2>5. stack' \in Seq(GoodFrame)
    BY <1>1, <1>5, <2>3, <2>4, Called DEF HandFile
  <2>6. obj' \in [File -> Content]
    BY <1>1, <1>5, <2>1, <2>2, PutTypes, DataTypes DEF HandFile
  <2> QED
    BY <1>1, <1>5, <2>5, <2>6, TypesPrime DEF HandFile, DataOK, Fixed, Cache
<1>6. CASE HandedAll
  <2>1. stack' \in Seq(GoodFrame) /\ ret' \in [code : Codes, info : InfoType]
    BY <1>1, <1>6, SucceedsTypes DEF HandedAll
  <2> QED
    BY <1>1, <1>6, <2>1, TypesPrime DEF HandedAll, DataOK, Fixed, Memory, Cache
<1>7. CASE DriverInfo
  <2> DEFINE rest == IF driver.info = "hands" THEN << "preview" >> ELSE << >>
  <2>1. rest \in Seq(Kind \union {"info"})
    <3>1. << "preview" >> \in Seq(Kind \union {"info"}) /\ << >> \in Seq(Kind \union {"info"})
      BY DEF Kind
    <3> QED
      BY <3>1
  <2>2. [Continue("handed") EXCEPT !.rest = rest] \in GoodFrame
    BY <1>1, <2>1, RestFrames DEF Continue
  <2>3. stack' \in Seq(GoodFrame)
    BY <1>1, <1>7, <2>2, Gone DEF DriverInfo
  <2>4. entry' \in EntryType
    BY <1>1, <1>7, DataTypes DEF DriverInfo, EntryType, DataOK
  <2> QED
    BY <1>1, <1>7, <2>3, <2>4, TypesPrime DEF DriverInfo, DataOK, Fixed, Memory
<1> QED
  BY <1>2, <1>3, <1>4, <1>5, <1>6, <1>7

LEMMA FileTypes ==
  ASSUME TInv, DriverFile \/ DriverAsks \/ DriverSized
  PROVE  TInv'
<1>1. DataOK /\ stack # << >>
  BY TypesSplit DEF DriverFile, DriverAsks, DriverSized, At
<1>2. Top \in GoodFrame /\ Top.file \in File /\ Top.kind \in Kind
  BY TurnTypes DEF DriverFile, DriverAsks, DriverSized, Filling, Serving
<1>3. ret.code \in Codes
  BY <1>1 DEF DataOK
<1>4. CASE DriverFile
  <2>1. stack' \in Seq(GoodFrame) /\ ret' \in [code : Codes, info : InfoType]
    BY <1>1, <1>4, FailsTypes, SucceedsTypes DEF DriverFile, Codes
  <2>2. obj' \in [File -> Content]
    BY <1>1, <1>2, <1>4, PutTypes, DataTypes DEF DriverFile, DataOK
  <2> QED
    BY <1>1, <1>4, <2>1, <2>2, TypesPrime DEF DriverFile, DataOK, Fixed, Cache
<1>5. CASE DriverAsks
  <2>1. Top.kind = "normal"
    BY <1>5 DEF DriverAsks
  <2>2. Continue("sized") \in GoodFrame
    BY <1>2, <2>1 DEF Continue, GoodFrame, FrameType, Labels, Filling, Owning, Serving, Full
  <2>3. Frame("info", "normal", NoFile) \in GoodFrame
    BY NewFrames, FileInfoAssumption DEF Kind
  <2>4. stack' \in Seq(GoodFrame)
    BY <1>1, <1>5, <2>2, <2>3, Called DEF DriverAsks
  <2> QED
    BY <1>1, <1>5, <2>4, TypesPrime DEF DriverAsks, DataOK, Fixed, Memory, Cache
<1>6. CASE DriverSized
  <2>1. stack' \in Seq(GoodFrame) /\ ret' \in [code : Codes, info : InfoType]
    BY <1>1, <1>3, <1>6, FailsTypes, SucceedsTypes DEF DriverSized
  <2>2. obj' \in [File -> Content]
    BY <1>1, <1>2, <1>6, PutTypes, DataTypes DEF DriverSized, DataOK, Kind
  <2> QED
    BY <1>1, <1>6, <2>1, <2>2, TypesPrime DEF DriverSized, DataOK, Fixed, Cache
<1> QED
  BY <1>4, <1>5, <1>6

LEMMA BeginTypes ==
  ASSUME TInv, NEW name \in Kind \union {"info", "set"}, NEW at \in {"info", "set", "get"},
         NEW kind \in Kind, NEW o \in File, NEW content \in Content,
         Begins(name, at, kind, o, content)
  PROVE  TInv' /\ Frame(at, kind, IF at = "get" THEN o ELSE NoFile) \in GoodFrame
<1>1. DataOK
  BY TypesSplit
<1> DEFINE f == Frame(at, kind, IF at = "get" THEN o ELSE NoFile)
<1>2. f \in GoodFrame
  BY NewFrames DEF Labels
<1>3. stack' = << f >>
  BY DEF Begins
<1>4. stack' \in Seq(GoodFrame)
  BY <1>2, <1>3
<1>5. obj' \in [File -> Content]
  BY <1>1, DataTypes DEF Begins, Kept, DataOK
<1>6. ret' \in [code : Codes, info : InfoType]
  BY <1>1, DataTypes DEF Begins, NoAnswer, Codes
<1> QED
  BY <1>1, <1>2, <1>4, <1>5, <1>6, TypesPrime DEF Begins, DataOK, Cache

LEMMA ApplicationTypes ==
  ASSUME TInv, Application
  PROVE  TInv'
<1>1. DataOK /\ stack \in Seq(GoodFrame)
  BY TypesSplit
<1>2. app \in File /\ obj[app] \in Content /\ Cleaned(app) \in Content /\ Blank \in Content
  BY <1>1, DataTypes DEF DataOK, Cleaned, Blank, Content
<1>3. CASE CameraFileGetInfo \/ CameraFileSetInfo
  BY <1>2, <1>3, BeginTypes DEF CameraFileGetInfo, CameraFileSetInfo, Kind
<1>4. CASE CameraFileGet
  <2>1. PICK k \in Kind :
          IF Reuses THEN Begins(k, "get", k, app, Cleaned(app))
          ELSE Free # {} /\ Begins(k, "get", k, NewFile, Blank)
    BY <1>4 DEF CameraFileGet
  <2> QED
    BY <1>2, <2>1, BeginTypes, NewFileIsFree
<1>5. CASE Reset
  BY <1>1, <1>5, DataTypes, TypesPrime DEF Reset, DataOK, NoSlot, Fixed, Memory
<1>6. CASE Evict
  BY <1>1, <1>6, TypesPrime DEF Evict, DataOK, Fixed, Memory
<1> QED
  BY <1>3, <1>4, <1>5, <1>6 DEF Application

LEMMA InitTypes == Init => TInv
<1> SUFFICES ASSUME Init PROVE TInv
  OBVIOUS
<1>1. stack \in Seq(GoodFrame) /\ app \in File
  BY FileInfoAssumption DEF Init
<1>2. NoEntry \in EntryType /\ Blank \in Content /\ NoAnswer \in [code : Codes, info : InfoType]
  BY DEF NoEntry, EntryType, NoInfo, InfoType, Blank, Content, NoAnswer, Codes
<1> QED
  BY <1>1, <1>2, TypesSplit DEF Init, DataOK, CamType, NoSlot

LEMMA StepTypes == TInv /\ [Next]_vars => TInv'
<1> SUFFICES ASSUME TInv, [Next]_vars PROVE TInv'
  OBVIOUS
<1>1. CASE Library
  BY <1>1, ListTypes, InfoTypes, ExifTypes, GetTypes, SecondTypes, TakeTypes, SetTypes
     DEF Library
<1>2. CASE DriverStep
  BY <1>2, HandTypes, FileTypes DEF DriverStep
<1>3. CASE Application
  BY <1>3, ApplicationTypes
<1>4. CASE UNCHANGED vars
  BY <1>4, TypesSplit, TypesPrime DEF vars, DataOK
<1> QED
  BY <1>1, <1>2, <1>3, <1>4 DEF Next

(***************************************************************************)
(* Every variable keeps its type, whatever the drivers do and however deep *)
(* the calls go: no function works on a file that was not given to it.     *)
(***************************************************************************)
THEOREM TypeCorrect == Spec => []TypeOK
<1>1. TInv => TypeOK
  BY DEF TInv
<1> QED
  BY <1>1, InitTypes, StepTypes, PTL DEF Spec

(***************************************************************************)
(* What holds of the calls in progress.  A file that is being filled is    *)
(* not one that somebody relies on; so what is relied on stays, and what a *)
(* function was asked for is in its file when it returns.                  *)
(***************************************************************************)
Positions == 1 .. Len(stack)

\* A function that f calls for its file, or for its second one.
Serves(f, g) ==
  /\ g.at = "got" => f.at \in Serving /\ f.file = g.file /\ f.kind = g.kind
  /\ g.at = "second" => f.at \in Serving /\ f.file = g.spare /\ f.kind = Elsewhere(g.kind)

Chained == \A i \in Positions : i > 1 => Serves(stack[i - 1], stack[i])

Apart ==
  \A i, j \in Positions :
    stack[j].at \in Filling =>
      /\ stack[i].at \in Full => stack[i].file # stack[j].file
      /\ i < j /\ stack[i].at \in Owning => stack[i].file # stack[j].file

Reserved == \A j \in Positions, k \in Kind : stack[j].at \in Filling => slot[k] # stack[j].file

Complete == \A i \in Positions : stack[i].at \in Full => obj[stack[i].file].holds = stack[i].kind

SlotsTrue == \A k \in Kind : slot[k] # NoFile => obj[slot[k]].holds = k

Delivered ==
  stack # << >> /\ ret.code = "ok" =>
    /\ Top.at = "got" => obj[Top.file].holds = Top.kind
    /\ Top.at = "second" => obj[Top.spare].holds = Elsewhere(Top.kind)

\* The application's download is at the bottom of the stack.
AsksFor(f, file, kind) == f.at \in Owning \union {"cached"} /\ f.file = file /\ f.kind = kind

Bottom == stack # << >> /\ op \in Kind => AsksFor(stack[Len(stack)], app, op)

Shape ==
  /\ Chained /\ Apart /\ Reserved /\ Complete /\ SlotsTrue /\ Delivered /\ Bottom
  /\ DownloadIsTrue

\* A step that leaves what is relied on as it is.
Safe ==
  /\ op' = op /\ app' = app
  /\ \A i \in Positions : stack[i].at \in Full => obj'[stack[i].file].holds = stack[i].kind
  /\ \A k \in Kind : slot'[k] # NoFile => obj'[slot'[k]].holds = k
  /\ \A k \in Kind, i \in Positions : stack[i].at \in Filling => slot'[k] # stack[i].file

\* Of a function that returns with success, the file is what was asked for.
Fulfils ==
  ret'.code = "ok" /\ Top.at \in Filling \union {"cached"} =>
    obj'[Top.file].holds = Top.kind

LEMMA Disjoint == \A at \in Filling : at \notin Full
BY DEF Full, Filling, Owning, Serving

LEMMA LastPop ==
  ASSUME Len(stack) \in Nat, Len(stack') = Len(stack) - 1, stack' = << >>
  PROVE  Len(stack) = 1
OBVIOUS

LEMMA PopKeeps ==
  ASSUME TInv, Shape, Safe, stack # << >>, stack' = Tail(stack), Fulfils
  PROVE  Shape'
<1>1. /\ Top = stack[1] /\ Len(stack) \in Nat \ {0} /\ Len(stack') = Len(stack) - 1
      /\ stack' \in Seq(GoodFrame)
      /\ \A i \in 1 .. Len(stack') : stack'[i] = stack[i + 1]
  BY TopType, Popped
<1>2. Chained'
  BY <1>1 DEF Shape, Chained, Positions, Serves
<1>3. Apart'
  BY <1>1 DEF Shape, Apart, Positions
<1>4. Reserved'
  BY <1>1 DEF Safe, Reserved, Positions
<1>5. Complete' /\ SlotsTrue'
  BY <1>1 DEF Safe, Complete, SlotsTrue, Positions
<1>6. stack' # << >> => Len(stack') \in Nat \ {0} /\ Top' = stack[2]
  <2> SUFFICES ASSUME stack' # << >> PROVE Len(stack') \in Nat \ {0} /\ Top' = stack[2]
    OBVIOUS
  <2>1. Len(stack') \in Nat \ {0} /\ Head(stack') = stack'[1]
    BY <1>1, EmptySeq, HeadTailProperties
  <2> QED
    BY <1>1, <2>1 DEF Top
<1>7. Delivered'
  <2> SUFFICES ASSUME stack' # << >>, ret'.code = "ok"
               PROVE  /\ stack[2].at = "got" => obj'[stack[2].file].holds = stack[2].kind
                      /\ stack[2].at = "second" =>
                           obj'[stack[2].spare].holds = Elsewhere(stack[2].kind)
    BY <1>6 DEF Delivered
  <2>1. Serves(stack[1], stack[2])
    BY <1>1, <1>6 DEF Shape, Chained, Positions
  <2> QED
    BY <1>1, <2>1 DEF Serves, Fulfils, Filling
<1>8. Bottom'
  <2> SUFFICES ASSUME stack' # << >>, op \in Kind PROVE AsksFor(stack'[Len(stack')], app, op)
    BY DEF Safe, Bottom
  <2>1. stack'[Len(stack')] = stack[Len(stack)]
    BY <1>1, <1>6
  <2> QED
    BY <2>1 DEF Shape, Bottom
<1>9. DownloadIsTrue'
  <2> SUFFICES ASSUME stack' = << >>, NEW k \in Kind, op = k, ret'.code = "ok"
               PROVE  obj'[app].holds = k
    BY DEF DownloadIsTrue, Answered, Idle, Safe
  <2>1. Len(stack) = 1
    BY <1>1, LastPop
  <2>2. AsksFor(stack[1], app, op)
    BY <2>1 DEF Shape, Bottom
  <2> QED
    BY <1>1, <2>2 DEF AsksFor, Fulfils, Filling
<1> QED
  BY <1>2, <1>3, <1>4, <1>5, <1>7, <1>8, <1>9 DEF Shape

LEMMA TopIsFirst ==
  ASSUME stack \in Seq(GoodFrame), stack # << >>
  PROVE  Top = stack[1]
BY HeadTailProperties DEF Top

\* The function that t was goes on as g.
Resumes(g, t) ==
  /\ t.at # "cached"
  /\ g.at \in Filling => t.at \in Filling
  /\ g.at \in Owning => t.at \in Owning
  /\ g.at \in Full => t.at \in Full \union Owning /\ obj'[g.file].holds = g.kind
  /\ t.at \in Serving => g.at \in Serving
  /\ t.at \in Owning => g.at \in Owning \union {"cached"}
  /\ g.at \in Filling \union Full => g.file = t.file /\ g.kind = t.kind

\* The stack with g on top.
With(g, i) == IF i = 1 THEN g ELSE stack[i]

LEMMA InUse ==
  ASSUME TInv, NEW i \in Positions
  PROVE  stack[i].file \notin Free /\ stack[i].spare \notin Free
BY DEF Free, Referenced, Positions

LEMMA Resumed ==
  ASSUME TInv, Shape, Safe, stack # << >>, NEW g \in GoodFrame, Resumes(g, Top)
  PROVE  /\ \A i \in Positions : i > 1 => Serves(With(g, i - 1), With(g, i))
         /\ \A i, j \in Positions :
              With(g, j).at \in Filling =>
                /\ With(g, i).at \in Full => With(g, i).file # With(g, j).file
                /\ i < j /\ With(g, i).at \in Owning => With(g, i).file # With(g, j).file
         /\ \A j \in Positions, k \in Kind :
              With(g, j).at \in Filling => slot'[k] # With(g, j).file
         /\ \A i \in Positions :
              With(g, i).at \in Full => obj'[With(g, i).file].holds = With(g, i).kind
         /\ \A i \in Positions :
              With(g, i).at \in Filling \union Full => With(g, i).file \notin Free
         /\ op \in Kind => AsksFor(With(g, Len(stack)), app, op)
<1>1. Top = stack[1] /\ Len(stack) \in Nat \ {0} /\ 1 \in Positions
  BY TopType DEF Positions
<1>2. With(g, 1) = g /\ \A i \in Positions : i # 1 => With(g, i) = stack[i]
  BY DEF With
<1>3. g.at \in Owning => stack[1].at \in Owning /\ g.file = stack[1].file
  BY <1>1 DEF Resumes, Filling
<1>4. g.at \in Full => stack[1].at \in Full \union Owning /\ g.file = stack[1].file
  BY <1>1 DEF Resumes
<1>5. g.at \in Filling => stack[1].at \in Filling /\ g.file = stack[1].file
  BY <1>1 DEF Resumes
<1>6. \A i \in Positions : i > 1 => Serves(With(g, i - 1), With(g, i))
  <2> SUFFICES ASSUME NEW i \in Positions, i > 1 PROVE Serves(With(g, i - 1), With(g, i))
    OBVIOUS
  <2>1. Serves(stack[i - 1], stack[i]) /\ With(g, i) = stack[i]
    BY <1>2 DEF Shape, Chained
  <2>2. CASE i = 2
    BY <1>1, <1>2, <2>1, <2>2 DEF Serves, Resumes, Filling
  <2>3. CASE i > 2
    BY <1>2, <2>1, <2>3 DEF Positions
  <2> QED
    BY <2>2, <2>3 DEF Positions
<1>7. ASSUME NEW i \in Positions, NEW j \in Positions, With(g, j).at \in Filling
      PROVE  /\ With(g, i).at \in Full => With(g, i).file # With(g, j).file
             /\ i < j /\ With(g, i).at \in Owning => With(g, i).file # With(g, j).file
  <2>1. stack[j].at \in Filling /\ With(g, j).file = stack[j].file
    BY <1>2, <1>5, <1>7
  <2>2. /\ stack[i].at \in Full => stack[i].file # stack[j].file
        /\ i < j /\ stack[i].at \in Owning => stack[i].file # stack[j].file
    BY <2>1 DEF Shape, Apart
  <2>3. CASE i # 1
    BY <1>2, <2>1, <2>2, <2>3
  <2>4. CASE i = 1 /\ j # 1
    <3>1. 1 < j
      BY <2>4 DEF Positions
    <3> QED
      BY <1>2, <1>3, <1>4, <2>1, <2>2, <2>4, <3>1
  <2>5. CASE i = 1 /\ j = 1
    BY <1>7, <2>5, Disjoint
  <2> QED
    BY <2>3, <2>4, <2>5
<1>8. \A j \in Positions, k \in Kind : With(g, j).at \in Filling => slot'[k] # With(g, j).file
  BY <1>1, <1>2, <1>5 DEF Safe
<1>9. \A i \in Positions :
        With(g, i).at \in Full => obj'[With(g, i).file].holds = With(g, i).kind
  BY <1>2 DEF Safe, Resumes
<1>10. \A i \in Positions :
         With(g, i).at \in Filling \union Full => With(g, i).file \notin Free
  BY <1>1, <1>2, <1>4, <1>5, InUse
<1>11. op \in Kind => AsksFor(With(g, Len(stack)), app, op)
  <2> SUFFICES ASSUME op \in Kind PROVE AsksFor(With(g, Len(stack)), app, op)
    OBVIOUS
  <2>1. AsksFor(stack[Len(stack)], app, op)
    BY DEF Shape, Bottom
  <2>2. CASE Len(stack) = 1
    BY <1>1, <1>2, <2>1, <2>2 DEF AsksFor, Resumes, Filling, Full
  <2>3. CASE Len(stack) # 1
    BY <2>1, <2>3 DEF With
  <2> QED
    BY <2>2, <2>3
<1> QED
  BY <1>6, <1>7, <1>8, <1>9, <1>10, <1>11

LEMMA GoKeeps ==
  ASSUME TInv, Shape, Safe, stack # << >>, NEW g \in GoodFrame, Goes(g),
         Resumes(g, Top), g.at \notin {"got", "second"}
  PROVE  Shape'
<1>1. /\ Len(stack) \in Nat \ {0} /\ Len(stack') = Len(stack) /\ Positions' = Positions
      /\ stack' \in Seq(GoodFrame) /\ stack'[1] = g
      /\ \A i \in Positions : stack'[i] = With(g, i)
  BY TopType, Gone DEF Positions, With
<1>2. stack' # << >> /\ Top' = g
  <2>1. stack' # << >>
    BY <1>1
  <2> QED
    BY <1>1, <2>1, HeadTailProperties DEF Top
<1>3. Chained'
  <2> SUFFICES ASSUME NEW i \in Positions, i > 1 PROVE Serves(stack'[i - 1], stack'[i])
    BY <1>1 DEF Chained, Serves
  <2>1. i - 1 \in Positions
    BY DEF Positions
  <2> QED
    BY <1>1, <2>1, Resumed
<1>4. Apart'
  BY <1>1, Resumed DEF Apart
<1>5. Reserved'
  BY <1>1, Resumed DEF Reserved
<1>6. Complete' /\ SlotsTrue'
  BY <1>1, Resumed DEF Safe, Complete, SlotsTrue
<1>7. Delivered'
  BY <1>2 DEF Delivered
<1>8. Bottom'
  BY <1>1, Resumed DEF Bottom, Safe, Positions
<1>9. DownloadIsTrue'
  BY <1>2 DEF DownloadIsTrue, Answered, Idle
<1> QED
  BY <1>3, <1>4, <1>5, <1>6, <1>7, <1>8, <1>9 DEF Shape

\* g calls f: with its own file or with a new one.
Enters(f, g) ==
  /\ Serves(f, g) /\ f.at \notin {"got", "second"}
  /\ f.at \in Owning => f.file \in Free
  /\ f.at \in Filling =>
       /\ f.file \in Free \/ (f.file = g.file /\ g.at \in Filling)
       /\ slot' = slot
  /\ f.at \in Full =>
       /\ f.file \in Free \/ (f.file = g.file /\ g.at \in Full)
       /\ obj'[f.file].holds = f.kind

LEMMA CallKeeps ==
  ASSUME TInv, Shape, Safe, stack # << >>, NEW g \in GoodFrame, NEW f \in GoodFrame,
         Calls(g, f), Resumes(g, Top), Enters(f, g)
  PROVE  Shape'
<1>1. /\ Len(stack) \in Nat \ {0} /\ Len(stack') = Len(stack) + 1
      /\ stack' \in Seq(GoodFrame) /\ stack'[1] = f
      /\ \A i \in 2 .. Len(stack') : i - 1 \in Positions /\ stack'[i] = With(g, i - 1)
  BY TopType, Called DEF Positions, With
<1>2. stack' # << >> /\ Top' = f
  <2>1. stack' # << >>
    BY <1>1
  <2> QED
    BY <1>1, <2>1, HeadTailProperties DEF Top
<1>3. /\ Positions' = 1 .. Len(stack')
      /\ \A i \in Positions' : i = 1 \/ i \in 2 .. Len(stack')
      /\ 1 \in Positions /\ With(g, 1) = g
  BY <1>1 DEF Positions, With
<1>4. Chained'
  <2> SUFFICES ASSUME NEW i \in 2 .. Len(stack') PROVE Serves(stack'[i - 1], stack'[i])
    BY <1>1, <1>3 DEF Chained, Serves
  <2>1. CASE i = 2
    BY <1>1, <1>3, <2>1 DEF Enters
  <2>2. CASE i # 2
    <3>1. i - 1 \in 2 .. Len(stack') /\ i - 1 > 1
      BY <1>1, <2>2
    <3> QED
      BY <1>1, <3>1, Resumed
  <2> QED
    BY <2>1, <2>2
<1>5. Apart'
  <2> SUFFICES ASSUME NEW i \in Positions', NEW j \in Positions', stack'[j].at \in Filling
               PROVE  /\ stack'[i].at \in Full => stack'[i].file # stack'[j].file
                      /\ i < j /\ stack'[i].at \in Owning => stack'[i].file # stack'[j].file
    BY DEF Apart
  <2>1. CASE i # 1 /\ j # 1
    BY <1>1, <1>3, <2>1, Resumed
  <2>2. CASE i = 1 /\ j # 1
    <3>1. j - 1 \in Positions /\ stack'[j] = With(g, j - 1) /\ With(g, j - 1).file \notin Free
      BY <1>1, <1>3, <2>2, Resumed
    <3>2. g.at \in Full => g.file # With(g, j - 1).file
      BY <1>3, <3>1, Resumed
    <3> QED
      BY <1>1, <2>2, <3>1, <3>2 DEF Enters
  <2>3. CASE i # 1 /\ j = 1
    <3>1. i - 1 \in Positions /\ stack'[i] = With(g, i - 1)
      BY <1>1, <1>3, <2>3
    <3>2. With(g, i - 1).at \in Full => With(g, i - 1).file \notin Free
      BY <3>1, Resumed
    <3>3. g.at \in Filling /\ With(g, i - 1).at \in Full => With(g, i - 1).file # g.file
      BY <1>3, <3>1, Resumed
    <3> QED
      BY <1>1, <1>3, <2>3, <3>1, <3>2, <3>3 DEF Enters
  <2>4. CASE i = 1 /\ j = 1
    BY <2>4, Disjoint
  <2> QED
    BY <2>1, <2>2, <2>3, <2>4
<1>6. Reserved'
  <2> SUFFICES ASSUME NEW j \in Positions', NEW k \in Kind, stack'[j].at \in Filling
               PROVE  slot'[k] # stack'[j].file
    BY DEF Reserved
  <2>1. CASE j # 1
    BY <1>1, <1>3, <2>1, Resumed
  <2>2. CASE j = 1
    <3>1. slot[k] \notin Free
      BY DEF Free, Referenced
    <3>2. g.at \in Filling => slot'[k] # g.file
      BY <1>3, Resumed
    <3> QED
      BY <1>1, <2>2, <3>1, <3>2 DEF Enters
  <2> QED
    BY <2>1, <2>2
<1>7. Complete' /\ SlotsTrue'
  BY <1>1, <1>3, Resumed DEF Safe, Complete, SlotsTrue, Enters
<1>8. Delivered'
  BY <1>2 DEF Delivered, Enters
<1>9. Bottom'
  BY <1>1, Resumed DEF Bottom, Safe, Positions
<1>10. DownloadIsTrue'
  BY <1>2 DEF DownloadIsTrue, Answered, Idle
<1> QED
  BY <1>4, <1>5, <1>6, <1>7, <1>8, <1>9, <1>10 DEF Shape

(* What the steps do with the files. *)

LEMMA SafeSame ==
  ASSUME TInv, Shape, UNCHANGED <<op, app, obj, slot>>
  PROVE  Safe
BY DEF Shape, Safe, Complete, SlotsTrue, Reserved

LEMMA FrameFiles ==
  ASSUME TInv, NEW i \in Positions
  PROVE  stack[i].at \in Filling \union Full => stack[i].file \in File
<1>1. stack[i] \in GoodFrame
  BY ElementOfSeq DEF TInv, Positions
<1> QED
  BY <1>1 DEF GoodFrame

LEMMA SafeNew ==
  ASSUME TInv, Shape, UNCHANGED <<op, app, slot>>, Free # {}, NEW c, Put(NewFile, c)
  PROVE  Safe /\ obj'[NewFile] = c
<1>1. DataOK /\ NewFile \in Free /\ NewFile \in File
  BY TypesSplit, NewFileIsFree
<1>2. \A f \in File : f # NewFile => obj'[f] = obj[f]
  BY <1>1 DEF DataOK, Put
<1>3. ASSUME NEW i \in Positions, stack[i].at \in Full
      PROVE  obj'[stack[i].file].holds = stack[i].kind
  <2>1. stack[i].file # NewFile
    BY <1>1, InUse
  <2>2. stack[i].file \in File
    BY <1>3, FrameFiles
  <2> QED
    BY <1>2, <1>3, <2>1, <2>2 DEF Shape, Complete
<1>4. ASSUME NEW k \in Kind, slot[k] # NoFile
      PROVE  obj'[slot[k]].holds = k
  <2>1. slot[k] # NewFile
    BY <1>1 DEF Free, Referenced
  <2>2. slot[k] \in File
    BY <1>1, <1>4 DEF DataOK
  <2> QED
    BY <1>2, <1>4, <2>1, <2>2 DEF Shape, SlotsTrue
<1>5. obj'[NewFile] = c
  BY <1>1 DEF DataOK, Put
<1> QED
  BY <1>3, <1>4, <1>5 DEF Safe, Shape, Reserved

LEMMA SafeOwn ==
  ASSUME TInv, Shape, UNCHANGED <<op, app, slot>>, stack # << >>, Top.at \in Filling,
         NEW c, Put(Top.file, c)
  PROVE  Safe /\ obj'[Top.file] = c
<1>1. DataOK /\ Top = stack[1] /\ 1 \in Positions /\ Top.file \in File
  <2>1. Top = stack[1] /\ 1 \in Positions
    BY TopType DEF Positions
  <2> QED
    BY <2>1, TypesSplit, FrameFiles
<1>2. \A f \in File : f # Top.file => obj'[f] = obj[f]
  BY <1>1 DEF DataOK, Put
<1>3. ASSUME NEW i \in Positions, stack[i].at \in Full
      PROVE  obj'[stack[i].file].holds = stack[i].kind
  <2>1. stack[i].file # Top.file
    BY <1>1, <1>3 DEF Shape, Apart
  <2>2. stack[i].file \in File
    BY <1>3, FrameFiles
  <2> QED
    BY <1>2, <1>3, <2>1, <2>2 DEF Shape, Complete
<1>4. ASSUME NEW k \in Kind, slot[k] # NoFile
      PROVE  obj'[slot[k]].holds = k
  <2>1. slot[k] # Top.file
    BY <1>1 DEF Shape, Reserved
  <2>2. slot[k] \in File
    BY <1>1, <1>4 DEF DataOK
  <2> QED
    BY <1>2, <1>4, <2>1, <2>2 DEF Shape, SlotsTrue
<1>5. obj'[Top.file] = c
  BY <1>1 DEF DataOK, Put
<1> QED
  BY <1>3, <1>4, <1>5 DEF Safe, Shape, Reserved

LEMMA SafeStamp ==
  ASSUME TInv, Shape, UNCHANGED <<op, app, slot>>, stack # << >>, Top.file \in File,
         NEW time, Stamp(time)
  PROVE  Safe
<1>1. DataOK
  BY TypesSplit
<1>2. \A f \in File : obj'[f].holds = obj[f].holds
  BY <1>1 DEF Stamp, Put, DataOK, Content
<1>3. \A i \in Positions : stack[i].at \in Full => stack[i].file \in File
  BY FrameFiles
<1>4. \A k \in Kind : slot[k] # NoFile => slot[k] \in File
  BY <1>1 DEF DataOK
<1> QED
  BY <1>2, <1>3, <1>4 DEF Safe, Shape, Complete, SlotsTrue, Reserved

LEMMA FailKeeps ==
  ASSUME TInv, Shape, Safe, stack # << >>, NEW code, code # "ok", Fails(code)
  PROVE  Shape'
<1>1. stack' = Tail(stack) /\ Fulfils
  BY DEF Fails, Returns, Fulfils
<1> QED
  BY <1>1, PopKeeps

\* Functions that have no file of their own.
Others == Labels \ (Filling \union Full \union {"exif read"})

LEMMA ReturnKeeps ==
  ASSUME TInv, Shape, Safe, stack # << >>, Top.at \notin Filling \union {"cached"},
         NEW code, NEW info, Returns(code, info)
  PROVE  Shape'
<1>1. stack' = Tail(stack) /\ Fulfils
  BY DEF Returns, Fulfils
<1> QED
  BY <1>1, PopKeeps

LEMMA SameResumes ==
  ASSUME TInv, Shape, Safe, stack # << >>, Top.at # "cached"
  PROVE  Resumes(Top, Top)
<1>1. Top = stack[1] /\ 1 \in Positions
  BY TopType DEF Positions
<1>2. Top.at \in Full => obj'[Top.file].holds = Top.kind
  BY <1>1 DEF Safe
<1> QED
  BY <1>2 DEF Resumes

LEMMA PlainEnters ==
  ASSUME NEW f, NEW g, f.at \in Others, g.at \notin {"got", "second"}
  PROVE  Enters(f, g)
BY DEF Enters, Serves, Others, Filling, Owning, Serving, Full

LEMMA PlainResumes ==
  ASSUME NEW g, NEW t, g.at \in Others \union {"exif read"}, t.at \in Others
  PROVE  Resumes(g, t)
BY DEF Resumes, Others, Filling, Owning, Serving, Full

LEMMA PlainFrames ==
  /\ Frame("driver list", "normal", NoFile).at \in Others
  /\ Frame("driver info", "normal", NoFile).at \in Others
  /\ Frame("exif time", "exif", NoFile).at \in Others
  /\ Frame("info", "normal", NoFile).at \in Others
  /\ Frame("driver list", "normal", NoFile) \in GoodFrame
  /\ Frame("driver info", "normal", NoFile) \in GoodFrame
  /\ Frame("exif time", "exif", NoFile) \in GoodFrame
  /\ Frame("info", "normal", NoFile) \in GoodFrame
<1>1. /\ Frame("driver list", "normal", NoFile) \in GoodFrame
      /\ Frame("driver info", "normal", NoFile) \in GoodFrame
      /\ Frame("exif time", "exif", NoFile) \in GoodFrame
      /\ Frame("info", "normal", NoFile) \in GoodFrame
  BY NewFrames, FileInfoAssumption DEF Kind
<1> QED
  BY <1>1 DEF Frame, Others, Labels, Filling, Owning, Serving, Full

(* The steps. *)

LEMMA ListKeeps ==
  ASSUME TInv, Shape, ListFolder \/ NotFound
  PROVE  Shape'
<1>1. PICK label \in Seeks : At(label)
  BY DEF ListFolder, NotFound
<1>2. /\ stack # << >> /\ Top \in GoodFrame
      /\ Top.at \notin {"got", "second", "cached"}
  BY <1>1, TurnTypes DEF Seeks
<1>3. Safe
  BY SafeSame DEF ListFolder, NotFound, Fixed, Memory, Cache
<1>4. CASE ListFolder
  BY <1>2, <1>3, <1>4, PlainFrames, SameResumes, PlainEnters, CallKeeps DEF ListFolder
<1>5. CASE NotFound
  BY <1>2, <1>3, <1>5, FailKeeps DEF NotFound
<1> QED
  BY <1>4, <1>5

LEMMA LookForTimeKeeps ==
  ASSUME TInv, Shape, Safe, stack # << >>, Top.at \in Others, LookForTime
  PROVE  Shape'
<1>1. Top \in GoodFrame /\ Top.at \notin Filling \union {"cached"}
  BY TopType DEF Others, Full
<1>2. /\ Continue("timed") \in GoodFrame /\ Continue("timed").at = "timed"
      /\ "timed" \in Others
  BY <1>1 DEF Continue, GoodFrame, FrameType, Labels, Others, Filling, Owning, Serving, Full
<1>3. CASE entry.info.time # None
  BY <1>1, <1>3, ReturnKeeps DEF LookForTime
<1>4. CASE entry.info.time = None
  <2>1. Resumes(Continue("timed"), Top)
    BY <1>2, PlainResumes
  <2>2. Enters(Frame("exif time", "exif", NoFile), Continue("timed"))
    BY <1>2, PlainFrames, PlainEnters
  <2> QED
    BY <1>2, <1>4, <2>1, <2>2, PlainFrames, CallKeeps DEF LookForTime
<1> QED
  BY <1>3, <1>4

LEMMA InfoKeeps ==
  ASSUME TInv, Shape, InfoUnsupported \/ InfoClean \/ InfoDirty \/ InfoAsked \/ InfoTimed
  PROVE  Shape'
<1>1. stack # << >> /\ Top \in GoodFrame /\ Top.at \in {"info", "asked", "timed"}
  BY TopType DEF InfoUnsupported, InfoClean, InfoDirty, InfoAsked, InfoTimed, Found, At
<1>2. Safe
  BY SafeSame DEF InfoUnsupported, InfoClean, InfoDirty, InfoAsked, InfoTimed, Fixed, Memory, Cache
<1>3. Top.at \in Others /\ Top.at \notin Filling \union {"cached"}
  BY <1>1 DEF Others, Labels, Filling, Owning, Serving, Full
<1>4. CASE InfoUnsupported
  BY <1>1, <1>2, <1>4, FailKeeps DEF InfoUnsupported
<1>5. CASE InfoClean
  BY <1>1, <1>2, <1>3, <1>5, LookForTimeKeeps DEF InfoClean
<1>6. CASE InfoDirty
  <2>1. /\ Continue("asked") \in GoodFrame /\ Continue("asked").at = "asked"
        /\ "asked" \in Others
    BY <1>1 DEF Continue, GoodFrame, FrameType, Labels, Others, Filling, Owning, Serving, Full
  <2>2. Resumes(Continue("asked"), Top)
    BY <1>3, <2>1, PlainResumes
  <2>3. Enters(Frame("driver info", "normal", NoFile), Continue("asked"))
    BY <2>1, PlainFrames, PlainEnters
  <2> QED
    BY <1>1, <1>2, <1>6, <2>1, <2>2, <2>3, PlainFrames, CallKeeps DEF InfoDirty
<1>7. CASE InfoAsked
  BY <1>1, <1>2, <1>3, <1>7, LookForTimeKeeps, FailKeeps DEF InfoAsked
<1>8. CASE InfoTimed
  BY <1>1, <1>2, <1>3, <1>8, ReturnKeeps DEF InfoTimed
<1> QED
  BY <1>4, <1>5, <1>6, <1>7, <1>8

LEMMA ExifKeeps ==
  ASSUME TInv, Shape, ExifTime \/ ExifRead
  PROVE  Shape'
<1>1. /\ stack # << >> /\ Top \in GoodFrame /\ Free # {} /\ NewFile \in Free /\ NewFile \in File
      /\ Top.at \in {"exif time", "exif read"}
      /\ Top.at \notin Filling \union {"cached"}
  BY TopType, NewFileIsFree DEF ExifTime, ExifRead, At, Filling, Owning, Serving
<1>2. CASE ExifTime /\ driver.jpeg
  <2> DEFINE g == [Continue("exif read") EXCEPT !.file = NewFile]
             f == Frame("get", "exif", NewFile)
  <2>1. /\ g \in GoodFrame /\ g.at = "exif read" /\ f \in GoodFrame
        /\ f.at = "get" /\ f.file = NewFile
    <3>1. g \in GoodFrame /\ g.at = "exif read"
      BY <1>1 DEF Continue, GoodFrame, FrameType, Labels, Filling, Owning, Serving, Full
    <3>2. f \in GoodFrame /\ f.at = "get" /\ f.file = NewFile
      BY <1>1, NewFrames DEF Frame, Labels, Kind
    <3> QED
      BY <3>1, <3>2
  <2>2. Top.at = "exif time" /\ Calls(g, f) /\ Put(NewFile, Blank)
    BY <1>2 DEF ExifTime, At
  <2>3. Safe
    BY <1>1, <1>2, <2>2, SafeNew DEF ExifTime, Fixed, Cache
  <2>4. Resumes(g, Top)
    BY <2>1, <2>2, PlainResumes DEF Others, Labels, Filling, Owning, Serving, Full
  <2>5. slot' = slot
    BY <1>2 DEF ExifTime, Cache
  <2> HIDE DEF f, g
  <2>6. Enters(f, g)
    <3>1. Serves(f, g)
      BY <2>1 DEF Serves
    <3>2. f.at \notin {"got", "second"} /\ f.at \notin Full /\ f.file \in Free
      BY <1>1, <2>1 DEF Full
    <3> QED
      BY <2>5, <3>1, <3>2 DEF Enters
  <2> QED
    BY <1>1, <2>1, <2>2, <2>3, <2>4, <2>6, CallKeeps
<1>3. CASE ExifTime /\ ~driver.jpeg
  <2>1. Safe
    BY <1>3, SafeSame DEF ExifTime, Fixed, Cache
  <2> QED
    BY <1>1, <1>3, <2>1, ReturnKeeps DEF ExifTime, Finds
<1>4. CASE ExifRead
  <2>1. Safe
    BY <1>4, SafeSame DEF ExifRead, Fixed, Cache, Memory
  <2> QED
    BY <1>1, <1>4, <2>1, ReturnKeeps DEF ExifRead, Finds
<1> QED
  BY <1>2, <1>3, <1>4

LEMMA GetKeeps ==
  ASSUME TInv, Shape, GetFile \/ GotFile
  PROVE  Shape'
<1>1. /\ stack # << >> /\ Top \in GoodFrame /\ Free # {} /\ NewFile \in Free /\ NewFile \in File
      /\ Top = stack[1] /\ 1 \in Positions /\ slot' = slot
      /\ Top.at \in {"get", "got"} /\ Top.file \in File /\ Top.kind \in Kind
  <2>1. /\ stack # << >> /\ Top \in GoodFrame /\ Free # {} /\ NewFile \in Free /\ NewFile \in File
        /\ Top = stack[1] /\ 1 \in Positions /\ slot' = slot /\ Top.at \in {"get", "got"}
    BY TopType, NewFileIsFree DEF GetFile, GotFile, At, Positions, Cache
  <2> QED
    BY <2>1 DEF GoodFrame, FrameType, Filling, Owning
<1>2. CASE GetFile
  <2> DEFINE g == Continue("got")
             f == [Top EXCEPT !.at = "impl"]
  <2>1. /\ g \in GoodFrame /\ f \in GoodFrame
        /\ g.at = "got" /\ g.file = Top.file /\ g.kind = Top.kind
        /\ f.at = "impl" /\ f.file = Top.file /\ f.kind = Top.kind
    <3>1. "got" \in Labels \ {"second", "sized"} /\ "impl" \in Labels \ {"second", "sized"}
      BY DEF Labels
    <3>2. g = [Top EXCEPT !.at = "got"]
      BY DEF Continue
    <3>3. g \in GoodFrame /\ f \in GoodFrame
      <4>1. Top \in GoodFrame /\ Top.file \in File
        BY <1>1
      <4>2. [Top EXCEPT !.at = "got"] \in GoodFrame
        BY <3>1, <4>1, ContinuedFrames
      <4>3. f \in GoodFrame
        BY <3>1, <4>1, ContinuedFrames
      <4> QED BY <3>2, <4>2, <4>3
    <3>4. Top \in FrameType
      BY <1>1 DEF GoodFrame
    <3>5. g.at = "got" /\ g.file = Top.file /\ g.kind = Top.kind
      BY <3>2, <3>4 DEF FrameType
    <3>6. f.at = "impl" /\ f.file = Top.file /\ f.kind = Top.kind
      BY <3>4 DEF FrameType
    <3> QED BY <3>3, <3>5, <3>6
  <2>2. Safe /\ Calls(g, f) /\ Top.at = "get"
    BY <1>2, SafeSame DEF GetFile, Fixed, Memory, Cache, At
  <2>3. Resumes(g, Top)
    BY <2>1, <2>2 DEF Resumes, Filling, Owning, Serving, Full
  <2>4. Enters(f, g)
    BY <1>1, <2>1 DEF Enters, Serves, Filling, Owning, Serving, Full
  <2> QED
    BY <1>1, <2>1, <2>2, <2>3, <2>4, CallKeeps
<1>3. CASE GotFile /\ ret.code = "unsupported" /\ Top.kind \in {"preview", "exif"}
  <2> DEFINE g == [Continue("second") EXCEPT !.spare = NewFile]
             f == Frame("impl", Elsewhere(Top.kind), NewFile)
  <2>1. g \in GoodFrame
    BY <1>1, <1>3 DEF Continue, GoodFrame, FrameType, Labels, Filling, Owning, Serving, Full
  <2>2. /\ g.at = "second" /\ g.file = Top.file /\ g.kind = Top.kind
        /\ g.spare = NewFile
    BY <1>1 DEF Continue, GoodFrame, FrameType
  <2>3. Elsewhere(Top.kind) \in Kind
    BY <1>3 DEF Elsewhere, Kind
  <2>4. f \in GoodFrame /\ f.at = "impl" /\ f.file = NewFile /\ f.kind = Elsewhere(Top.kind)
    BY <1>1, <2>3, NewFrames DEF Frame, Labels
  <2>5. Calls(g, f) /\ Top.at = "got" /\ Put(NewFile, Blank)
    BY <1>3 DEF GotFile, At
  <2>6. Safe
    BY <1>1, <1>3, <2>5, SafeNew DEF GotFile, Fixed, Cache
  <2> HIDE DEF g, f
  <2>7. Resumes(g, Top)
    BY <2>2, <2>5 DEF Resumes, Filling, Owning, Serving, Full
  <2>8. Enters(f, g)
    BY <1>1, <2>2, <2>4 DEF Enters, Serves, Filling, Owning, Serving, Full
  <2> QED
    BY <1>1, <2>1, <2>4, <2>5, <2>6, <2>7, <2>8, CallKeeps
<1>4. CASE GotFile /\ ~(ret.code = "unsupported" /\ Top.kind \in {"preview", "exif"})
  <2>1. Safe
    BY <1>4, SafeSame DEF GotFile, Fixed, Cache
  <2>2. Top.at = "got" /\ obj' = obj /\ Returns(ret.code, NoInfo)
    BY <1>4 DEF GotFile, Fails, At
  <2>3. Fulfils
    BY <1>1, <2>2 DEF Fulfils, Returns, Shape, Delivered
  <2> QED
    BY <1>1, <2>1, <2>2, <2>3, PopKeeps DEF Returns
<1> QED
  BY <1>2, <1>3, <1>4

LEMMA SecondKeeps ==
  ASSUME TInv, Shape, GotSecond
  PROVE  Shape'
<1>1. /\ stack # << >> /\ Top \in GoodFrame /\ Top = stack[1] /\ 1 \in Positions
      /\ Top.at = "second" /\ Top.file \in File /\ Top.spare \in File
      /\ Top.kind \in {"preview", "exif"} /\ slot' = slot
  <2>1. /\ stack # << >> /\ Top \in GoodFrame /\ Top = stack[1] /\ 1 \in Positions
        /\ Top.at = "second" /\ slot' = slot
    BY TopType DEF GotSecond, At, Positions, Cache
  <2> QED
    BY <2>1 DEF GoodFrame, Filling, Owning
<1> DEFINE from == obj[Top.spare]
           good == ret.code = "ok" /\ (Top.kind = "exif" \/ HasThumb(from))
           g    == [Continue("cached") EXCEPT !.spare = NoFile]
           f    == Frame("take", Top.kind, Top.file)
<1>2. CASE good
  <2>1. /\ Put(Top.file, Extracted(Top.kind, from)) /\ Calls(g, f)
        /\ UNCHANGED <<op, app, slot>>
    BY <1>2 DEF GotSecond, Fixed, Cache
  <2>2. g \in GoodFrame
    BY <1>1 DEF Continue, GoodFrame, FrameType, Labels, Filling, Owning, Serving, Full
  <2>3. /\ g.at = "cached" /\ g.file = Top.file /\ g.kind = Top.kind
    BY <1>1 DEF Continue, GoodFrame, FrameType
  <2>4. f \in GoodFrame /\ f.at = "take" /\ f.file = Top.file /\ f.kind = Top.kind
    BY <1>1, NewFrames DEF Frame, Labels, Kind
  <2>5. Safe /\ obj'[Top.file] = Extracted(Top.kind, from)
    BY <1>1, <2>1, SafeOwn DEF Filling, Owning
  <2>6. from.holds = Elsewhere(Top.kind)
    BY <1>1, <1>2 DEF Shape, Delivered
  <2>7. obj'[Top.file].holds = Top.kind
    BY <1>1, <2>5, <2>6 DEF Extracted, Elsewhere
  <2> HIDE DEF f, g
  <2>8. Resumes(g, Top)
    BY <1>1, <2>3, <2>7 DEF Resumes, Filling, Owning, Serving, Full
  <2>9. Enters(f, g)
    BY <1>1, <2>3, <2>4, <2>7 DEF Enters, Serves, Filling, Owning, Serving, Full
  <2> QED
    BY <1>1, <2>1, <2>2, <2>4, <2>5, <2>8, <2>9, CallKeeps
<1>3. CASE ~good
  <2>1. Fails(IF ret.code = "ok" THEN "unsupported" ELSE ret.code) /\ UNCHANGED obj
    BY <1>3 DEF GotSecond
  <2>2. Safe
    BY <2>1, SafeSame DEF GotSecond, Fixed, Cache
  <2> QED
    BY <1>1, <2>1, <2>2, FailKeeps
<1> QED
  BY <1>2, <1>3

LEMMA ImplKeeps ==
  ASSUME TInv, Shape, Cached \/ CopyCached \/ Download
  PROVE  Shape'
<1>1. /\ stack # << >> /\ Top \in GoodFrame /\ Top = stack[1] /\ 1 \in Positions
      /\ Top.at \in {"cached", "impl"} /\ Top.file \in File /\ Top.kind \in Kind
      /\ UNCHANGED <<op, app, slot>>
  <2>1. /\ stack # << >> /\ Top \in GoodFrame /\ Top = stack[1] /\ 1 \in Positions
        /\ Top.at \in {"cached", "impl"} /\ UNCHANGED <<op, app, slot>>
    <3>1. stack # << >> /\ Top.at \in {"cached", "impl"}
      BY DEF Cached, CopyCached, Download, Found, At
    <3>2. UNCHANGED <<op, app, slot>>
      BY DEF Cached, CopyCached, Download, Cache, Fixed, Memory
    <3> QED
      BY <3>1, <3>2, TopType DEF Positions
  <2> QED
    BY <2>1 DEF GoodFrame, FrameType, Filling, Serving, Full
<1>2. CASE Cached
  <2>1. Safe /\ Top.at = "cached" /\ UNCHANGED obj /\ stack' = Tail(stack)
    BY <1>1, <1>2, SafeSame DEF Cached, Memory, Fails, Returns, At
  <2>2. obj'[Top.file].holds = Top.kind
    BY <1>1, <2>1 DEF Safe, Full
  <2> QED
    BY <1>1, <2>1, <2>2, PopKeeps DEF Fulfils
<1>3. CASE CopyCached
  <2>1. /\ Top.at = "impl" /\ Put(Top.file, obj[slot[Top.kind]]) /\ slot[Top.kind] # NoFile
        /\ stack' = Tail(stack)
    BY <1>3 DEF CopyCached, Found, At, Copy, Succeeds, Returns
  <2>2. Safe /\ obj'[Top.file] = obj[slot[Top.kind]]
    BY <1>1, <2>1, SafeOwn DEF Filling, Serving
  <2>3. obj'[Top.file].holds = Top.kind
    BY <1>1, <2>1, <2>2 DEF Shape, SlotsTrue
  <2> QED
    BY <1>1, <2>1, <2>2, <2>3, PopKeeps DEF Fulfils
<1>4. CASE Download
  <2> DEFINE g == Continue("driver file")
  <2>1. Safe /\ Top.at = "impl" /\ Goes(g)
    BY <1>1, <1>4, SafeSame DEF Download, Memory, Found, At
  <2>2. g \in GoodFrame
    BY <1>1, ContinuedFrames DEF Continue, Labels
  <2>3. g.at = "driver file" /\ g.file = Top.file /\ g.kind = Top.kind
    BY <1>1 DEF Continue, GoodFrame, FrameType
  <2> HIDE DEF g
  <2>4. Resumes(g, Top)
    BY <2>1, <2>3 DEF Resumes, Filling, Owning, Serving, Full
  <2> QED
    BY <1>1, <2>1, <2>2, <2>3, <2>4, GoKeeps
<1> QED
  BY <1>2, <1>3, <1>4

LEMMA StampedResumes ==
  ASSUME TInv, Shape, Safe, stack # << >>, NEW label \in {"stamped", "searched"},
         Top.at \in {"take", "stamped"}
  PROVE  Continue(label) \in GoodFrame /\ Continue(label).at = label /\ Resumes(Continue(label), Top)
<1>1. Top \in GoodFrame /\ Top = stack[1] /\ 1 \in Positions
  BY TopType DEF Positions
<1>2. Top.file \in File
  BY <1>1 DEF GoodFrame, Full
<1>3. obj'[Top.file].holds = Top.kind
  BY <1>1 DEF Safe, Full
<1> DEFINE g == Continue(label)
<1>4. g \in GoodFrame
  BY <1>1, <1>2, ContinuedFrames DEF Continue, Labels
<1>5. g.at = label /\ g.file = Top.file /\ g.kind = Top.kind
  BY <1>1 DEF Continue, GoodFrame, FrameType
<1> HIDE DEF g
<1>6. Resumes(g, Top)
  BY <1>3, <1>5 DEF Resumes, Filling, Owning, Serving, Full
<1> QED
  BY <1>4, <1>5, <1>6 DEF g

LEMMA TakeKeeps ==
  ASSUME TInv, Shape, TakeFile \/ Stamped \/ Searched
  PROVE  Shape'
<1>1. /\ stack # << >> /\ Top = stack[1] /\ 1 \in Positions
      /\ Top.at \in {"take", "stamped", "searched"} /\ Top.file \in File /\ Top.kind \in Kind
      /\ Top.at \in Full /\ Top.at \notin Filling \union {"cached"}
  <2>1. /\ stack # << >> /\ Top \in GoodFrame /\ Top = stack[1] /\ 1 \in Positions
        /\ Top.at \in {"take", "stamped", "searched"}
    <3>1. stack # << >> /\ Top.at \in {"take", "stamped", "searched"}
      BY DEF TakeFile, Stamped, Searched, Found, At
    <3> QED
      BY <3>1, TopType DEF Positions
  <2> QED
    BY <2>1 DEF GoodFrame, FrameType, Filling, Owning, Serving, Full
<1>2. ASSUME Safe, Succeeds PROVE Shape'
  BY <1>1, <1>2, ReturnKeeps DEF Succeeds
<1>3. ASSUME Safe, NEW label \in {"stamped", "searched"}, Top.at \in {"take", "stamped"},
             NEW f \in GoodFrame, f.at \in Others, Calls(Continue(label), f)
      PROVE  Shape'
  BY <1>1, <1>3, StampedResumes, PlainEnters, CallKeeps
<1>4. CASE TakeFile
  <2>1. /\ UNCHANGED <<op, app, obj>> /\ Top.at = "take"
        /\ slot' = [slot EXCEPT ![Top.kind] = Top.file]
    BY <1>4 DEF TakeFile, Fixed, Memory, Found, At
  <2>2. slot \in [Kind -> File \union {NoFile}]
    BY TypesSplit DEF DataOK
  <2>3. obj[Top.file].holds = Top.kind
    BY <1>1 DEF Shape, Complete
  <2>4. \A i \in Positions : stack[i].at \in Filling => Top.file # stack[i].file
    BY <1>1 DEF Shape, Apart
  <2>5. Safe
    BY <1>1, <2>1, <2>2, <2>3, <2>4 DEF Shape, Safe, Complete, SlotsTrue, Reserved
  <2> QED
    BY <1>2, <1>3, <1>4, <2>1, <2>5, PlainFrames DEF TakeFile
<1>5. CASE Stamped
  <2>1. PICK time :
          IF time # None THEN Stamp(time) /\ Succeeds
          ELSE /\ Calls(Continue("searched"), Frame("exif time", "exif", NoFile))
               /\ UNCHANGED <<obj, ret>>
    BY <1>5 DEF Stamped
  <2>2. Top.at = "stamped" /\ UNCHANGED <<op, app, slot>>
    BY <1>5 DEF Stamped, Fixed, Cache, At
  <2>3. CASE time # None
    BY <1>1, <1>2, <2>1, <2>2, <2>3, SafeStamp
  <2>4. CASE time = None
    BY <1>3, <2>1, <2>2, <2>4, SafeSame, PlainFrames
  <2> QED
    BY <2>3, <2>4
<1>6. CASE Searched
  BY <1>1, <1>2, <1>6, SafeStamp DEF Searched, Fixed, Cache
<1> QED
  BY <1>4, <1>5, <1>6

LEMMA SetKeeps ==
  ASSUME TInv, Shape, SetInfo \/ SetInfoFails
  PROVE  Shape'
<1>1. stack # << >> /\ Top.at \notin Filling \union {"cached"}
  <2>1. stack # << >> /\ Top.at = "set"
    BY DEF SetInfo, SetInfoFails, Found, At
  <2> QED
    BY <2>1 DEF Filling, Owning, Serving
<1>2. Safe
  BY SafeSame DEF SetInfo, SetInfoFails, Fixed, Memory
<1>3. PICK code : Returns(code, NoInfo)
  BY DEF SetInfo, SetsReadOnly, Sets, SetInfoFails, Fails, Succeeds
<1> QED
  BY <1>1, <1>2, <1>3, ReturnKeeps

LEMMA HandKeeps ==
  ASSUME TInv, Shape, DriverFails \/ DriverList \/ HandInfo \/ HandFile \/ HandedAll \/ DriverInfo
  PROVE  Shape'
<1>1. stack # << >>
  BY DEF DriverFails, DriverList, HandInfo, HandFile, HandedAll, DriverInfo, At
<1>2. Top \in GoodFrame /\ DataOK
  BY <1>1, TopType, TypesSplit
<1>3. ASSUME Top.at \in {"driver list", "driver info", "handed"}, Safe,
             NEW rest \in Seq(Kind \union {"info"}),
             Goes([[Top EXCEPT !.at = "handed"] EXCEPT !.rest = rest])
      PROVE  Shape'
  <2> DEFINE g == [[Top EXCEPT !.at = "handed"] EXCEPT !.rest = rest]
  <2>1. g \in GoodFrame
    BY <1>2, RestFrames
  <2>2. g.at = "handed"
    BY <1>2 DEF GoodFrame, FrameType
  <2>3. Goes(g)
    BY <1>3
  <2> HIDE DEF g
  <2>4. Resumes(g, Top)
    BY <1>3, <2>2, PlainResumes DEF Others, Labels, Filling, Owning, Serving, Full
  <2> QED
    BY <1>1, <1>3, <2>1, <2>2, <2>3, <2>4, GoKeeps
<1>4. CASE DriverFails
  <2>1. Safe
    BY <1>4, SafeSame DEF DriverFails, Fixed, Memory, Cache
  <2> QED
    BY <1>1, <1>4, <2>1, FailKeeps DEF DriverFails
<1>5. CASE DriverList
  <2>1. Safe
    BY <1>5, SafeSame DEF DriverList, Fixed, Memory
  <2>2. driver.hands \in Seq(Kind \union {"info"})
    BY <1>2, DataTypes DEF DriverType
  <2> QED
    BY <1>3, <1>5, <2>1, <2>2 DEF DriverList, Continue, At
<1>6. CASE HandInfo
  <2>1. Safe
    BY <1>6, SafeSame DEF HandInfo, Fixed, Memory
  <2>2. Tail(Top.rest) \in Seq(Kind \union {"info"}) /\ Top.at = "handed"
    BY <1>1, <1>6, RestTypes DEF HandInfo, At
  <2>3. [Top EXCEPT !.rest = Tail(@)] = [[Top EXCEPT !.at = "handed"] EXCEPT !.rest = Tail(Top.rest)]
    BY <1>2, <2>2 DEF GoodFrame, FrameType
  <2> QED
    BY <1>3, <1>6, <2>1, <2>2, <2>3 DEF HandInfo
<1>7. CASE HandFile
  <2> DEFINE g == [Top EXCEPT !.rest = Tail(@)]
             f == Frame("take", Head(Top.rest), NewFile)
  <2>1. Free # {} /\ NewFile \in Free /\ NewFile \in File /\ Top.at = "handed"
    BY <1>7, NewFileIsFree DEF HandFile, At
  <2>2. Head(Top.rest) \in Kind /\ Tail(Top.rest) \in Seq(Kind \union {"info"})
    BY <1>1, <1>7, RestTypes DEF HandFile
  <2>3. g \in GoodFrame
    BY <1>2, <2>2, RestFrames
  <2>4. g.at = "handed"
    BY <1>2, <2>1 DEF GoodFrame, FrameType
  <2>5. f \in GoodFrame /\ f.at = "take" /\ f.file = NewFile /\ f.kind = Head(Top.rest)
    BY <2>1, <2>2, NewFrames DEF Frame, Labels
  <2>6. Calls(g, f) /\ Put(NewFile, Sent(Head(Top.rest))) /\ UNCHANGED <<op, app, slot>>
    BY <1>7 DEF HandFile, Fixed, Cache
  <2>7. Safe /\ obj'[NewFile] = Sent(Head(Top.rest))
    BY <2>1, <2>6, SafeNew
  <2>8. obj'[NewFile].holds = Head(Top.rest)
    BY <2>7 DEF Sent
  <2> HIDE DEF f, g
  <2>9. Resumes(g, Top)
    BY <2>1, <2>4, PlainResumes DEF Others, Labels, Filling, Owning, Serving, Full
  <2>10. Enters(f, g)
    BY <2>1, <2>4, <2>5, <2>8 DEF Enters, Serves, Filling, Owning, Serving, Full
  <2> QED
    BY <1>1, <2>3, <2>5, <2>6, <2>7, <2>9, <2>10, CallKeeps
<1>8. CASE HandedAll
  <2>1. Safe
    BY <1>8, SafeSame DEF HandedAll, Fixed, Memory, Cache
  <2>2. Top.at \notin Filling \union {"cached"}
    BY <1>8 DEF HandedAll, At, Filling, Owning, Serving
  <2> QED
    BY <1>1, <1>8, <2>1, <2>2, ReturnKeeps DEF HandedAll, Succeeds
<1>9. CASE DriverInfo
  <2>1. Safe
    BY <1>9, SafeSame DEF DriverInfo, Fixed, Memory
  <2> DEFINE rest == IF driver.info = "hands" THEN << "preview" >> ELSE << >>
  <2>2. rest \in Seq(Kind \union {"info"})
    <3>1. << "preview" >> \in Seq(Kind \union {"info"}) /\ << >> \in Seq(Kind \union {"info"})
      BY DEF Kind
    <3> QED
      BY <3>1
  <2>3. Top.at = "driver info" /\ Goes([[Top EXCEPT !.at = "handed"] EXCEPT !.rest = rest])
    BY <1>9 DEF DriverInfo, Continue, At
  <2> QED
    BY <1>3, <2>1, <2>2, <2>3
<1> QED
  BY <1>4, <1>5, <1>6, <1>7, <1>8, <1>9

LEMMA FileKeeps ==
  ASSUME TInv, Shape, DriverFile \/ DriverAsks \/ DriverSized
  PROVE  Shape'
<1>1. stack # << >> /\ Top.at \in {"driver file", "sized"} /\ UNCHANGED <<op, app, slot>>
  BY DEF DriverFile, DriverAsks, DriverSized, At, Fixed, Memory, Cache
<1>2. Top \in GoodFrame /\ Top.at \in Filling /\ Top.file \in File /\ Top.kind \in Kind
  BY <1>1, TopType DEF GoodFrame, FrameType, Filling, Serving
<1>3. ASSUME Put(Top.file, Sent(Top.kind)), Succeeds
      PROVE  Shape'
  <2>1. Safe /\ obj'[Top.file] = Sent(Top.kind)
    BY <1>1, <1>2, <1>3, SafeOwn
  <2>2. obj'[Top.file].holds = Top.kind
    BY <2>1 DEF Sent
  <2> QED
    BY <1>1, <1>3, <2>1, <2>2, PopKeeps DEF Succeeds, Returns, Fulfils
<1>4. ASSUME NEW code, code # "ok", Fails(code), UNCHANGED obj
      PROVE  Shape'
  BY <1>1, <1>4, SafeSame, FailKeeps
<1>5. CASE DriverFile
  BY <1>3, <1>4, <1>5 DEF DriverFile
<1>6. CASE DriverSized
  <2>1. Top.kind = "normal"
    BY <1>2, <1>6 DEF DriverSized, At, GoodFrame
  <2> QED
    BY <1>3, <1>4, <1>6, <2>1 DEF DriverSized
<1>7. CASE DriverAsks
  <2> DEFINE g == Continue("sized")
  <2>1. Top.kind = "normal" /\ Top.at = "driver file" /\ UNCHANGED obj
        /\ Calls(g, Frame("info", "normal", NoFile))
    BY <1>7 DEF DriverAsks, Memory, At
  <2>2. g \in GoodFrame
    BY <1>2, <2>1 DEF Continue, GoodFrame, FrameType, Labels, Filling, Owning, Serving, Full
  <2>3. g.at = "sized" /\ g.file = Top.file /\ g.kind = Top.kind
    BY <1>2 DEF Continue, GoodFrame, FrameType
  <2>4. Safe
    BY <1>1, <2>1, SafeSame
  <2> HIDE DEF g
  <2>5. Resumes(g, Top)
    BY <2>1, <2>3 DEF Resumes, Filling, Owning, Serving, Full
  <2>6. Enters(Frame("info", "normal", NoFile), g)
    BY <2>3, PlainFrames, PlainEnters
  <2> QED
    BY <1>1, <2>1, <2>2, <2>4, <2>5, <2>6, PlainFrames, CallKeeps
<1> QED
  BY <1>5, <1>6, <1>7

\* A call begins: a download gets an object that nobody refers to.
LEMMA BeginKeeps ==
  ASSUME TInv, Shape, NEW name \in Kind \union {"info", "set"}, NEW at \in {"info", "set", "get"},
         NEW kind \in Kind, NEW o \in File, NEW content \in Content,
         Begins(name, at, kind, o, content),
         name \in Kind => at = "get" /\ kind = name,
         at = "get" => o \in Free,
         o \in Free \/ content = obj[o]
  PROVE  Shape'
<1> DEFINE f == Frame(at, kind, IF at = "get" THEN o ELSE NoFile)
<1>1. DataOK /\ TInv' /\ f \in GoodFrame
  BY TypesSplit, BeginTypes
<1>2. f.at = at /\ f.kind = kind /\ (at = "get" => f.file = o)
  BY DEF Frame
<1>3. /\ stack' = << f >> /\ app' = o /\ op' = name /\ ret' = NoAnswer
      /\ slot' = slot /\ obj' = Kept(o, content)
  BY DEF Begins, Cache
<1> HIDE DEF f
<1>4. /\ Len(stack') = 1 /\ stack'[1] = f /\ stack' # << >> /\ Positions' = {1}
      /\ Top' = f
  BY <1>3 DEF Positions, Top
<1>5. Chained' /\ Apart' /\ Complete'
  <2>1. f.at \notin Full
    BY <1>2 DEF Full
  <2>2. \A i \in Positions' : i = 1 /\ stack'[i] = f
    BY <1>4
  <2> QED
    BY <2>1, <2>2 DEF Chained, Apart, Complete
<1>6. Reserved'
  <2> SUFFICES ASSUME NEW k \in Kind, f.at \in Filling PROVE slot[k] # f.file
    BY <1>3, <1>4 DEF Reserved
  <2>1. at = "get"
    BY <1>2 DEF Filling, Owning, Serving
  <2> QED
    BY <1>2, <2>1 DEF Free, Referenced
<1>7. SlotsTrue'
  <2> SUFFICES ASSUME NEW k \in Kind, slot[k] # NoFile PROVE obj'[slot[k]].holds = k
    BY <1>3 DEF SlotsTrue
  <2>1. slot[k] \in File /\ slot[k] \in {slot[l] : l \in Kind}
    BY <1>1 DEF DataOK
  <2>2. slot[k] \notin Free
    BY DEF Free, Referenced
  <2>3. obj'[slot[k]] = obj[slot[k]]
    BY <1>3, <2>1, <2>2 DEF Kept
  <2> QED
    BY <2>3 DEF Shape, SlotsTrue
<1>8. Delivered'
  BY <1>3 DEF Delivered, NoAnswer
<1>9. Bottom'
  BY <1>2, <1>3, <1>4 DEF Bottom, AsksFor, Owning
<1>10. DownloadIsTrue'
  BY <1>4 DEF DownloadIsTrue, Answered, Idle
<1> QED
  BY <1>5, <1>6, <1>7, <1>8, <1>9, <1>10 DEF Shape

LEMMA ApplicationKeeps ==
  ASSUME TInv, Shape, ~Reuses, Application
  PROVE  Shape'
<1>1. app \in File /\ obj[app] \in Content /\ Blank \in Content
  BY TypesSplit, DataTypes DEF DataOK
<1>2. CASE CameraFileGetInfo \/ CameraFileSetInfo
  BY <1>1, <1>2, BeginKeeps DEF CameraFileGetInfo, CameraFileSetInfo, Kind
<1>3. CASE CameraFileGet
  <2>1. PICK k \in Kind : Free # {} /\ Begins(k, "get", k, NewFile, Blank)
    BY <1>3 DEF CameraFileGet
  <2> QED
    BY <1>1, <2>1, NewFileIsFree, BeginKeeps
<1>4. CASE Reset \/ Evict
  <2>1. /\ stack = << >> /\ stack' = << >> /\ UNCHANGED <<obj, app, op, ret>>
        /\ \A k \in Kind : slot'[k] \in {slot[k], NoFile}
    BY <1>4, TypesSplit DEF Reset, Evict, Idle, NoSlot, Fixed, Memory, DataOK
  <2>2. Positions' = {}
    BY <2>1 DEF Positions
  <2> QED
    BY <2>1, <2>2 DEF Shape, Chained, Apart, Reserved, Complete, SlotsTrue, Delivered, Bottom,
                      DownloadIsTrue, Answered, Idle
<1> QED
  BY <1>2, <1>3, <1>4 DEF Application

LEMMA InitShape == Init => Shape
<1> SUFFICES ASSUME Init PROVE Shape
  OBVIOUS
<1>1. stack = << >> /\ op = "none" /\ \A k \in Kind : slot[k] = NoFile
  BY DEF Init, NoSlot
<1>2. Positions = {}
  BY <1>1 DEF Positions
<1> QED
  BY <1>1, <1>2 DEF Shape, Chained, Apart, Reserved, Complete, SlotsTrue, Delivered, Bottom,
                    DownloadIsTrue, Answered, Kind

LEMMA StepShape ==
  ASSUME ~Reuses
  PROVE  TInv /\ Shape /\ [Next]_vars => Shape'
<1> SUFFICES ASSUME TInv, Shape, [Next]_vars PROVE Shape'
  OBVIOUS
<1>1. CASE Library
  BY <1>1, ListKeeps, InfoKeeps, ExifKeeps, GetKeeps, SecondKeeps, ImplKeeps, TakeKeeps, SetKeeps
     DEF Library
<1>2. CASE DriverStep
  BY <1>2, HandKeeps, FileKeeps DEF DriverStep
<1>3. CASE Application
  BY <1>3, ApplicationKeeps
<1>4. CASE UNCHANGED vars
  BY <1>4 DEF vars, Shape, Chained, Apart, Reserved, Complete, SlotsTrue, Delivered, Bottom,
              Positions, Top, DownloadIsTrue, Answered, Idle
<1> QED
  BY <1>1, <1>2, <1>3, <1>4 DEF Next

(***************************************************************************)
(* Whatever a driver supports, hands over or fails in, and however deep    *)
(* the functions call each other: a download that succeeds leaves in the   *)
(* application's object what was asked for, if the application takes an    *)
(* object of its own for each download (gp_filesystem_get_file).           *)
(***************************************************************************)
THEOREM DownloadsAreTrue ==
  ASSUME ~Reuses
  PROVE  Spec => []DownloadIsTrue
<1>1. TInv /\ Shape /\ [Next]_vars => (TInv /\ Shape)'
  BY StepTypes, StepShape
<1>2. Init => TInv /\ Shape
  BY InitTypes, InitShape
<1>3. Shape => DownloadIsTrue
  BY DEF Shape
<1> QED
  BY <1>1, <1>2, <1>3, PTL DEF Spec

(***************************************************************************)
(* What is cached for a kind of file is a file of that kind                *)
(* (gp_filesystem_set_file_noop), also while calls are in progress that    *)
(* fill other files.                                                       *)
(***************************************************************************)
THEOREM CacheHoldsItsKinds ==
  ASSUME ~Reuses
  PROVE  Spec => []SlotsTrue
<1>1. TInv /\ Shape /\ [Next]_vars => (TInv /\ Shape)'
  BY StepTypes, StepShape
<1>2. Init => TInv /\ Shape
  BY InitTypes, InitShape
<1>3. Shape => SlotsTrue
  BY DEF Shape
<1> QED
  BY <1>1, <1>2, <1>3, PTL DEF Spec

(***************************************************************************)
(* The information.  What is clean is what the camera says, and so is what *)
(* the driver has just written, until gp_filesystem_get_info marks it as   *)
(* clean.                                                                  *)
(***************************************************************************)

\* The camera tells the time of modification, and nobody changes it.
TimeTold == driver.time /\ "time" \notin driver.sets

InfoHere ==
  /\ entry.info.perm = cam.perm
  /\ TimeTold => entry.info.time = cam.time

\* What a function is about to do.
Label(f) == f.at

Asking  == {"info", "asked", "timed"}
Finding == {"asked", "timed"}
Writing == Finding \union {"driver list", "driver info", "handed"}

CleanIsTrue == ~entry.dirty => InfoHere

\* The driver that has been asked is about to write the information, or has written
\* it, or has returned.
AskedInTurn ==
  \A i \in Positions : Label(stack[i]) = "asked" /\ i # 1 =>
    Label(stack[i - 1]) \in {"driver info", "handed"}

AskedIsTrue ==
  \A i \in Positions :
    /\ Label(stack[i]) = "asked"
    /\ IF i = 1 THEN ret.code = "ok" ELSE Label(stack[i - 1]) = "handed"
    => InfoHere

TimedIsTrue == \A i \in Positions : Label(stack[i]) = "timed" => InfoHere /\ ~TimeTold

SetIsLast == \A i \in Positions : Label(stack[i]) = "set" => i = Len(stack)

\* The folder is listed before anybody asks for the information.
ListsFirst ==
  \A i \in Positions : Label(stack[i]) = "driver list" =>
    i = 1 /\ \A j \in Positions : Label(stack[j]) \notin Finding

Unlisted == ~listed => entry.dirty /\ \A j \in Positions : Label(stack[j]) \notin Writing

AtBottom == op = "info" /\ stack # << >> => Label(stack[Len(stack)]) \in Asking

Tells == /\ ret.info.perm = cam.perm
         /\ TimeTold => ret.info.time = cam.time
InfoIsTold == Answered("info") => Tells

Truth ==
  /\ CleanIsTrue /\ AskedInTurn /\ AskedIsTrue /\ TimedIsTrue /\ SetIsLast /\ ListsFirst
  /\ Unlisted /\ AtBottom /\ InfoIsTold

\* A step that makes nothing of it wrong.
Quiet ==
  /\ op' = op /\ driver' = driver
  /\ InfoHere => InfoHere'
  /\ ~entry'.dirty => InfoHere'
  /\ listed \in BOOLEAN /\ listed' \in BOOLEAN
  /\ ~listed' => ~listed /\ entry'.dirty

LEMMA QuietSame ==
  ASSUME TInv, Truth, UNCHANGED <<Fixed, cam, entry>>, listed' \in BOOLEAN, listed => listed'
  PROVE  Quiet /\ (InfoHere' <=> InfoHere)
<1>1. listed \in BOOLEAN /\ (~listed => entry.dirty)
  BY TypesSplit DEF DataOK, Truth, Unlisted
<1>2. InfoHere' <=> InfoHere
  BY DEF InfoHere, TimeTold, Fixed
<1> QED BY <1>1, <1>2 DEF Quiet, Truth, CleanIsTrue, Fixed

\* The moves of the stack, for any frames.
LEMMA GoneAnywhere ==
  ASSUME TInv, ~Idle, NEW g, Goes(g)
  PROVE  /\ stack' # << >> /\ Len(stack') = Len(stack) /\ stack'[1] = g
         /\ \A i \in 2 .. Len(stack) : stack'[i] = stack[i]
<1> DEFINE S == GoodFrame \union {g}
<1>1. stack \in Seq(S) /\ stack # << >>
  BY SeqMonotonic DEF TInv, Idle
<1> HIDE DEF S
<1>2. Tail(stack) \in Seq(S) /\ Len(Tail(stack)) = Len(stack) - 1 /\ Len(stack) \in Nat \ {0}
      /\ \A i \in 1 .. Len(Tail(stack)) : Tail(stack)[i] = stack[i + 1]
  BY <1>1, HeadTailProperties, EmptySeq, LenProperties
<1>3. g \in S
  BY DEF S
<1> DEFINE t == Tail(stack)
<1> HIDE DEF t
<1>4. <<g>> \in Seq(S) /\ Len(<<g>>) = 1 /\ <<g>>[1] = g /\ stack' = <<g>> \o t
  BY <1>3 DEF Goes, t
<1>5. /\ Len(stack') = 1 + Len(t) /\ stack'[1] = g
      /\ \A i \in 1 .. Len(t) : stack'[1 + i] = t[i]
  BY <1>2, <1>4, ConcatProperties DEF t
<1>6. \A i \in 2 .. Len(stack) : i - 1 \in 1 .. Len(t) /\ 1 + (i - 1) = i /\ (i - 1) + 1 = i
  BY <1>2 DEF t
<1>7. \A i \in 2 .. Len(stack) : stack'[i] = stack[i]
  <2> TAKE i \in 2 .. Len(stack)
  <2>1. i - 1 \in 1 .. Len(t) /\ 1 + (i - 1) = i /\ (i - 1) + 1 = i
    BY <1>6
  <2>2. stack'[1 + (i - 1)] = t[i - 1] /\ t[i - 1] = stack[(i - 1) + 1]
    BY <1>2, <1>5, <2>1 DEF t
  <2> QED BY <2>1, <2>2
<1>8. Len(stack') = Len(stack) /\ stack' # << >>
  BY <1>2, <1>4, <1>5 DEF t
<1> QED BY <1>5, <1>7, <1>8

LEMMA CalledAnywhere ==
  ASSUME TInv, ~Idle, NEW g, NEW f, Calls(g, f)
  PROVE  /\ stack' # << >> /\ Len(stack') = Len(stack) + 1
         /\ stack'[1] = f /\ stack'[2] = g
         /\ \A i \in 3 .. Len(stack') : stack'[i] = stack[i - 1]
<1> DEFINE S == GoodFrame \union {f, g}
<1>1. stack \in Seq(S) /\ stack # << >>
  BY SeqMonotonic DEF TInv, Idle
<1> HIDE DEF S
<1>2. Tail(stack) \in Seq(S) /\ Len(Tail(stack)) = Len(stack) - 1 /\ Len(stack) \in Nat \ {0}
      /\ \A i \in 1 .. Len(Tail(stack)) : Tail(stack)[i] = stack[i + 1]
  BY <1>1, HeadTailProperties, EmptySeq, LenProperties
<1>3. f \in S /\ g \in S
  BY DEF S
<1> DEFINE t == Tail(stack)
<1> HIDE DEF t
<1>4. <<f, g>> \in Seq(S) /\ Len(<<f, g>>) = 2 /\ <<f, g>>[1] = f /\ <<f, g>>[2] = g
      /\ stack' = <<f, g>> \o t
  BY <1>3 DEF Calls, t
<1>5. /\ Len(stack') = 2 + Len(t) /\ stack'[1] = f /\ stack'[2] = g
      /\ \A i \in 1 .. Len(t) : stack'[2 + i] = t[i]
  BY <1>2, <1>4, ConcatProperties DEF t
<1>6. Len(stack') = Len(stack) + 1 /\ stack' # << >>
  BY <1>2, <1>4, <1>5 DEF t
<1>7. \A i \in 3 .. Len(stack') : i - 2 \in 1 .. Len(t) /\ 2 + (i - 2) = i /\ (i - 2) + 1 = i - 1
  BY <1>2, <1>5 DEF t
<1>8. \A i \in 3 .. Len(stack') : stack'[i] = stack[i - 1]
  <2> TAKE i \in 3 .. Len(stack')
  <2>1. i - 2 \in 1 .. Len(t) /\ 2 + (i - 2) = i /\ (i - 2) + 1 = i - 1
    BY <1>7
  <2>2. stack'[2 + (i - 2)] = t[i - 2] /\ t[i - 2] = stack[(i - 2) + 1]
    BY <1>2, <1>5, <2>1 DEF t
  <2> QED BY <2>1, <2>2
<1> QED BY <1>5, <1>6, <1>8

\* Of a function that returns: gp_filesystem_get_info tells what is so.
Answers ==
  /\ Label(Top) \in Asking /\ ret'.code = "ok" => Tells'
  /\ Label(Top) = "driver info" => ret'.code # "ok"

\* A function returns.
Pops == stack # << >> /\ stack' = Tail(stack)

LEMMA PopTruth ==
  ASSUME TInv, Truth, Quiet, Pops, Answers
  PROVE  Truth'
<1>1. /\ Top = stack[1] /\ Len(stack) \in Nat \ {0} /\ Len(stack') = Len(stack) - 1
      /\ \A i \in 1 .. Len(stack') : stack'[i] = stack[i + 1]
  BY TopType, Popped DEF Pops
<1>2. \A i \in Positions' :
        \E m \in Positions : /\ m # 1 /\ m - 1 = i /\ Label(stack'[i]) = Label(stack[m])
                             /\ i # 1 => Label(stack'[i - 1]) = Label(stack[i])
  <2>1. \A i \in 1 .. Len(stack') : /\ i + 1 \in 1 .. Len(stack) /\ i + 1 # 1 /\ (i + 1) - 1 = i
                                    /\ i # 1 => i - 1 \in 1 .. Len(stack') /\ (i - 1) + 1 = i
    BY <1>1
  <2> QED BY <1>1, <2>1 DEF Positions
<1>3. 1 \in Positions /\ (TimeTold' <=> TimeTold)
  BY <1>1 DEF Positions, Quiet, TimeTold
<1>4. AskedInTurn' /\ AskedIsTrue'
  <2> SUFFICES ASSUME NEW i \in Positions', Label(stack'[i]) = "asked"
               PROVE  /\ i # 1 => Label(stack'[i - 1]) \in {"driver info", "handed"}
                      /\ i = 1 => (ret'.code = "ok" => InfoHere')
                      /\ i # 1 => (Label(stack'[i - 1]) = "handed" => InfoHere')
    BY DEF AskedInTurn, AskedIsTrue
  <2>1. PICK m \in Positions : /\ m # 1 /\ m - 1 = i /\ Label(stack[m]) = "asked"
                               /\ i # 1 => Label(stack'[i - 1]) = Label(stack[i])
    BY <1>2, Zenon
  <2>2. Label(stack[i]) \in {"driver info", "handed"}
    BY <2>1 DEF Truth, AskedInTurn
  <2>3. Label(stack[i]) = "handed" => InfoHere'
    BY <2>1 DEF Truth, AskedIsTrue, Quiet
  <2>4. i = 1 => Label(Top) = Label(stack[i])
    BY <1>1
  <2>5. i = 1 => (ret'.code = "ok" => InfoHere')
    BY <2>2, <2>3, <2>4 DEF Answers
  <2> QED BY <2>1, <2>2, <2>3, <2>5
<1>5. CleanIsTrue'
  BY DEF Quiet, CleanIsTrue
<1>6. TimedIsTrue'
  BY <1>2, <1>3, Zenon DEF Quiet, Truth, TimedIsTrue
<1>7. SetIsLast'
  <2> SUFFICES ASSUME NEW i \in Positions', Label(stack'[i]) = "set" PROVE i = Len(stack')
    BY DEF SetIsLast
  <2>1. PICK m \in Positions : m - 1 = i /\ Label(stack[m]) = "set"
    BY <1>2, Zenon
  <2>2. m = Len(stack)
    BY <2>1 DEF Truth, SetIsLast
  <2> QED BY <1>1, <2>1, <2>2
<1>8. ListsFirst'
  <2>1. \A i \in Positions' : Label(stack'[i]) # "driver list"
    <3> SUFFICES ASSUME NEW i \in Positions', Label(stack'[i]) = "driver list" PROVE FALSE
      OBVIOUS
    <3>1. PICK m \in Positions : m # 1 /\ Label(stack[m]) = "driver list"
      BY <1>2, Zenon
    <3> QED BY <3>1 DEF Truth, ListsFirst
  <2> QED BY <2>1 DEF ListsFirst
<1>9. Unlisted'
  BY <1>2, Zenon DEF Quiet, Truth, Unlisted
<1>10. AtBottom'
  <2> SUFFICES ASSUME op = "info", stack' # << >> PROVE Label(stack'[Len(stack')]) \in Asking
    BY DEF AtBottom, Quiet
  <2>1. Len(stack') \in Positions' /\ Len(stack') + 1 = Len(stack)
    <3>1. stack' \in Seq(GoodFrame)
      BY Popped DEF Pops
    <3>2. Len(stack') \in Nat \ {0}
      BY <3>1, EmptySeq
    <3> QED BY <1>1, <3>2 DEF Positions
  <2>2. stack'[Len(stack')] = stack[Len(stack)]
    BY <1>1, <2>1 DEF Positions
  <2>3. Label(stack[Len(stack)]) \in Asking
    BY DEF Truth, AtBottom, Pops
  <2> QED BY <2>2, <2>3
<1>11. InfoIsTold'
  <2> SUFFICES ASSUME stack' = << >>, op = "info", ret'.code = "ok" PROVE Tells'
    BY DEF InfoIsTold, Answered, Idle, Quiet
  <2>1. Len(stack) = 1
    BY <1>1, LastPop
  <2>2. Label(Top) \in Asking
    BY <1>1, <2>1 DEF Truth, AtBottom
  <2> QED BY <2>2 DEF Answers
<1> QED BY <1>4, <1>5, <1>6, <1>7, <1>8, <1>9, <1>10, <1>11 DEF Truth

\* A function goes on, or is replaced by the driver's.
Replaces(g) ==
  \/ Label(Top) = "impl" /\ Label(g) = "driver file"
  \/ /\ Label(Top) \in {"driver list", "driver info", "handed"} /\ Label(g) = "handed"
     /\ Label(Top) = "driver info" => InfoHere'

LEMMA GoTruth ==
  ASSUME TInv, Truth, Quiet, ~Idle, NEW g, Goes(g), Replaces(g)
  PROVE  Truth'
<1>1. /\ Top = stack[1] /\ Len(stack) \in Nat \ {0} /\ Len(stack') = Len(stack)
      /\ stack'[1] = g
      /\ \A i \in 2 .. Len(stack) : stack'[i] = stack[i]
      /\ stack' # << >>
  BY TopType, GoneAnywhere DEF Idle
<1>2. Positions' = Positions /\ 1 \in Positions /\ (TimeTold' <=> TimeTold)
  BY <1>1 DEF Positions, Quiet, TimeTold
<1>3. \A i \in Positions : i # 1 => /\ i - 1 \in Positions /\ stack'[i] = stack[i]
                                    /\ i - 1 # 1 => stack'[i - 1] = stack[i - 1]
  <2>1. \A i \in 1 .. Len(stack) : i # 1 => /\ i \in 2 .. Len(stack) /\ i - 1 \in 1 .. Len(stack)
                                            /\ i - 1 # 1 => i - 1 \in 2 .. Len(stack)
    BY <1>1
  <2> QED BY <1>1, <2>1 DEF Positions
<1>4. Label(g) \notin Finding \union {"set", "driver list"} /\ Label(Top) \notin Asking \union {"set"}
  BY DEF Replaces, Finding, Asking
<1>5. AskedInTurn' /\ AskedIsTrue'
  <2> SUFFICES ASSUME NEW i \in Positions, Label(stack'[i]) = "asked"
               PROVE  /\ i # 1 /\ Label(stack'[i - 1]) \in {"driver info", "handed"}
                      /\ Label(stack'[i - 1]) = "handed" => InfoHere'
    BY <1>2 DEF AskedInTurn, AskedIsTrue
  <2>1. i # 1 /\ Label(stack[i]) = "asked"
    BY <1>1, <1>3, <1>4 DEF Finding
  <2>2. Label(stack[i - 1]) \in {"driver info", "handed"}
    BY <2>1 DEF Truth, AskedInTurn
  <2>3. Label(stack[i - 1]) = "handed" => InfoHere'
    BY <2>1 DEF Truth, AskedIsTrue, Quiet
  <2>4. CASE i - 1 = 1
    <3>1. Label(Top) \in {"driver info", "handed"} /\ stack'[i - 1] = g
      BY <1>1, <2>2, <2>4
    <3>2. Label(Top) = "handed" => InfoHere'
      BY <1>1, <2>3, <2>4
    <3>3. Label(g) = "handed" /\ InfoHere'
      BY <3>1, <3>2 DEF Replaces
    <3> QED BY <2>1, <3>1, <3>3
  <2>5. CASE i - 1 # 1
    BY <1>3, <2>1, <2>2, <2>3, <2>5
  <2> QED BY <2>4, <2>5
<1>6. CleanIsTrue'
  BY DEF Quiet, CleanIsTrue
<1>7. TimedIsTrue'
  BY <1>1, <1>2, <1>3, <1>4 DEF Quiet, Truth, TimedIsTrue, Finding
<1>8. SetIsLast'
  BY <1>1, <1>2, <1>3, <1>4 DEF Truth, SetIsLast
<1>9. ListsFirst'
  BY <1>1, <1>2, <1>3, <1>4 DEF Truth, ListsFirst
<1>10. Unlisted'
  <2>1. ~listed' => Label(g) \notin Writing
    BY <1>1, <1>2 DEF Quiet, Truth, Unlisted, Writing, Finding, Replaces
  <2> QED BY <1>1, <1>2, <1>3, <2>1 DEF Quiet, Truth, Unlisted
<1>11. AtBottom'
  <2>1. op = "info" => Len(stack) > 1
    <3>1. op = "info" => Label(stack[Len(stack)]) \in Asking
      BY DEF Truth, AtBottom, Idle
    <3>2. op = "info" => Len(stack) # 1
      BY <1>1, <1>4, <3>1
    <3> QED BY <1>1, <3>2
  <2>2. op = "info" => Len(stack) \in Positions /\ stack'[Len(stack)] = stack[Len(stack)]
    BY <1>1, <1>3, <2>1 DEF Positions
  <2>3. op = "info" => Label(stack[Len(stack)]) \in Asking
    BY DEF Truth, AtBottom, Idle
  <2> QED BY <1>1, <2>2, <2>3 DEF AtBottom, Quiet
<1>12. InfoIsTold'
  BY <1>1 DEF InfoIsTold, Answered, Idle
<1> QED BY <1>5, <1>6, <1>7, <1>8, <1>9, <1>10, <1>11, <1>12 DEF Truth

\* A function goes on as g, after it has called f.
Ordered(g, f) ==
  /\ Label(f) \notin Finding \union {"set", "handed"} /\ Label(g) # "driver list"
  /\ Label(g) = "asked" => Label(f) = "driver info"
  /\ Label(g) = "timed" => InfoHere' /\ ~TimeTold
  /\ Label(g) = "set" => Label(Top) = "set"
  /\ Label(f) = "driver list" => ~listed /\ g = Top
  /\ Label(f) \in Writing \/ Label(g) \in Finding => listed'
  /\ Label(Top) \in Asking => Label(g) \in Asking
  /\ Label(Top) # "driver info" /\ Label(g) # "driver info"
  /\ (Label(Top) = "handed" <=> Label(g) = "handed")

LEMMA CallTruth ==
  ASSUME TInv, Truth, Quiet, ~Idle, NEW g, NEW f, Calls(g, f),
         Ordered(g, f)
  PROVE  Truth'
<1>1. /\ Top = stack[1] /\ Len(stack) \in Nat \ {0} /\ Len(stack') = Len(stack) + 1
      /\ stack'[1] = f /\ stack'[2] = g
      /\ \A i \in 3 .. Len(stack') : stack'[i] = stack[i - 1]
      /\ stack' # << >>
  BY TopType, CalledAnywhere DEF Idle
<1>0. /\ Len(stack) = 1 => Len(stack') = 2
      /\ Len(stack) # 1 => Len(stack') \in 3 .. Len(stack') /\ Len(stack') - 1 = Len(stack)
  <2>1. Len(stack) \in Nat \ {0} /\ Len(stack') = Len(stack) + 1
    BY <1>1
  <2>2. \A n \in Nat \ {0} : \A m :
          m = n + 1 => /\ n = 1 => m = 2
                       /\ n # 1 => m \in 3 .. m /\ m - 1 = n
    OBVIOUS
  <2> QED BY <2>1, <2>2, Zenon
<1>2. \A i \in Positions' : i = 1 \/ i = 2 \/
        \E m \in Positions : /\ m # 1 /\ Label(stack'[i]) = Label(stack[m])
                             /\ m - 1 = 1 => Label(stack'[i - 1]) = Label(g)
                             /\ m - 1 # 1 => Label(stack'[i - 1]) = Label(stack[m - 1])
                             /\ m = Len(stack) => i = Len(stack')
  <2>1. \A i \in 1 .. Len(stack') : i = 1 \/ i = 2 \/
          /\ i \in 3 .. Len(stack') /\ i - 1 \in 1 .. Len(stack) /\ i - 1 # 1
          /\ (i - 1) - 1 = 1 => i - 1 = 2
          /\ (i - 1) - 1 # 1 => i - 1 \in 3 .. Len(stack')
          /\ i - 1 = Len(stack) => i = Len(stack')
    BY <1>1
  <2> QED BY <1>1, <2>1 DEF Positions
<1>3. 1 \in Positions /\ (TimeTold' <=> TimeTold) /\ 2 # 1 /\ 2 - 1 = 1
  BY <1>1 DEF Positions, Quiet, TimeTold
<1>4. Label(stack'[1]) = Label(f) /\ Label(stack'[2]) = Label(g) /\ Label(stack[1]) = Label(Top)
  BY <1>1
<1>5. AskedInTurn' /\ AskedIsTrue'
  <2> SUFFICES ASSUME NEW i \in Positions', Label(stack'[i]) = "asked"
               PROVE  /\ i # 1 /\ Label(stack'[i - 1]) \in {"driver info", "handed"}
                      /\ Label(stack'[i - 1]) = "handed" => InfoHere'
    BY DEF AskedInTurn, AskedIsTrue
  <2>1. CASE i = 1
    BY <1>4, <2>1 DEF Ordered, Finding
  <2>2. CASE i = 2
    BY <1>3, <1>4, <2>2 DEF Ordered
  <2>3. CASE i # 1 /\ i # 2
    <3>1. PICK m \in Positions : /\ m # 1 /\ Label(stack[m]) = "asked"
                                 /\ m - 1 = 1 => Label(stack'[i - 1]) = Label(g)
                                 /\ m - 1 # 1 => Label(stack'[i - 1]) = Label(stack[m - 1])
      BY <1>2, <2>3, Zenon
    <3>2. Label(stack[m - 1]) \in {"driver info", "handed"}
      BY <3>1 DEF Truth, AskedInTurn
    <3>3. Label(stack[m - 1]) = "handed" => InfoHere'
      BY <3>1 DEF Truth, AskedIsTrue, Quiet
    <3>4. CASE m - 1 = 1
      <4>1. Label(Top) = Label(stack[m - 1]) /\ Label(stack'[i - 1]) = Label(g)
        BY <1>4, <3>1, <3>4
      <4>2. Label(Top) = "handed" /\ InfoHere'
        BY <3>2, <3>3, <4>1 DEF Ordered
      <4> QED BY <2>3, <4>1, <4>2 DEF Ordered
    <3>5. CASE m - 1 # 1
      BY <2>3, <3>1, <3>2, <3>3, <3>5
    <3> QED BY <3>4, <3>5
  <2> QED BY <2>1, <2>2, <2>3
<1>6. CleanIsTrue'
  BY DEF Quiet, CleanIsTrue
<1>7. TimedIsTrue'
  <2> SUFFICES ASSUME NEW i \in Positions', Label(stack'[i]) = "timed"
               PROVE  InfoHere' /\ ~TimeTold
    BY <1>3 DEF TimedIsTrue
  <2>1. CASE i = 1
    BY <1>4, <2>1 DEF Ordered, Finding
  <2>2. CASE i = 2
    BY <1>4, <2>2 DEF Ordered
  <2>3. CASE i # 1 /\ i # 2
    <3>1. PICK m \in Positions : Label(stack[m]) = "timed"
      BY <1>2, <2>3, Zenon
    <3> QED BY <3>1 DEF Truth, TimedIsTrue, Quiet
  <2> QED BY <2>1, <2>2, <2>3
<1>8. SetIsLast'
  <2> SUFFICES ASSUME NEW i \in Positions', Label(stack'[i]) = "set" PROVE i = Len(stack')
    BY DEF SetIsLast
  <2>1. CASE i = 1
    BY <1>4, <2>1 DEF Ordered
  <2>2. CASE i = 2
    <3>1. 1 = Len(stack)
      BY <1>3, <1>4, <2>2 DEF Ordered, Truth, SetIsLast
    <3> QED BY <1>0, <2>2, <3>1
  <2>3. CASE i # 1 /\ i # 2
    <3>1. PICK m \in Positions : Label(stack[m]) = "set" /\ (m = Len(stack) => i = Len(stack'))
      BY <1>2, <2>3, Zenon
    <3> QED BY <3>1 DEF Truth, SetIsLast
  <2> QED BY <2>1, <2>2, <2>3
<1>9. ListsFirst'
  <2> SUFFICES ASSUME NEW i \in Positions', Label(stack'[i]) = "driver list"
               PROVE  i = 1 /\ \A j \in Positions' : Label(stack'[j]) \notin Finding
    BY DEF ListsFirst
  <2>1. i # 2
    BY <1>4 DEF Ordered
  <2>2. i = 1
    <3> SUFFICES ASSUME i # 1 PROVE FALSE
      OBVIOUS
    <3>1. PICK m \in Positions : m # 1 /\ Label(stack[m]) = "driver list"
      BY <1>2, <2>1, Zenon
    <3> QED BY <3>1 DEF Truth, ListsFirst
  <2>3. \A m \in Positions : Label(stack[m]) \notin Finding
    BY <1>4, <2>2 DEF Ordered, Truth, Unlisted, Writing
  <2>4. Label(f) \notin Finding /\ Label(g) \notin Finding
    BY <1>3, <1>4, <2>2, <2>3 DEF Ordered
  <2> QED BY <1>2, <1>4, <2>2, <2>3, <2>4, Zenon
<1>10. Unlisted'
  <2> SUFFICES ASSUME ~listed' PROVE \A j \in Positions' : Label(stack'[j]) \notin Writing
    BY DEF Quiet, Unlisted
  <2>1. \A m \in Positions : Label(stack[m]) \notin Writing
    BY DEF Quiet, Truth, Unlisted
  <2>2. Label(f) \notin Writing /\ Label(g) \notin Finding
    BY DEF Ordered
  <2>3. Label(g) \notin Writing
    <3>1. Label(Top) # "handed"
      BY <1>3, <1>4, <2>1 DEF Writing
    <3>2. Label(g) # "driver info"
      BY DEF Ordered
    <3> QED BY <2>2, <3>1, <3>2 DEF Ordered, Writing
  <2> QED BY <1>2, <1>4, <2>1, <2>2, <2>3, Zenon
<1>11. AtBottom'
  <2> SUFFICES ASSUME op = "info" PROVE Label(stack'[Len(stack')]) \in Asking
    BY DEF Quiet, AtBottom
  <2>1. Label(stack[Len(stack)]) \in Asking
    BY DEF Truth, AtBottom, Idle
  <2>2. CASE Len(stack) = 1
    <3>1. Len(stack') = 2 /\ Label(Top) \in Asking
      BY <1>1, <1>4, <2>1, <2>2
    <3> QED BY <1>4, <3>1 DEF Ordered
  <2>3. CASE Len(stack) # 1
    <3>1. Len(stack') \in 3 .. Len(stack') /\ Len(stack') - 1 = Len(stack)
      BY <1>0, <2>3
    <3>2. stack'[Len(stack')] = stack[Len(stack)]
      BY <1>1, <3>1
    <3> QED BY <2>1, <3>2
  <2> QED BY <2>2, <2>3
<1>12. InfoIsTold'
  BY <1>1 DEF InfoIsTold, Answered, Idle
<1> QED BY <1>5, <1>6, <1>7, <1>8, <1>9, <1>10, <1>11, <1>12 DEF Truth

LEMMA Labelled ==
  /\ \A label, kind, file : Label(Frame(label, kind, file)) = label
  /\ \A label : Top \in FrameType => Label(Continue(label)) = label
BY DEF Label, Frame, FrameType, Continue

\* A function whose turn it is.
LEMMA Turn ==
  ASSUME TInv, NEW label, At(label)
  PROVE  ~Idle /\ Label(Top) = label /\ Top \in FrameType /\ 1 \in Positions
         /\ stack[1] = Top
<1>1. stack # << >> /\ Top.at = label
  BY DEF At
<1> QED BY <1>1, TopType DEF Idle, Label, Positions

LEMMA FailTruth ==
  ASSUME TInv, Truth, Quiet, ~Idle, NEW code, code # "ok", Fails(code)
  PROVE  Truth'
<1>1. Pops /\ ret'.code = code
  BY DEF Fails, Returns, Pops, Idle
<1> QED BY <1>1, PopTruth DEF Answers

LEMMA ReturnTruth ==
  ASSUME TInv, Truth, Quiet, ~Idle, Label(Top) \notin Asking \union {"driver info"},
         NEW code, NEW info, Returns(code, info)
  PROVE  Truth'
<1>1. Pops
  BY DEF Returns, Pops, Idle
<1> QED BY <1>1, PopTruth DEF Answers

\* A call that has nothing to do with the information.
LEMMA PlainCall ==
  ASSUME TInv, Truth, Quiet, ~Idle, NEW g, NEW f, Calls(g, f),
         Label(Top) \notin Asking \union Writing \union {"set"},
         Label(g) \notin Asking \union Writing \union {"set"},
         Label(f) \notin Writing \union {"set"}
  PROVE  Truth'
<1>1. Ordered(g, f)
  BY DEF Ordered, Writing, Finding
<1> QED BY <1>1, CallTruth

(* The steps. *)

LEMMA ListTruth ==
  ASSUME TInv, Truth, ListFolder \/ NotFound
  PROVE  Truth'
<1>1. PICK label \in Seeks : At(label)
  BY DEF ListFolder, NotFound
<1>2. ~Idle /\ Label(Top) \in {"impl", "take", "set", "info"}
  BY <1>1, Turn DEF Seeks
<1>3. CASE ListFolder
  <2>1. Quiet
    BY <1>3, QuietSame DEF ListFolder
  <2>2. /\ Calls(Top, Frame("driver list", "normal", NoFile)) /\ ~listed /\ listed'
        /\ Label(Frame("driver list", "normal", NoFile)) = "driver list"
    BY <1>3, Labelled DEF ListFolder
  <2>3. Ordered(Top, Frame("driver list", "normal", NoFile))
    BY <1>2, <2>2 DEF Ordered, Finding, Asking
  <2> QED BY <1>2, <2>1, <2>2, <2>3, CallTruth
<1>4. CASE NotFound
  <2>1. listed \in BOOLEAN
    BY TypesSplit DEF DataOK
  <2>2. Quiet
    BY <1>4, <2>1, QuietSame DEF NotFound, Cache
  <2> QED BY <1>2, <1>4, <2>2, FailTruth DEF NotFound
<1> QED BY <1>3, <1>4

LEMMA LookForTimeTruth ==
  ASSUME TInv, Truth, Quiet, ~Idle, Label(Top) \in {"info", "asked"}, LookForTime,
         InfoHere, cam' = cam, listed'
  PROVE  Truth'
<1>1. Top \in FrameType /\ cam \in CamType /\ Time \subseteq Nat \ {None} /\ driver' = driver
  BY TopType, TypesSplit, FileInfoAssumption DEF DataOK, Idle, Quiet
<1>2. CASE entry.info.time # None
  <2>1. Returns("ok", entry.info)
    BY <1>2 DEF LookForTime
  <2>2. Pops /\ ret'.info = entry.info
    BY <2>1 DEF Returns, Pops, Idle
  <2>3. Tells'
    BY <1>1, <2>2 DEF Tells, InfoHere, TimeTold
  <2>4. Label(Top) # "driver info"
    OBVIOUS
  <2> QED BY <2>2, <2>3, <2>4, PopTruth DEF Answers
<1>3. CASE entry.info.time = None
  <2> DEFINE g == Continue("timed")
             f == Frame("exif time", "exif", NoFile)
  <2>1. Calls(g, f) /\ Label(g) = "timed" /\ Label(f) = "exif time"
    BY <1>1, <1>3, Labelled DEF LookForTime
  <2>2. ~TimeTold
    BY <1>1, <1>3 DEF InfoHere, CamType
  <2>3. InfoHere'
    BY DEF Quiet
  <2> HIDE DEF g, f
  <2>4. Ordered(g, f)
    BY <2>1, <2>2, <2>3 DEF Ordered, Finding, Asking, Writing
  <2> QED BY <2>1, <2>4, CallTruth
<1> QED BY <1>2, <1>3

LEMMA InfoTruth ==
  ASSUME TInv, Truth, InfoUnsupported \/ InfoClean \/ InfoDirty \/ InfoAsked \/ InfoTimed
  PROVE  Truth'
<1>0. listed \in BOOLEAN /\ entry \in EntryType /\ (~listed => entry.dirty)
  BY TypesSplit DEF DataOK, Truth, Unlisted
<1>1. CASE InfoUnsupported
  <2>1. ~Idle /\ Quiet
    BY <1>0, <1>1, Turn, QuietSame DEF InfoUnsupported, Cache
  <2> QED BY <1>1, <2>1, FailTruth DEF InfoUnsupported
<1>2. CASE InfoClean
  <2>1. ~Idle /\ Label(Top) = "info" /\ Quiet /\ listed /\ listed' = listed
    BY <1>0, <1>2, Turn, QuietSame DEF InfoClean, Found, Cache
  <2>2. InfoHere /\ cam' = cam
    BY <1>2 DEF InfoClean, Truth, CleanIsTrue
  <2> QED BY <1>2, <2>1, <2>2, LookForTimeTruth DEF InfoClean
<1>3. CASE InfoDirty
  <2> DEFINE g == Continue("asked")
             f == Frame("driver info", "normal", NoFile)
  <2>1. ~Idle /\ Label(Top) = "info" /\ Top \in FrameType /\ Quiet /\ listed /\ listed' = listed
    BY <1>0, <1>3, Turn, QuietSame DEF InfoDirty, Found, Cache
  <2>2. Calls(g, f) /\ Label(g) = "asked" /\ Label(f) = "driver info"
    BY <1>3, <2>1, Labelled DEF InfoDirty
  <2> HIDE DEF g, f
  <2>3. Ordered(g, f)
    BY <2>1, <2>2 DEF Ordered, Finding, Asking, Writing
  <2> QED BY <2>1, <2>2, <2>3, CallTruth
<1>4. CASE InfoAsked
  <2>1. /\ ~Idle /\ Label(Top) = "asked" /\ 1 \in Positions /\ stack[1] = Top
        /\ UNCHANGED <<Fixed, cam, listed>>
    BY <1>4, Turn DEF InfoAsked
  <2>2. CASE ret.code = "ok"
    <3>1. InfoHere
      BY <2>1, <2>2 DEF Truth, AskedIsTrue
    <3>2. entry' = [entry EXCEPT !.dirty = FALSE] /\ LookForTime
      BY <1>4, <2>2 DEF InfoAsked
    <3>3. InfoHere'
      BY <1>0, <2>1, <3>1, <3>2 DEF InfoHere, TimeTold, EntryType, Fixed
    <3>4. listed
      BY <2>1 DEF Truth, Unlisted, Writing, Finding
    <3>5. Quiet
      BY <1>0, <2>1, <3>3, <3>4 DEF Quiet, Fixed
    <3> QED BY <2>1, <3>1, <3>2, <3>4, <3>5, LookForTimeTruth
  <2>3. CASE ret.code # "ok"
    <3>1. UNCHANGED entry /\ Fails(ret.code)
      BY <1>4, <2>3 DEF InfoAsked
    <3>2. Quiet
      BY <1>0, <2>1, <3>1, QuietSame
    <3> QED BY <2>1, <2>3, <3>1, <3>2, FailTruth
  <2> QED BY <2>2, <2>3
<1>5. CASE InfoTimed
  <2> DEFINE info == IF ret.info.time = None THEN entry.info
                     ELSE [entry.info EXCEPT !.time = ret.info.time]
  <2>1. /\ ~Idle /\ Label(Top) = "timed" /\ 1 \in Positions /\ stack[1] = Top
        /\ UNCHANGED <<Fixed, cam, listed>>
    BY <1>5, Turn DEF InfoTimed
  <2>2. InfoHere /\ ~TimeTold
    BY <2>1 DEF Truth, TimedIsTrue
  <2>3. entry' = [entry EXCEPT !.info = info] /\ Returns("ok", info)
    BY <1>5 DEF InfoTimed
  <2>4. info.perm = cam.perm
    BY <1>0, <2>2 DEF InfoHere, EntryType, InfoType
  <2>5. entry'.info = info /\ entry'.dirty = entry.dirty
    BY <1>0, <2>3 DEF EntryType
  <2>6. ~TimeTold' /\ op' = op /\ driver' = driver
    BY <2>1, <2>2 DEF TimeTold, Fixed
  <2> HIDE DEF info
  <2>7. InfoHere'
    BY <2>1, <2>4, <2>5, <2>6 DEF InfoHere
  <2>8. Quiet
    BY <1>0, <2>1, <2>5, <2>6, <2>7 DEF Quiet
  <2>9. Pops /\ ret'.info = info
    BY <2>1, <2>3 DEF Returns, Pops, Idle
  <2>10. Tells'
    BY <2>1, <2>4, <2>6, <2>9 DEF Tells
  <2> QED BY <2>1, <2>8, <2>9, <2>10, PopTruth DEF Answers
<1> QED BY <1>1, <1>2, <1>3, <1>4, <1>5

LEMMA QuietStep ==
  ASSUME TInv, Truth, UNCHANGED <<Fixed, cam, entry, listed>>
  PROVE  Quiet
<1>1. listed \in BOOLEAN
  BY TypesSplit DEF DataOK
<1> QED BY <1>1, QuietSame

\* Functions that know nothing of the information.
Aside == Labels \ (Asking \union Writing \union {"set"})

LEMMA PlainTruth ==
  ASSUME TInv, Truth, Quiet, NEW label \in Aside, At(label),
         \/ \E code, info : Returns(code, info)
         \/ \E g, f : Calls(g, f) /\ Label(g) \in Aside /\ Label(f) \in Aside \union {"info"}
  PROVE  Truth'
<1>1. ~Idle /\ Label(Top) \in Aside
  BY Turn
<1>2. Label(Top) \notin Asking \union {"driver info"} \union Writing \union {"set"}
  BY <1>1 DEF Aside, Writing
<1>3. CASE \E code, info : Returns(code, info)
  <2>1. PICK code, info : Returns(code, info)
    BY <1>3
  <2> QED BY <1>1, <1>2, <2>1, ReturnTruth
<1>4. CASE \E g, f : Calls(g, f) /\ Label(g) \in Aside /\ Label(f) \in Aside \union {"info"}
  <2>1. PICK g, f : Calls(g, f) /\ Label(g) \in Aside /\ Label(f) \in Aside \union {"info"}
    BY <1>4
  <2>2. Label(g) \notin Asking \union Writing \union {"set"}
        /\ Label(f) \notin Writing \union {"set"}
    BY <2>1 DEF Aside, Writing, Finding
  <2> QED BY <1>1, <1>2, <2>1, <2>2, PlainCall
<1> QED BY <1>3, <1>4

LEMMA PlainLabels ==
  {"exif time", "exif read", "get", "got", "second", "cached", "impl", "take", "stamped",
   "searched", "driver file", "sized"} \subseteq Aside
BY DEF Aside, Labels, Asking, Writing, Finding

LEMMA ExifTruth ==
  ASSUME TInv, Truth, ExifTime \/ ExifRead
  PROVE  Truth'
<1>1. Quiet
  BY QuietStep DEF ExifTime, ExifRead, Cache
<1>2. CASE ExifTime
  <2>1. At("exif time") /\ Top \in FrameType
    BY <1>2, Turn DEF ExifTime
  <2>2. CASE driver.jpeg
    <3> DEFINE g == [Continue("exif read") EXCEPT !.file = NewFile]
               f == Frame("get", "exif", NewFile)
    <3>1. Calls(g, f) /\ Label(f) = "get"
      BY <1>2, <2>2, Labelled DEF ExifTime
    <3>2. Label(g) = "exif read"
      BY <2>1 DEF Label, Continue, FrameType
    <3> HIDE DEF g, f
    <3> QED BY <1>1, <2>1, <3>1, <3>2, PlainTruth, PlainLabels
  <2>3. CASE ~driver.jpeg
    BY <1>1, <1>2, <2>1, <2>3, PlainTruth, PlainLabels DEF ExifTime, Finds
  <2> QED BY <2>2, <2>3
<1>3. CASE ExifRead
  BY <1>1, <1>3, PlainTruth, PlainLabels DEF ExifRead, Finds
<1> QED BY <1>2, <1>3

LEMMA GetTruth ==
  ASSUME TInv, Truth, GetFile \/ GotFile \/ Cached
  PROVE  Truth'
<1>1. Quiet
  BY QuietStep DEF GetFile, GotFile, Cached, Cache
<1>2. CASE GetFile
  <2> DEFINE g == Continue("got")
             f == [Top EXCEPT !.at = "impl"]
  <2>1. At("get") /\ Top \in FrameType /\ Calls(g, f)
    BY <1>2, Turn DEF GetFile
  <2>2. Label(g) = "got" /\ Label(f) = "impl"
    BY <2>1 DEF Label, Continue, FrameType
  <2> HIDE DEF g, f
  <2> QED BY <1>1, <2>1, <2>2, PlainTruth, PlainLabels
<1>3. CASE GotFile
  <2>1. At("got") /\ Top \in FrameType
    BY <1>3, Turn DEF GotFile
  <2> DEFINE g == [Continue("second") EXCEPT !.spare = NewFile]
             f == Frame("impl", Elsewhere(Top.kind), NewFile)
             away == ret.code = "unsupported" /\ Top.kind \in {"preview", "exif"}
  <2>2. CASE away
    <3>1. Calls(g, f) /\ Label(f) = "impl"
      BY <1>3, <2>2, Labelled DEF GotFile
    <3>2. Label(g) = "second"
      BY <2>1 DEF Label, Continue, FrameType
    <3> HIDE DEF g, f
    <3> QED BY <1>1, <2>1, <3>1, <3>2, PlainTruth, PlainLabels
  <2>3. CASE ~away
    BY <1>1, <1>3, <2>1, <2>3, PlainTruth, PlainLabels DEF GotFile, Fails
  <2> QED BY <2>2, <2>3
<1>4. CASE Cached
  BY <1>1, <1>4, PlainTruth, PlainLabels DEF Cached, Fails
<1> QED BY <1>2, <1>3, <1>4

LEMMA SecondTruth ==
  ASSUME TInv, Truth, GotSecond
  PROVE  Truth'
<1>1. Quiet
  BY QuietStep DEF GotSecond, Cache
<1>2. At("second") /\ Top \in FrameType
  BY Turn DEF GotSecond
<1> DEFINE g == [Continue("cached") EXCEPT !.spare = NoFile]
           f == Frame("take", Top.kind, Top.file)
<1>3. Calls(g, f) \/ \E code, info : Returns(code, info)
  BY DEF GotSecond, Fails
<1>4. Label(g) = "cached" /\ Label(f) = "take"
  BY <1>2, Labelled DEF Label, Continue, FrameType
<1> HIDE DEF g, f
<1> QED BY <1>1, <1>2, <1>3, <1>4, PlainTruth, PlainLabels

LEMMA ImplTruth ==
  ASSUME TInv, Truth, CopyCached \/ Download
  PROVE  Truth'
<1>1. Quiet
  BY QuietStep DEF CopyCached, Download, Cache
<1>2. CASE CopyCached
  BY <1>1, <1>2, PlainTruth, PlainLabels DEF CopyCached, Found, Succeeds
<1>3. CASE Download
  <2>1. ~Idle /\ Label(Top) = "impl" /\ Top \in FrameType /\ Goes(Continue("driver file"))
    BY <1>3, Turn DEF Download, Found
  <2>2. Replaces(Continue("driver file"))
    BY <2>1, Labelled DEF Replaces
  <2> QED BY <1>1, <2>1, <2>2, GoTruth
<1> QED BY <1>2, <1>3

LEMMA TakeTruth ==
  ASSUME TInv, Truth, TakeFile \/ Stamped \/ Searched
  PROVE  Truth'
<1>1. Quiet
  BY QuietStep DEF TakeFile, Stamped, Searched, Cache
<1>2. PICK label \in {"take", "stamped", "searched"} : At(label)
  BY DEF TakeFile, Stamped, Searched, Found
<1>3. /\ Label(Continue("stamped")) = "stamped" /\ Label(Continue("searched")) = "searched"
      /\ Label(Frame("info", "normal", NoFile)) = "info"
      /\ Label(Frame("exif time", "exif", NoFile)) = "exif time"
  BY <1>2, Turn, Labelled
<1>4. \/ \E code, info : Returns(code, info)
      \/ Calls(Continue("stamped"), Frame("info", "normal", NoFile))
      \/ Calls(Continue("searched"), Frame("exif time", "exif", NoFile))
  BY DEF TakeFile, Stamped, Searched, Succeeds
<1>5. \/ \E code, info : Returns(code, info)
      \/ \E g, f : Calls(g, f) /\ Label(g) \in Aside /\ Label(f) \in Aside \union {"info"}
  BY <1>3, <1>4, PlainLabels
<1> QED BY <1>1, <1>2, <1>5, PlainTruth, PlainLabels

LEMMA FileTruth ==
  ASSUME TInv, Truth, DriverFile \/ DriverAsks \/ DriverSized
  PROVE  Truth'
<1>1. Quiet
  BY QuietStep DEF DriverFile, DriverAsks, DriverSized, Cache
<1>2. PICK label \in {"driver file", "sized"} : At(label)
  BY DEF DriverFile, DriverAsks, DriverSized
<1>3. Label(Continue("sized")) = "sized" /\ Label(Frame("info", "normal", NoFile)) = "info"
  BY <1>2, Turn, Labelled
<1>4. \/ \E code, info : Returns(code, info)
      \/ Calls(Continue("sized"), Frame("info", "normal", NoFile))
  BY DEF DriverFile, DriverAsks, DriverSized, Succeeds, Fails
<1>5. \/ \E code, info : Returns(code, info)
      \/ \E g, f : Calls(g, f) /\ Label(g) \in Aside /\ Label(f) \in Aside \union {"info"}
  BY <1>3, <1>4, PlainLabels
<1> QED BY <1>1, <1>2, <1>5, PlainTruth, PlainLabels

LEMMA SetTruth ==
  ASSUME TInv, Truth, SetInfo \/ SetInfoFails
  PROVE  Truth'
<1>1. /\ ~Idle /\ Label(Top) = "set" /\ 1 \in Positions /\ stack[1] = Top
      /\ listed /\ listed' = listed
  BY Turn DEF SetInfo, SetInfoFails, Found, Cache
<1>2. entry \in EntryType /\ cam \in CamType /\ listed \in BOOLEAN
  BY TypesSplit DEF DataOK
<1>3. CASE SetInfo /\ (driver.sets = {} \/ SetsReadOnly)
  <2>1. PICK code \in {"unsupported", "error"} : Fails(code)
    BY <1>3 DEF SetInfo, SetsReadOnly
  <2>2. Quiet
    BY <1>3, QuietStep DEF SetInfo, SetsReadOnly
  <2> QED BY <1>1, <2>1, <2>2, FailTruth
<1>4. CASE SetInfo /\ driver.sets # {} /\ Sets
  <2>1. PICK fields \in SUBSET {"perm", "time"}, perm \in BOOLEAN, time \in Time :
          /\ "perm" \in fields => "perm" \in driver.sets
          /\ cam' = Changed(fields \intersect driver.sets, perm, time)
          /\ entry' = [entry EXCEPT !.info.perm = IF "perm" \in fields THEN perm ELSE @]
          /\ Succeeds
    BY <1>4 DEF Sets
  <2>2. driver' = driver /\ op' = op
    BY <1>4 DEF SetInfo, Fixed
  <2>3. /\ entry'.dirty = entry.dirty /\ entry'.info.time = entry.info.time
        /\ entry'.info.perm = IF "perm" \in fields THEN perm ELSE entry.info.perm
    BY <1>2, <2>1 DEF EntryType, InfoType
  <2>4. /\ cam'.perm = IF "perm" \in fields THEN perm ELSE cam.perm
        /\ "time" \notin driver.sets => cam'.time = cam.time
    BY <2>1 DEF Changed
  <2>5. InfoHere => InfoHere'
    BY <2>2, <2>3, <2>4 DEF InfoHere, TimeTold
  <2>6. Quiet
    BY <1>1, <1>2, <2>2, <2>3, <2>5 DEF Quiet, Truth, CleanIsTrue
  <2> QED BY <1>1, <2>1, <2>6, ReturnTruth DEF Succeeds, Asking
<1>5. CASE SetInfoFails
  <2>1. /\ stack' = Tail(stack) /\ ret'.code # "ok" /\ entry'.dirty
    BY <1>2, <1>5 DEF SetInfoFails, Fails, Returns, EntryType
  <2>2. Len(stack) = 1
    BY <1>1 DEF Truth, SetIsLast
  <2>3. stack' = << >>
    BY <1>1, <2>1, <2>2, Popped, EmptySeq DEF Idle
  <2>4. Positions' = {}
    BY <2>3 DEF Positions
  <2> QED
    BY <1>1, <2>1, <2>3, <2>4
       DEF Truth, CleanIsTrue, AskedInTurn, AskedIsTrue, TimedIsTrue, SetIsLast, ListsFirst,
           Unlisted, AtBottom, InfoIsTold, Answered
<1> QED BY <1>3, <1>4, <1>5 DEF SetInfo

\* The driver lists the folder: the entry is a new one.
LEMMA DriverListTruth ==
  ASSUME TInv, Truth, DriverList
  PROVE  Truth'
<1> DEFINE g == [Continue("handed") EXCEPT !.rest = driver.hands]
<1>1. /\ ~Idle /\ Label(Top) = "driver list" /\ 1 \in Positions /\ stack[1] = Top
      /\ Top \in FrameType /\ Goes(g)
  BY Turn DEF DriverList
<1>2. Label(g) = "handed"
  BY <1>1 DEF Label, Continue, FrameType
<1> HIDE DEF g
<1>3. /\ stack' # << >> /\ Len(stack') = Len(stack) /\ stack'[1] = g
      /\ \A i \in 2 .. Len(stack) : stack'[i] = stack[i]
      /\ Len(stack) \in Nat \ {0}
  BY <1>1, GoneAnywhere, TopType DEF Idle
<1>4. /\ Positions' = Positions
      /\ \A i \in Positions : i # 1 => stack'[i] = stack[i]
  <2>1. \A i \in 1 .. Len(stack) : i # 1 => i \in 2 .. Len(stack)
    BY <1>3
  <2> QED BY <1>3, <2>1 DEF Positions
<1>5. entry'.dirty /\ listed /\ listed' = listed /\ op' = op
  <2>1. entry'.dirty /\ listed' = listed /\ op' = op
    BY DEF DriverList, NoEntry, Fixed
  <2>2. listed
    BY <1>1 DEF Truth, Unlisted, Writing
  <2> QED BY <2>1, <2>2
<1>6. \A i \in Positions : /\ Label(stack'[i]) \notin Finding
                           /\ Label(stack'[i]) # "driver list"
                           /\ Label(stack'[i]) = "set" => i = Len(stack')
  <2>1. \A i \in Positions : Label(stack[i]) \notin Finding /\ (Label(stack[i]) = "driver list" => i = 1)
    BY <1>1 DEF Truth, ListsFirst
  <2>2. \A i \in Positions : i # 1 => Label(stack'[i]) = Label(stack[i])
    BY <1>4
  <2>3. \A i \in Positions : i = 1 => Label(stack'[i]) = "handed"
    BY <1>2, <1>3
  <2>4. \A i \in Positions : Label(stack[i]) = "set" => i = Len(stack')
    BY <1>3 DEF Truth, SetIsLast
  <2> QED BY <2>1, <2>2, <2>3, <2>4 DEF Finding
<1>7. AtBottom'
  <2> SUFFICES ASSUME op = "info" PROVE Label(stack'[Len(stack')]) \in Asking
    BY <1>5 DEF AtBottom
  <2>1. Label(stack[Len(stack)]) \in Asking
    BY <1>1 DEF Truth, AtBottom, Idle
  <2>2. Len(stack) # 1
    BY <1>1, <2>1 DEF Asking
  <2>3. Len(stack) \in Positions
    BY <1>3 DEF Positions
  <2>4. stack'[Len(stack')] = stack[Len(stack)]
    BY <1>3, <1>4, <2>2, <2>3
  <2> QED BY <2>1, <2>4
<1>8. CleanIsTrue' /\ Unlisted' /\ InfoIsTold'
  BY <1>3, <1>5 DEF CleanIsTrue, Unlisted, InfoIsTold, Answered, Idle
<1>9. AskedInTurn' /\ AskedIsTrue' /\ TimedIsTrue' /\ SetIsLast' /\ ListsFirst'
  BY <1>4, <1>6 DEF AskedInTurn, AskedIsTrue, TimedIsTrue, SetIsLast, ListsFirst, Finding
<1> QED BY <1>7, <1>8, <1>9 DEF Truth

LEMMA SentIsHere ==
  ASSUME UNCHANGED <<Fixed, cam>>, entry'.info = SentInfo
  PROVE  InfoHere'
BY DEF InfoHere, TimeTold, SentInfo, Told, Fixed

LEMMA HandTruth ==
  ASSUME TInv, Truth, DriverFails \/ HandInfo \/ HandFile \/ HandedAll \/ DriverInfo
  PROVE  Truth'
<1>1. entry \in EntryType /\ listed \in BOOLEAN /\ (~listed => entry.dirty)
  BY TypesSplit DEF DataOK, Truth, Unlisted
<1>2. CASE DriverFails
  <2>1. Quiet /\ ~Idle /\ Fails("error")
    BY <1>2, QuietStep, Turn DEF DriverFails, Cache
  <2> QED BY <2>1, FailTruth
<1>3. CASE HandInfo
  <2> DEFINE g == [Top EXCEPT !.rest = Tail(@)]
  <2>1. /\ ~Idle /\ Label(Top) = "handed" /\ 1 \in Positions /\ stack[1] = Top
        /\ Top \in FrameType /\ Goes(g)
    BY <1>3, Turn DEF HandInfo
  <2>2. Label(g) = "handed"
    BY <2>1 DEF Label, FrameType
  <2> HIDE DEF g
  <2>3. entry'.info = SentInfo /\ UNCHANGED <<Fixed, cam, listed>>
    BY <1>1, <1>3 DEF HandInfo, EntryType
  <2>4. InfoHere'
    BY <2>3, SentIsHere
  <2>5. listed
    BY <2>1 DEF Truth, Unlisted, Writing
  <2>6. Quiet
    BY <1>1, <2>3, <2>4, <2>5 DEF Quiet, Fixed
  <2> QED BY <2>1, <2>2, <2>6, GoTruth DEF Replaces
<1>4. CASE HandFile
  <2> DEFINE g == [Top EXCEPT !.rest = Tail(@)]
             f == Frame("take", Head(Top.rest), NewFile)
  <2>1. /\ ~Idle /\ Label(Top) = "handed" /\ 1 \in Positions /\ stack[1] = Top
        /\ Top \in FrameType /\ Calls(g, f) /\ Quiet
    BY <1>4, Turn, QuietStep DEF HandFile, Cache
  <2>2. Label(g) = "handed" /\ Label(f) = "take"
    BY <2>1, Labelled DEF Label, FrameType
  <2> HIDE DEF g, f
  <2>3. Ordered(g, f)
    BY <2>1, <2>2 DEF Ordered, Finding, Asking, Writing
  <2> QED BY <2>1, <2>3, CallTruth
<1>5. CASE HandedAll
  <2>1. ~Idle /\ Label(Top) = "handed" /\ Quiet /\ Succeeds
    BY <1>5, Turn, QuietStep DEF HandedAll, Cache
  <2> QED BY <2>1, ReturnTruth DEF Succeeds, Asking
<1>6. CASE DriverInfo
  <2> DEFINE g == [Continue("handed") EXCEPT !.rest = IF driver.info = "hands" THEN << "preview" >>
                                                      ELSE << >>]
  <2>1. /\ ~Idle /\ Label(Top) = "driver info" /\ Top \in FrameType /\ Goes(g)
    BY <1>6, Turn DEF DriverInfo
  <2>2. Label(g) = "handed"
    BY <2>1 DEF Label, Continue, FrameType
  <2> HIDE DEF g
  <2>3. entry'.info = SentInfo /\ entry'.dirty = entry.dirty /\ UNCHANGED <<Fixed, cam, listed>>
    BY <1>1, <1>6 DEF DriverInfo, EntryType
  <2>4. InfoHere'
    BY <2>3, SentIsHere
  <2>5. Quiet
    BY <1>1, <2>3, <2>4 DEF Quiet, Fixed
  <2> QED BY <2>1, <2>2, <2>4, <2>5, GoTruth DEF Replaces
<1> QED BY <1>2, <1>3, <1>4, <1>5, <1>6

LEMMA BeginTruth ==
  ASSUME TInv, Truth, NEW name, NEW at \in {"info", "set", "get"}, NEW kind, NEW o, NEW content,
         Begins(name, at, kind, o, content), name = "info" => at = "info"
  PROVE  Truth'
<1> DEFINE f == Frame(at, kind, IF at = "get" THEN o ELSE NoFile)
<1>1. stack' = << f >> /\ Label(f) = at
  BY Labelled DEF Begins
<1> HIDE DEF f
<1>2. /\ Len(stack') = 1 /\ stack'[1] = f /\ stack' # << >> /\ Positions' = {1}
  BY <1>1 DEF Positions
<1>3. UNCHANGED <<driver, cam, listed, entry>> /\ op' = name
  BY DEF Begins, Cache
<1>4. \A i \in Positions' : i = 1 /\ Label(stack'[i]) = at
  BY <1>1, <1>2
<1>5. CleanIsTrue'
  BY <1>3 DEF Truth, CleanIsTrue, InfoHere, TimeTold
<1>6. AskedInTurn' /\ AskedIsTrue' /\ TimedIsTrue' /\ SetIsLast' /\ ListsFirst'
  BY <1>2, <1>4 DEF AskedInTurn, AskedIsTrue, TimedIsTrue, SetIsLast, ListsFirst
<1>7. Unlisted'
  BY <1>3, <1>4 DEF Truth, Unlisted, Writing, Finding
<1>8. AtBottom' /\ InfoIsTold'
  BY <1>1, <1>2, <1>3 DEF AtBottom, Asking, InfoIsTold, Answered, Idle
<1> QED BY <1>5, <1>6, <1>7, <1>8 DEF Truth

LEMMA ApplicationTruth ==
  ASSUME TInv, Truth, Application
  PROVE  Truth'
<1>1. CASE CameraFileGetInfo \/ CameraFileSetInfo
  BY <1>1, BeginTruth DEF CameraFileGetInfo, CameraFileSetInfo
<1>2. CASE CameraFileGet
  <2>1. PICK k, o, content : k \in Kind /\ Begins(k, "get", k, o, content)
    BY <1>2 DEF CameraFileGet
  <2> QED BY <2>1, BeginTruth DEF Kind
<1>3. CASE Reset \/ Evict
  <2>1. /\ Idle /\ Idle' /\ UNCHANGED <<driver, cam, op, ret>>
        /\ entry'.dirty \/ (entry' = entry /\ listed' = listed)
    BY <1>3 DEF Reset, Evict, Idle, Fixed, NoEntry
  <2>2. Positions' = {} /\ stack' = << >> /\ stack = << >>
    BY <2>1 DEF Positions, Idle
  <2>3. CleanIsTrue' /\ Unlisted'
    BY <2>1, <2>2 DEF Truth, CleanIsTrue, Unlisted, InfoHere, TimeTold
  <2>4. InfoIsTold'
    BY <2>1 DEF Truth, InfoIsTold, Answered, Tells, TimeTold
  <2> QED
    BY <2>2, <2>3, <2>4 DEF Truth, AskedInTurn, AskedIsTrue, TimedIsTrue, SetIsLast, ListsFirst, AtBottom
<1> QED BY <1>1, <1>2, <1>3 DEF Application

LEMMA InitTruth == Init => Truth
<1> SUFFICES ASSUME Init PROVE Truth
  OBVIOUS
<1>1. stack = << >> /\ op = "none" /\ entry.dirty
  BY DEF Init, NoEntry
<1>2. Positions = {}
  BY <1>1 DEF Positions
<1> QED
  BY <1>1, <1>2
     DEF Truth, CleanIsTrue, AskedInTurn, AskedIsTrue, TimedIsTrue, SetIsLast, ListsFirst,
         Unlisted, AtBottom, InfoIsTold, Answered

LEMMA StepTruth == TInv /\ Truth /\ [Next]_vars => Truth'
<1> SUFFICES ASSUME TInv, Truth, [Next]_vars PROVE Truth'
  OBVIOUS
<1>1. CASE Library
  BY <1>1, ListTruth, InfoTruth, ExifTruth, GetTruth, SecondTruth, ImplTruth, TakeTruth, SetTruth
     DEF Library
<1>2. CASE DriverStep
  BY <1>2, DriverListTruth, HandTruth, FileTruth DEF DriverStep
<1>3. CASE Application
  BY <1>3, ApplicationTruth
<1>4. CASE UNCHANGED vars
  BY <1>4
     DEF vars, Truth, CleanIsTrue, AskedInTurn, AskedIsTrue, TimedIsTrue, SetIsLast, ListsFirst,
         Unlisted, AtBottom, InfoIsTold, Answered, Idle, Positions, InfoHere, TimeTold, Tells
<1> QED BY <1>1, <1>2, <1>3, <1>4 DEF Next

(***************************************************************************)
(* When gp_filesystem_get_info succeeds, it tells the permission that the  *)
(* camera has now, and the time of modification if the camera tells it and *)
(* nobody changes it there: for every driver, whatever it supports, hands  *)
(* over, or fails in; after changes that failed half-way; and however the  *)
(* functions call each other before it returns.                            *)
(***************************************************************************)
THEOREM InfoIsTheCameras == Spec => []InfoIsTold
<1>1. TInv /\ Truth /\ [Next]_vars => (TInv /\ Truth)'
  BY StepTypes, StepTruth
<1>2. Init => TInv /\ Truth
  BY InitTypes, InitTruth
<1>3. Truth => InfoIsTold
  BY DEF Truth
<1> QED BY <1>1, <1>2, <1>3, PTL DEF Spec

\* Drivers that tell the time of modification, and do not change it.
TellTheTime == \A d \in Driver : d.time /\ "time" \notin d.sets

(***************************************************************************)
(* With such drivers the search in the EXIF data is never needed, and what *)
(* gp_filesystem_get_info tells is all that the camera says now.           *)
(***************************************************************************)
THEOREM InfoIsKept ==
  ASSUME TellTheTime
  PROVE  Spec => []InfoIsTrue
<1>1. TInv /\ Truth /\ [Next]_vars => (TInv /\ Truth)'
  BY StepTypes, StepTruth
<1>2. Init => TInv /\ Truth
  BY InitTypes, InitTruth
<1>3. TInv /\ Truth => InfoIsTrue
  <2> SUFFICES ASSUME TInv, Truth PROVE InfoIsTrue
    OBVIOUS
  <2>1. driver.time /\ TimeTold
    BY TypesSplit DEF DataOK, TellTheTime, TimeTold
  <2> QED BY <2>1 DEF Truth, InfoIsTold, Tells, InfoIsTrue
<1> QED BY <1>1, <1>2, <1>3, PTL DEF Spec

(***************************************************************************)
(* Times that the camera does not tell come out of the EXIF data.          *)
(***************************************************************************)
Dated(time) == time \in {None, photo.date}

TimesAreReal == ~driver.time => Dated(ret.info.time)

Dates ==
  /\ \A f \in File : Dated(obj[f].date)
  /\ ~driver.time => Dated(entry.info.time)
  /\ TimesAreReal

\* A step that writes one object, the entry's information and the answer.
LEMMA DatesWritten ==
  ASSUME Dates, driver' = driver, photo' = photo,
         obj' = obj \/ \E f, c : /\ f \in File /\ Put(f, c)
                                /\ obj \in [File -> Content] /\ Dated(c.date),
         entry'.info.time = entry.info.time \/ (~driver.time => Dated(entry'.info.time)),
         ret' = ret \/ (~driver.time => Dated(ret'.info.time))
  PROVE  Dates'
<1>1. \A f \in File : Dated(obj'[f].date)
  BY DEF Dates, Put
<1> QED BY <1>1 DEF Dates, TimesAreReal, Dated

LEMMA ReturnDates ==
  ASSUME NEW code
  PROVE  /\ Fails(code) => Dated(ret'.info.time)
         /\ Succeeds => Dated(ret'.info.time)
         /\ \A time : Finds(time) => ret'.info.time = time
BY DEF Fails, Succeeds, Finds, Returns, NoInfo, Dated

LEMMA ContentDates ==
  ASSUME TInv, Dates
  PROVE  /\ Dated(Blank.date) /\ Dated(None)
         /\ \A k \in Kind : Dated(Sent(k).date)
         /\ \A f \in File : Dated(obj[f].date)
         /\ \A k, c : Dated(c.date) => Dated(Extracted(k, c).date)
         /\ ~driver.time => Dated(entry.info.time) /\ Dated(ret.info.time) /\ SentInfo.time = None
         /\ obj \in [File -> Content]
BY TypesSplit DEF Dates, TimesAreReal, Dated, Blank, Sent, Extracted, SentInfo, Told, DataOK

LEMMA LookDates ==
  ASSUME TInv, Dates, LookForTime
  PROVE  ret' = ret \/ (~driver.time => Dated(ret'.info.time))
<1>1. CASE entry.info.time # None
  <2>1. ret'.info = entry.info
    BY <1>1 DEF LookForTime, Returns
  <2> QED BY <2>1, ContentDates
<1>2. CASE entry.info.time = None
  BY <1>2 DEF LookForTime
<1> QED BY <1>1, <1>2

LEMMA InfoDates ==
  ASSUME TInv, Dates,
         ListFolder \/ NotFound \/ InfoUnsupported \/ InfoClean \/ InfoDirty \/ InfoAsked \/ InfoTimed
  PROVE  Dates'
<1>1. entry \in EntryType /\ UNCHANGED <<driver, photo, obj>>
  BY TypesSplit
     DEF DataOK, ListFolder, NotFound, InfoUnsupported, InfoClean, InfoDirty, InfoAsked, InfoTimed,
         Fixed, Memory
<1>2. CASE ListFolder \/ InfoDirty
  BY <1>1, <1>2, DatesWritten DEF ListFolder, InfoDirty, Cache
<1>3. CASE NotFound \/ InfoUnsupported
  <2>1. entry' = entry /\ Dated(ret'.info.time)
    BY <1>3, ReturnDates DEF NotFound, InfoUnsupported, Cache
  <2> QED BY <1>1, <2>1, DatesWritten
<1>4. CASE InfoClean
  BY <1>1, <1>4, LookDates, DatesWritten DEF InfoClean, Cache
<1>5. CASE InfoAsked
  <2>1. entry'.info.time = entry.info.time
    BY <1>1, <1>5 DEF InfoAsked, EntryType
  <2>2. ret' = ret \/ (~driver.time => Dated(ret'.info.time))
    BY <1>5, LookDates, ReturnDates DEF InfoAsked
  <2> QED BY <1>1, <2>1, <2>2, DatesWritten
<1>6. CASE InfoTimed
  <2> DEFINE info == IF ret.info.time = None THEN entry.info
                     ELSE [entry.info EXCEPT !.time = ret.info.time]
  <2>1. entry'.info = info /\ ret'.info = info
    BY <1>1, <1>6 DEF InfoTimed, Returns, EntryType
  <2>2. ~driver.time => Dated(info.time)
    BY <1>1, ContentDates DEF EntryType, InfoType
  <2> HIDE DEF info
  <2> QED BY <1>1, <2>1, <2>2, DatesWritten
<1> QED BY <1>2, <1>3, <1>4, <1>5, <1>6

LEMMA ReadDates ==
  ASSUME TInv, Dates, ExifTime \/ ExifRead \/ GetFile \/ GotFile \/ GotSecond \/ Cached
  PROVE  Dates'
<1>1. UNCHANGED <<driver, photo, entry>>
  BY DEF ExifTime, ExifRead, GetFile, GotFile, GotSecond, Cached, Fixed, Cache
<1>2. CASE ExifTime \/ GotFile
  <2>1. NewFile \in File
    BY <1>2, NewFileIsFree DEF ExifTime, GotFile, At
  <2>2. obj' = obj \/ Put(NewFile, Blank)
    BY <1>2 DEF ExifTime, GotFile
  <2>3. ret' = ret \/ Dated(ret'.info.time)
    BY <1>2, ReturnDates, ContentDates DEF ExifTime, GotFile
  <2> QED BY <1>1, <2>1, <2>2, <2>3, ContentDates, DatesWritten
<1>3. CASE ExifRead
  <2>1. Top.file \in File /\ obj' = obj
    BY <1>3, TurnTypes DEF ExifRead, Memory
  <2>2. Dated(IF ret.code = "ok" THEN obj[Top.file].date ELSE None)
    BY <2>1, ContentDates
  <2>3. Dated(ret'.info.time)
    BY <1>3, <2>2, ReturnDates DEF ExifRead
  <2> QED BY <1>1, <2>1, <2>3, DatesWritten
<1>4. CASE GetFile \/ Cached
  <2>1. obj' = obj /\ (ret' = ret \/ Dated(ret'.info.time))
    BY <1>4, ReturnDates DEF GetFile, Cached, Memory
  <2> QED BY <1>1, <2>1, DatesWritten
<1>5. CASE GotSecond
  <2>1. Top.file \in File /\ Top.spare \in File
    BY <1>5, TurnTypes DEF GotSecond, Filling, Owning
  <2>2. obj' = obj \/ Put(Top.file, Extracted(Top.kind, obj[Top.spare]))
    BY <1>5 DEF GotSecond
  <2>3. Dated(Extracted(Top.kind, obj[Top.spare]).date)
    BY <2>1, ContentDates
  <2>4. ret' = ret \/ Dated(ret'.info.time)
    BY <1>5, ReturnDates DEF GotSecond
  <2> QED BY <1>1, <2>1, <2>2, <2>3, <2>4, ContentDates, DatesWritten
<1> QED BY <1>2, <1>3, <1>4, <1>5

LEMMA TakeDates ==
  ASSUME TInv, Dates, CopyCached \/ Download \/ TakeFile \/ Stamped \/ Searched
  PROVE  Dates'
<1>1. UNCHANGED <<driver, photo, entry>>
  BY DEF CopyCached, Download, TakeFile, Stamped, Searched, Fixed, Cache
<1>2. CASE CopyCached
  <2>1. Top.file \in File /\ Top.kind \in Kind
    BY <1>2, TurnTypes DEF CopyCached, Found, Filling, Serving
  <2>2. slot[Top.kind] \in File
    BY <1>2, <2>1, TypesSplit DEF CopyCached, DataOK
  <2>3. Put(Top.file, obj[slot[Top.kind]]) /\ Dated(ret'.info.time)
    BY <1>2, ReturnDates DEF CopyCached, Copy
  <2> QED BY <1>1, <2>1, <2>2, <2>3, ContentDates, DatesWritten
<1>3. CASE Download \/ TakeFile
  <2>1. obj' = obj /\ (ret' = ret \/ Dated(ret'.info.time))
    BY <1>3, ReturnDates DEF Download, TakeFile, Memory
  <2> QED BY <1>1, <2>1, DatesWritten
<1>4. CASE Stamped \/ Searched
  <2>1. Top.file \in File
    BY <1>4, TurnTypes DEF Stamped, Searched, Full
  <2>2. obj' = obj \/ \E time : Stamp(time)
    BY <1>4 DEF Stamped, Searched
  <2>3. ret' = ret \/ Dated(ret'.info.time)
    BY <1>4, ReturnDates DEF Stamped, Searched
  <2>4. \A time : Dated([obj[Top.file] EXCEPT !.mtime = time].date)
    <3>1. obj[Top.file] \in Content /\ Dated(obj[Top.file].date)
      BY <2>1, ContentDates
    <3> QED BY <3>1 DEF Content
  <2> QED BY <1>1, <2>1, <2>2, <2>3, <2>4, ContentDates, DatesWritten DEF Stamp
<1> QED BY <1>2, <1>3, <1>4

LEMMA SetDates ==
  ASSUME TInv, Dates, SetInfo \/ SetInfoFails
  PROVE  Dates'
<1>1. entry \in EntryType /\ UNCHANGED <<driver, photo, obj>>
  BY TypesSplit DEF DataOK, SetInfo, SetInfoFails, Fixed, Memory
<1>2. entry'.info.time = entry.info.time
  BY <1>1 DEF SetInfo, SetsReadOnly, Sets, SetInfoFails, EntryType, InfoType
<1>3. Dated(ret'.info.time)
  BY ReturnDates DEF SetInfo, SetsReadOnly, Sets, SetInfoFails
<1> QED BY <1>1, <1>2, <1>3, DatesWritten

LEMMA DriverDates ==
  ASSUME TInv, Dates, DriverStep
  PROVE  Dates'
<1>1. entry \in EntryType /\ UNCHANGED <<driver, photo>>
  BY TypesSplit
     DEF DataOK, DriverStep, DriverFails, DriverList, HandInfo, HandFile, HandedAll, DriverInfo,
         DriverFile, DriverAsks, DriverSized, Fixed
<1>2. CASE DriverFails \/ HandedAll \/ DriverAsks
  <2>1. UNCHANGED <<entry, obj>> /\ (ret' = ret \/ Dated(ret'.info.time))
    BY <1>2, ReturnDates DEF DriverFails, HandedAll, DriverAsks, Memory, Cache
  <2> QED BY <1>1, <2>1, DatesWritten
<1>3. CASE DriverList \/ HandInfo \/ DriverInfo
  <2>1. UNCHANGED <<obj, ret>> /\ (entry'.info = SentInfo \/ entry'.info = NoInfo)
    BY <1>1, <1>3 DEF DriverList, HandInfo, DriverInfo, Memory, EntryType, NoEntry
  <2>2. ~driver.time => Dated(entry'.info.time)
    BY <2>1, ContentDates DEF NoInfo
  <2> QED BY <1>1, <2>1, <2>2, DatesWritten
<1>4. CASE HandFile
  <2>1. NewFile \in File /\ Put(NewFile, Sent(Head(Top.rest))) /\ UNCHANGED <<entry, ret>>
    BY <1>4, NewFileIsFree DEF HandFile, At, Cache
  <2>2. Head(Top.rest) \in Kind
    BY <1>4, RestTypes DEF HandFile, At
  <2> QED BY <1>1, <2>1, <2>2, ContentDates, DatesWritten
<1>5. CASE DriverFile \/ DriverSized
  <2>1. Top.file \in File /\ Top.kind \in Kind
    BY <1>5, TurnTypes DEF DriverFile, DriverSized, Filling, Serving
  <2>2. obj' = obj \/ \E k \in Kind : Put(Top.file, Sent(k))
    BY <1>5, <2>1 DEF DriverFile, DriverSized, Kind
  <2>3. entry' = entry /\ Dated(ret'.info.time)
    BY <1>5, ReturnDates DEF DriverFile, DriverSized, Cache
  <2> QED BY <1>1, <2>1, <2>2, <2>3, ContentDates, DatesWritten
<1> QED BY <1>2, <1>3, <1>4, <1>5 DEF DriverStep

LEMMA ApplicationDates ==
  ASSUME TInv, Dates, Application
  PROVE  Dates'
<1>1. app \in File /\ Dated(Blank.date) /\ Dated(Cleaned(app).date) /\ Dated(obj[app].date)
  BY TypesSplit, ContentDates DEF DataOK, Cleaned, Blank
<1>2. ASSUME NEW name, NEW at, NEW k, NEW o, NEW content, Dated(content.date),
             Begins(name, at, k, o, content)
      PROVE  Dates'
  <2>1. /\ obj' = Kept(o, content) /\ UNCHANGED <<driver, photo, entry>> /\ ret' = NoAnswer
    BY <1>2 DEF Begins, Cache
  <2>2. \A f \in File : Dated(obj'[f].date)
    BY <1>1, <1>2, <2>1 DEF Kept, Dates
  <2> QED BY <2>1, <2>2 DEF Dates, TimesAreReal, Dated, NoAnswer, NoInfo
<1>3. CASE CameraFileGetInfo \/ CameraFileSetInfo
  BY <1>1, <1>2, <1>3 DEF CameraFileGetInfo, CameraFileSetInfo
<1>4. CASE CameraFileGet
  BY <1>1, <1>2, <1>4 DEF CameraFileGet
<1>5. CASE Reset \/ Evict
  <2>1. UNCHANGED <<driver, photo, obj, ret>> /\ (entry' = entry \/ entry'.info.time = None)
    BY <1>5 DEF Reset, Evict, Fixed, Memory, NoEntry, NoInfo
  <2> QED BY <2>1 DEF Dates, TimesAreReal, Dated
<1> QED BY <1>3, <1>4, <1>5 DEF Application

LEMMA StepDates == TInv /\ Dates /\ [Next]_vars => Dates'
<1> SUFFICES ASSUME TInv, Dates, [Next]_vars PROVE Dates'
  OBVIOUS
<1>1. CASE Library
  BY <1>1, InfoDates, ReadDates, TakeDates, SetDates DEF Library
<1>2. CASE UNCHANGED vars
  BY <1>2 DEF vars, Dates, TimesAreReal, Dated
<1> QED BY <1>1, <1>2, DriverDates, ApplicationDates DEF Next

(***************************************************************************)
(* A time of modification that the camera does not tell is never made up:  *)
(* what gp_filesystem_get_info and the functions below it tell is the time *)
(* in the picture's EXIF data, or none.                                    *)
(***************************************************************************)
THEOREM TimesArePictures == Spec => []TimesAreReal
<1>1. Init => TInv /\ Dates
  BY InitTypes DEF Init, Dates, TimesAreReal, Dated, NoEntry, NoAnswer, NoInfo, Blank
<1>2. TInv /\ Dates /\ [Next]_vars => (TInv /\ Dates)'
  BY StepTypes, StepDates
<1>3. Dates => TimesAreReal
  BY DEF Dates
<1> QED BY <1>1, <1>2, <1>3, PTL DEF Spec
=============================================================================
