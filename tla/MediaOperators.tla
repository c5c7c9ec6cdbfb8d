---------------------------- MODULE MediaOperators ----------------------------
(***************************************************************************)
(* The media operators (src/infra_joint/operators/media.py) as one worker    *)
(* with an FFmpeg backend runs them: a video is sampled to frames or cut to a *)
(* clip, and images are arranged to a contact sheet. FFmpeg and Pillow are    *)
(* external: a frame is the second it was taken at, and an image is its size  *)
(* and what it shows. Artifact IDs are a name with a number: the frame         *)
(* "p/frame-000001.jpg" is <<"p", 1>>, "sheet" is <<"sheet", 0>>.             *)
(***************************************************************************)
EXTENDS RecordOperators

CONSTANTS
  MediaWorkloads, \* a store with the requests made of it, in order
  FrameSize,      \* of the frames of a video: [width, height]
  MaxDimension    \* of a JPEG file

IsSize(size) == size \in [width : Nat \ {0}, height : Nat \ {0}]

IsMedia(artifact) ==
  /\ artifact.media = "image" => IsSize(artifact.size)
  /\ artifact.media = "video" => artifact.seconds \in Seq(Range(artifact.seconds))

ASSUME FrameSizeAssumption == IsSize(FrameSize)

\* What the schemas of the arguments let through (media.py:176-192).
IsMediaRequest(request) ==
  /\ request.inputs \in Seq(Range(request.inputs))
  /\ request.operator = "sample_frames" =>
       request.arguments.every_seconds \in Nat \ {0} /\ request.arguments.max_frames \in 1..128
  /\ request.operator = "extract_clip" =>
       request.arguments.start_seconds \in Nat /\ request.arguments.duration_seconds \in Nat \ {0}
  /\ request.operator = "make_contact_sheet" =>
       request.arguments.columns \in Nat \ {0} /\ IsSize(request.arguments.cell)

ASSUME MediaAssumption ==
  \A workload \in MediaWorkloads :
    /\ \A id \in DOMAIN workload.store : IsMedia(workload.store[id])
    /\ workload.requests \in Seq(Range(workload.requests))
    /\ \A request \in Range(workload.requests) : IsMediaRequest(request)

Image(size, shows) == [media |-> "image", size |-> size, shows |-> shows]
Video(seconds) == [media |-> "video", seconds |-> seconds]

Store(written) == [status |-> "success", written |-> written]
Fail(status) == [status |-> status, written |-> <<>>]

-----------------------------------------------------------------------------
(* sample_frames: FFmpeg numbers the files, the operator sorts their names. *)

Places == <<100000, 10000, 1000, 100, 10, 1>>

Digit(n, place) == (n \div place) % 10

\* Mutant: "frame-%d.jpg".
FileNameUnpadded(n) ==
  LET unused == Len(Places) - Len(ToString(n))
  IN  [i \in 1..Len(ToString(n)) |-> Digit(n, Places[unused + i])]

\* "frame-%06d.jpg"
FileName(n) == [i \in DOMAIN Places |-> Digit(n, Places[i])]

\* The names in a directory, sorted.
SortedNames(names) ==
  [rank \in 1..Cardinality(names) |->
     CHOOSE name \in names : Cardinality({other \in names : Less(other, name)}) = rank - 1]

\* What "-vf fps=1/every -frames:v max" makes of a video.
Frames(video, a) ==
  [n \in 1..Min({a.max_frames, (Len(video.seconds) + a.every_seconds - 1) \div a.every_seconds}) |->
     video.seconds[(n - 1) * a.every_seconds + 1]]

SampleFrames(inputs, a) ==
  LET frames == Frames(artifacts[inputs[1]], a)
      number(name) == CHOOSE n \in DOMAIN frames : FileName(n) = name
      names == SortedNames({FileName(n) : n \in DOMAIN frames})
  IN  IF frames = <<>> THEN Fail("operator_failed")
      ELSE Store([id \in {<<a.output_prefix, index>> : index \in DOMAIN names} |->
                    Image(FrameSize, <<frames[number(names[id[2]])]>>)])

ExtractClip(inputs, a) ==
  LET video == artifacts[inputs[1]]
      clip == SubSeq(video.seconds, a.start_seconds + 1,
                     Min({a.start_seconds + a.duration_seconds, Len(video.seconds)}))
  IN  IF clip = <<>> THEN Fail("operator_failed")
      ELSE Store(Single(a.output, Video(clip)))

-----------------------------------------------------------------------------
(* make_contact_sheet *)

\* Pillow's thumbnail: an image that does not fit is scaled to the cell.
Thumbnail(size, cell) ==
  LET scaled == IF size.width * cell.height >= size.height * cell.width
                THEN [width |-> cell.width, height |-> (size.height * cell.width) \div size.width]
                ELSE [width |-> (size.width * cell.height) \div size.height, height |-> cell.height]
  IN  IF size.width <= cell.width /\ size.height <= cell.height THEN size
      ELSE [width |-> Max({1, scaled.width}), height |-> Max({1, scaled.height})]

\* Mutant: rows are counted without the last one, when it is not full.
RowsThatAreFull(count, columns) == count \div columns

Rows(count, columns) == (count + columns - 1) \div columns

SheetSize(count, columns, cell) ==
  [width |-> columns * cell.width, height |-> Rows(count, columns) * cell.height]

\* Where the image with an index (from 0) is pasted.
Offset(index, columns, cell, size) ==
  [x |-> (index % columns) * cell.width + (cell.width - size.width) \div 2,
   y |-> (index \div columns) * cell.height + (cell.height - size.height) \div 2]

\* An image on the sheet: its corner, its size and what it shows.
Pasted(inputs, a) ==
  [i \in DOMAIN inputs |->
     LET size == Thumbnail(artifacts[inputs[i]].size, a.cell)
     IN  [at |-> Offset(i - 1, a.columns, a.cell, size), size |-> size,
          shows |-> artifacts[inputs[i]].shows]]

\* Encoding fails on a sheet that is too large for the format, which is neither a
\* ValueError nor a MediaExecutionError.
MakeContactSheet(inputs, a) ==
  LET size == SheetSize(Len(inputs), a.columns, a.cell)
  IN  IF size.width > MaxDimension \/ size.height > MaxDimension THEN Fail("internal_error")
      ELSE Store(Single(a.output, Image(size, Pasted(inputs, a))))

-----------------------------------------------------------------------------
(* The worker: a request is answered, and its output stored, in one step (the *)
(* interleavings of requests are WorkerServer's).                             *)

Conflicts(written) ==
  {id \in DOMAIN written \cap DOMAIN artifacts : artifacts[id] # written[id]}

\* Frames are put one by one: those before a conflict stay.
Put(written) ==
  [id \in {put \in DOMAIN written : \A other \in Conflicts(written) : Last(put) < Last(other)} |->
     written[id]]

\* What an operator takes: one video, or up to 64 images.
Medium(operator) == IF operator = "make_contact_sheet" THEN "image" ELSE "video"
MostInputs(operator) == IF operator = "make_contact_sheet" THEN 64 ELSE 1

InputStatus(operator, id) ==
  IF id \notin DOMAIN artifacts THEN "missing_artifact"
  ELSE IF artifacts[id].media # Medium(operator) THEN "validation_failed" ELSE "success"

\* The inputs are counted, and then read one after the other.
InputsStatus(operator, inputs) ==
  IF inputs = <<>> \/ Len(inputs) > MostInputs(operator) THEN "validation_failed"
  ELSE FirstFailure([i \in DOMAIN inputs |-> InputStatus(operator, inputs[i])])

ExecuteMedia(operator, result) ==
  LET status == InputsStatus(operator, Request.inputs)
      done == IF Succeeded(status) THEN result ELSE Fail(status)
  IN  /\ Request.operator = operator
      /\ artifacts' = Merged(artifacts, Put(done.written))
      /\ answers' = Append(answers, IF Conflicts(done.written) = {} THEN done.status
                                    ELSE "validation_failed")
      /\ UNCHANGED requests

MediaNext ==
  /\ Len(answers) < Len(requests)
  /\ \/ ExecuteMedia("sample_frames", SampleFrames(Request.inputs, Request.arguments))
     \/ ExecuteMedia("extract_clip", ExtractClip(Request.inputs, Request.arguments))
     \/ ExecuteMedia("make_contact_sheet", MakeContactSheet(Request.inputs, Request.arguments))

MediaSpec == OperatorInit(MediaWorkloads) /\ [][MediaNext]_operatorVars

-----------------------------------------------------------------------------
\* sample_frames: the artifacts are numbered in the order of time, whatever the
\* number of frames: FFmpeg's numbers survive a sort of the files' names
\* (media.py:268, 277-279).
FramesKeepTheirOrder ==
  \A n \in DOMAIN answers : Answered(n, "sample_frames") =>
    LET a == requests[n].arguments
        video == artifacts[requests[n].inputs[1]]
    IN  \A index \in DOMAIN Frames(video, a) :
          artifacts[<<a.output_prefix, index>>].shows
            = <<video.seconds[(index - 1) * a.every_seconds + 1]>>

\* One image lies wholly above or before another.
Apart(p, q) ==
  \/ p.at.x + p.size.width <= q.at.x \/ q.at.x + q.size.width <= p.at.x
  \/ p.at.y + p.size.height <= q.at.y \/ q.at.y + q.size.height <= p.at.y

\* make_contact_sheet: every input is on the sheet, whole, covered by no other and
\* in reading order (media.py:331-342). Pillow would cut off silently what is
\* pasted beyond the edge.
SheetShowsEveryImage ==
  \A n \in DOMAIN answers : Answered(n, "make_contact_sheet") =>
    LET request == requests[n]
        sheet == artifacts[request.arguments.output]
    IN  /\ Len(sheet.shows) = Len(request.inputs)
        /\ \A i \in DOMAIN sheet.shows :
             LET p == sheet.shows[i]
             IN  /\ p.shows = artifacts[request.inputs[i]].shows
                 /\ p.at.x >= 0 /\ p.at.x + p.size.width <= sheet.size.width
                 /\ p.at.y >= 0 /\ p.at.y + p.size.height <= sheet.size.height
                 /\ \A j \in 1..(i - 1) :
                      LET q == sheet.shows[j]
                      IN  /\ Apart(p, q)
                          /\ q.at.y + q.size.height <= p.at.y \/ q.at.x + q.size.width <= p.at.x
=============================================================================
