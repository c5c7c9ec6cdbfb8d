-------------------------- MODULE MCMediaOperators --------------------------
\* A video of twelve seconds: sampled to more frames than one digit counts, cut
\* and sampled again, sampled twice under one prefix. Sheets of up to five images
\* of three shapes, of frames, of sheets, and of 64 images in the largest cells. Inputs
\* that are too many, missing or of the other medium, in either order.
EXTENDS MediaOperators

Video12 == <<"video", 0>>
Wide == <<"wide", 0>>
Tall == <<"tall", 0>>
Small == <<"small", 0>>
Made(n) == <<"out", n>>

MCFrameSize == [width |-> 160, height |-> 90]
Size(width, height) == [width |-> width, height |-> height]
Videos == Video12 :> Video([i \in 1..12 |-> i])
Images ==
  Wide :> Image(Size(200, 51), <<"wide">>) @@ Tall :> Image(Size(33, 700), <<"tall">>)
    @@ Small :> Image(Size(10, 64), <<"small">>)

AskMedia(operator, inputs, arguments) ==
  [operator |-> operator, inputs |-> inputs, arguments |-> arguments]
Sample(video, prefix, every, max) ==
  AskMedia("sample_frames", <<video>>,
      [output_prefix |-> prefix, every_seconds |-> every, max_frames |-> max])
Clip(start, duration, output) ==
  AskMedia("extract_clip", <<Video12>>,
      [start_seconds |-> start, duration_seconds |-> duration, output |-> output])
Sheet(inputs, columns, cell, output) ==
  AskMedia("make_contact_sheet", inputs, [columns |-> columns, cell |-> cell, output |-> output])

FramesOf(prefix, count) == [i \in 1..count |-> <<prefix, i>>]

Samplings ==
  {<<Sample(Video12, "p", every, max), Sample(Video12, "p", 1, other),
     Sheet(FramesOf("p", count), columns, Size(64, 65), Made(1)),
     Sheet(<<Made(1), <<"p", 1>>>>, 2, Size(91, 64), Made(2))>> :
     every \in {1, 2, 5}, max \in {1, 3, 11, 12}, other \in {1, 12}, count \in {1, 4, 11},
     columns \in {1, 3}}
Cuts ==
  {<<Clip(start, duration, Made(1)), Sample(Made(1), "c", 1, 16),
     Sheet(FramesOf("c", 2), 4, Size(320, 180), Made(1)), Sample(Wide, "c", 1, 1),
     Sample(Video12, "c", 1, 2)>> :
     start \in {0, 1, 10, 12}, duration \in {1, 2, 11}}
Sheets ==
  {<<Sheet(inputs, columns, cell, Made(1))>> :
     inputs \in SeqOf({Wide, Tall, Small}, 5), columns \in {1, 2, 3, 8},
     cell \in {Size(64, 64), Size(91, 100)}}
Limits ==
  {<<Sheet([i \in 1..count |-> Small], columns, cell, Made(1))>> :
     count \in {31, 32, 63, 64, 65}, columns \in {1, 2, 8},
     cell \in {Size(64, 1024), Size(2048, 2048)}}

RefusedMedia ==
  {<<AskMedia("sample_frames", videos, [output_prefix |-> "p", every_seconds |-> 5, max_frames |-> 3]),
     Sheet(images, 2, Size(64, 64), Made(1)), Sheet(Reverse(images), 2, Size(64, 64), Made(1)),
     Clip(0, 2, Made(1)), Sample(Made(1), "c", 1, 16)>> :
     videos \in {<<>>, <<Video12, Video12>>, <<Made(2), Made(2)>>, <<Made(2)>>, <<Tall>>},
     images \in {<<>>, <<Made(2), Video12>>, <<Wide, Made(2), Tall>>, [i \in 1..65 |-> Made(2)]}}

MCMediaWorkloads ==
  [store : {Videos @@ Images}, requests : Samplings \cup Cuts \cup Sheets \cup Limits \cup RefusedMedia]
=============================================================================
