--------------------------- MODULE MCArrayIngestion ---------------------------
(* A small instance of ArrayIngestion: an allocation of doubles and one of    *)
(* floats, and views into them that stay inside, run backwards or in place,    *)
(* leave by one element at either end or have no owner that can be told.       *)
EXTENDS ArrayIngestion

\* Three doubles from 16 on and three floats from 64 on.
MCMemory ==
  16 :> Number(1) @@ 24 :> NaN @@ 32 :> Number(2) @@ 64 :> Number(0) @@ 68 :> Number(2)
    @@ 72 :> Infinite

Owner(ndarray, nbytes, buffer, ptr, itemsize, size) ==
  [ndarray |-> ndarray, nbytes |-> nbytes, buffer |-> buffer,
   ptr |-> ptr, itemsize |-> itemsize, size |-> size]

Three == Owner(TRUE, TRUE, TRUE, 16, 8, 3)
Bytes == Owner(FALSE, TRUE, TRUE, 16, 1, 24)

Viewed(ptr, stride, length, owners) ==
  [exact |-> TRUE, ndim |-> 1, length |-> length, ptr |-> ptr, stride |-> stride,
   dtype |-> "f64", shared |-> FALSE, owners |-> owners]

MCArrays ==
  {Viewed(16, 8, 3, <<>>), Viewed(32, -8, 3, <<Three>>), Viewed(16, 16, 2, <<Bytes>>),
   Viewed(16, 0, 8, <<Three>>), Viewed(16, 0, 9, <<Three>>), Viewed(24, 8, 3, <<Three>>),
   Viewed(32, -8, 4, <<Bytes>>), Viewed(16, 72, 3, <<Three>>),
   Viewed(16, 8, 0, <<>>), Viewed(20, 8, 0, <<Three>>), Viewed(0, 8, 0, <<>>),
   Viewed(16, 8, 3, <<Owner(FALSE, FALSE, TRUE, 16, 1, 24)>>),
   Viewed(16, 8, 1, <<Owner(FALSE, TRUE, TRUE, 16, 1, 0)>>), Viewed(20, 8, 1, <<Three>>),
   [Viewed(64, 4, 2, <<>>) EXCEPT !.dtype = "f32"], [Viewed(64, 4, 3, <<>>) EXCEPT !.dtype = "f32"],
   [Viewed(16, 8, 3, <<>>) EXCEPT !.shared = TRUE],
   [Viewed(16, 8, 3, <<>>) EXCEPT !.dtype = "other"]}

MCScribbles == {NaN}

Geometry(viewport, canvas, plot, width) ==
  [arguments |-> "ok", finite |-> TRUE, viewport |-> viewport, canvas |-> canvas,
   plot |-> plot, perInch |-> 72, width |-> width, dpi |-> 100]

Square == [minX |-> 0, maxX |-> 4, minY |-> 0, maxY |-> 4]
PlotBox(x0, y0, x1, y1) == [x0 |-> x0, y0 |-> y0, x1 |-> x1, y1 |-> y1]
Usual == Geometry(Square, <<6, 6>>, PlotBox(1, 1, 5, 5), 2)

MCRequests ==
  {Usual, [Usual EXCEPT !.arguments = "type"], [Usual EXCEPT !.finite = FALSE],
   Geometry([Square EXCEPT !.maxX = 0], <<6, 6>>, PlotBox(1, 1, 5, 5), 2),
   [Usual EXCEPT !.dpi = 0],
   Geometry(Square, <<6, 6>>, PlotBox(1, 1, 5, 5), 0)}
===============================================================================
