------------------------------ MODULE MCSinks ------------------------------
(***************************************************************************)
(* Instances of Sinks.  The scenarios differ in the file that the writers  *)
(* share, so that the behaviours of the formats add up and do not multiply.*)
(***************************************************************************)
EXTENDS Sinks, TLC

CONSTANTS w1, w2, w3, c1, c2, csvFile, jsonFile, shpFile, roads, towns

MCPlaces == {csvFile, jsonFile, shpFile, roads, towns}
MCFormatOf == csvFile :> "csv" @@ jsonFile :> "geojson" @@ shpFile :> "shapefile"
              @@ roads :> "geopackage" @@ towns :> "geopackage"
MCFileOf == [p \in MCPlaces |-> IF p = towns THEN roads ELSE p]

Given(p, n, c, cols, fits) ==
  [place |-> p, rows |-> n, crs |-> c, columns |-> cols, fits |-> fits]

\* A larger output first, so that a smaller one can leave some of it behind.
Three(p) == w1 :> Given(p, 2, c1, {"id"}, TRUE) @@ w2 :> Given(p, 1, c2, {"id"}, TRUE)
            @@ w3 :> Given(p, 1, NoCrs, {"id", "name"}, TRUE)
Mixed == [Three(roads) EXCEPT ![w3].place = towns]
Two(p) == [Three(p) EXCEPT ![w3].fits = FALSE]

MCAssignments == {Three(csvFile), Three(jsonFile), Two(shpFile), Mixed,
                  [Three(roads) EXCEPT ![w1].rows = 1]}
MCJobs == UNION {{a[w] : w \in Writers} : a \in MCAssignments}
MCTargets == [place : MCPlaces \ {towns}, named : {TRUE}] \cup [place : {roads}, named : {FALSE}]
=============================================================================
