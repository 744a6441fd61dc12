------------------------------- MODULE MCObs -------------------------------
EXTENDS AxObsProps

(* NUL, LF, CR, ", a, DEL, the two bytes of é and of U+0300 *)
Bytes == {0, 10, 13, 34, 97, 127, 195, 169, 204, 128}

Fill(n, b) == [i \in 1 .. n |-> b]

(* Short outputs, outputs that grow when they are escaped, outputs at and  *)
(* over the limit, and ones that the limit cuts inside é and inside CR LF. *)
Outputs == UNION {[1 .. n -> Bytes] : n \in 0 .. 2}
             \cup {Fill(n, b) : n \in {3, MaxOutput, MaxOutput + 1}, b \in {10, 34, 97}}
             \cup {Fill(MaxOutput - 1, 97) \o t : t \in {<<195, 169>>, <<13, 10>>, <<13, 97>>}}

Good == <<109>>
Ids == {NULL, <<>>, <<31>>, <<195>>, <<34, 92>>, Fill(MaxId + 1, 97), Good}

IdPairs == {<<Good, i>> : i \in Ids} \cup {<<i, Good>> : i \in Ids} \cup {<<<<34, 92>>, <<92, 34>>>>}

States == CompletionState \cup {"OUT_OF_ENUM"}

AnyInput(seq) ==
  UNION {
    {ax_obs_input_set_complete(seq, Good, Good, "bytes", o) : o \in Outputs},
    {ax_obs_input_set_complete(seq, i[1], i[2], "bytes", o) :
       i \in IdPairs, o \in {<<97>>, Fill(3, 10), Fill(MaxOutput, 10)}},
    {ax_obs_input_set_timeout(seq, i[1], i[2], x) : i \in IdPairs, x \in {"bytes", "empty", "missing"}},
    {ax_obs_input_set_transport_error(seq, Good, Good, "bytes")},
    {ax_obs_input_set_invalid_output(seq, Good, Good, "bytes", o) : o \in Outputs},
    {ObsInput(s, f, seq, Good, Good, "bytes", o) :
       s \in States, f \in FailureType, o \in {<<>>, <<97, 10>>, Fill(MaxOutput + 1, 97)}},
    {[ax_obs_input_set_timeout(seq, Good, Good, "bytes") EXCEPT !.output_len = n] :
       n \in {1, MaxOutput + 1}}}

(* A caller's buffer is the gateway's, or has room for the NUL as well. *)
MCInputs(seq) == AnyInput(seq) \cup
                   {[in EXCEPT !.output_buf_size = MaxOutput + 1] : in \in AnyInput(seq)}
=============================================================================
