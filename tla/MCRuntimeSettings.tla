------------------------- MODULE MCRuntimeSettings -------------------------
(***************************************************************************)
(* An instance of RuntimeSettings for TLC.                                 *)
(***************************************************************************)
EXTENDS RuntimeSettings, TLC

\* The defaults of config.py.
Defaults ==
  [processor |-> "passthrough", demucs_model |-> "htdemucs", demucs_device |-> "auto",
   demucs_segment |-> 6000, demucs_overlap |-> 25, demucs_shifts |-> 0,
   demucs_vocal_reduction |-> 100, convtasnet_model_path |-> "/models/convtasnet",
   convtasnet_device |-> "auto", convtasnet_segment |-> 1000,
   convtasnet_vocal_reduction |-> 100, convtasnet_vocal_index |-> 0,
   convtasnet_accompaniment_index |-> 1, mdx23c_device |-> "auto",
   mdx23c_segment |-> 1000, mdx23c_overlap |-> 25, mdx23c_batch_size |-> 1,
   mdx23c_vocal_reduction |-> 100, mdx23c_precision |-> "float32",
   centre_reduction |-> 70]

\* As they come; with a separator; with an overlap that nobody checks at startup;
\* with indexes that the processor accepts and an update does not; and two that
\* end the server at once.
TheEnvironments ==
  {Defaults, [Defaults EXCEPT !.processor = HTDemucs],
   [Defaults EXCEPT !.mdx23c_overlap = 60],
   [Defaults EXCEPT !.processor = ConvTasNet, !.convtasnet_vocal_index = 1],
   [Defaults EXCEPT !.processor = Mdx23c, !.mdx23c_precision = "float16"],
   [Defaults EXCEPT !.processor = "demucs"]}

\* One processor and several, live parameters of two, a device and a precision
\* with which start() fails without a GPU, a segment the service refuses, and what the last two
\* environments lack.
ThePayloads ==
  {"processor" :> HTDemucs, "processor" :> Centre, "processor" :> "demucs",
   "demucs_vocal_reduction" :> 50, "centre_reduction" :> 20,
   "demucs_vocal_reduction" :> 100 @@ "demucs_segment" :> 3000,
   "mdx23c_segment" :> 300, "demucs_device" :> "cuda:0",
   "processor" :> Mdx23c @@ "mdx23c_precision" :> "float16",
   "mdx23c_overlap" :> 25, "convtasnet_vocal_index" :> 0}
TheCudaDevices == {"cuda", "cuda:0"}
Selected == {HTDemucs, Mdx23c, Centre}
=============================================================================
