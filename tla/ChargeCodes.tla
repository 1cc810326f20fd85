----------------------------- MODULE ChargeCodes -----------------------------
(***************************************************************************)
(* The taxonomy of charges (billing/charge-codes.ts): what each code is    *)
(* for, how a line of it is counted, who it is paid to, and whether it     *)
(* carries VAT; and how whatever a vendor wrote is resolved onto a code.   *)
(*                                                                         *)
(* A spelling is a string; the built-in spellings are the constant         *)
(* Spellings, a function from a few of them to the code each stands for.   *)
(* Labels, notes and error rates are left out.                             *)
(***************************************************************************)
EXTENDS TLC

CONSTANT Spellings

Def(category, kind, basis, provenance, taxable) ==
  [category |-> category, kind |-> kind, basis |-> basis,
   provenance |-> provenance, taxable |-> taxable]

\* Origin, main carriage, fuel and currency.
CarriageCodes ==
  "PCK" :> Def("ORIGIN", "FREIGHT", "PER_SHIPMENT", "MARKED_UP", TRUE)
  @@ "OHC" :> Def("ORIGIN", "SURCHARGE", "PER_CONTAINER", "PASS_THROUGH", TRUE)
  @@ "EXW" :> Def("ORIGIN", "FEE", "PER_SHIPMENT", "FORWARDER_ORIGINATED", TRUE)
  @@ "VGM" :> Def("ORIGIN", "FEE", "PER_CONTAINER", "PASS_THROUGH", TRUE)
  @@ "FRT" :> Def("FREIGHT", "FREIGHT", "PER_CONTAINER", "MARKED_UP", TRUE)
  @@ "HND" :> Def("FREIGHT", "SURCHARGE", "PER_SHIPMENT", "FORWARDER_ORIGINATED", TRUE)
  @@ "SVC" :> Def("FREIGHT", "SURCHARGE", "PER_SHIPMENT", "FORWARDER_ORIGINATED", TRUE)
  @@ "BAF" :> Def("FUEL_SURCHARGE", "SURCHARGE", "PER_CONTAINER", "PASS_THROUGH", TRUE)
  @@ "EBS" :> Def("FUEL_SURCHARGE", "SURCHARGE", "PER_CONTAINER", "PASS_THROUGH", TRUE)
  @@ "CAF" :> Def("FUEL_SURCHARGE", "SURCHARGE", "PERCENTAGE", "PASS_THROUGH", TRUE)

\* Destination, customs, duties and taxes.
ArrivalCodes ==
  "THC" :> Def("DESTINATION", "SURCHARGE", "PER_CONTAINER", "PASS_THROUGH", TRUE)
  @@ "ISPS" :> Def("DESTINATION", "SURCHARGE", "PER_CONTAINER", "PASS_THROUGH", TRUE)
  @@ "WHF" :> Def("DESTINATION", "DISBURSEMENT", "PER_CONTAINER", "PASS_THROUGH", TRUE)
  @@ "DEL" :> Def("DESTINATION", "FREIGHT", "PER_CONTAINER", "MARKED_UP", TRUE)
  @@ "TOL" :> Def("DESTINATION", "DISBURSEMENT", "PER_SHIPMENT", "PASS_THROUGH", TRUE)
  @@ "CCL" :> Def("CUSTOMS", "FEE", "PER_SHIPMENT", "FORWARDER_ORIGINATED", TRUE)
  @@ "DTY" :> Def("DUTY_TAX", "DISBURSEMENT", "PER_SHIPMENT", "PASS_THROUGH", FALSE)
  @@ "VAT" :> Def("DUTY_TAX", "DISBURSEMENT", "PER_SHIPMENT", "PASS_THROUGH", FALSE)
  @@ "DSB" :> Def("CUSTOMS", "FEE", "PERCENTAGE", "FORWARDER_ORIGINATED", TRUE)

\* Documents, time, and the rest.
OtherCodes ==
  "DOC" :> Def("DOCUMENTATION", "FEE", "PER_DOCUMENT", "FORWARDER_ORIGINATED", TRUE)
  @@ "TLX" :> Def("DOCUMENTATION", "FEE", "PER_DOCUMENT", "PASS_THROUGH", TRUE)
  @@ "COO" :> Def("DOCUMENTATION", "DISBURSEMENT", "PER_DOCUMENT", "PASS_THROUGH", TRUE)
  @@ "AMS" :> Def("DOCUMENTATION", "FEE", "PER_DOCUMENT", "PASS_THROUGH", TRUE)
  @@ "DEM" :> Def("DEMURRAGE_DETENTION", "DISBURSEMENT", "PER_DAY", "PASS_THROUGH", TRUE)
  @@ "DET" :> Def("DEMURRAGE_DETENTION", "DISBURSEMENT", "PER_DAY", "PASS_THROUGH", TRUE)
  @@ "WAIT" :> Def("DEMURRAGE_DETENTION", "DISBURSEMENT", "PER_DAY", "PASS_THROUGH", TRUE)
  @@ "INS" :> Def("INSURANCE", "DISBURSEMENT", "PERCENTAGE", "PASS_THROUGH", FALSE)
  @@ "PLF" :> Def("PLATFORM_FEE", "FEE", "PERCENTAGE", "FORWARDER_ORIGINATED", TRUE)
  @@ "MSC" :> Def("OTHER", "FEE", "PER_SHIPMENT", "FORWARDER_ORIGINATED", TRUE)

ChargeDef == CarriageCodes @@ ArrivalCodes @@ OtherCodes

CategoryOrder ==
  <<"ORIGIN", "FREIGHT", "FUEL_SURCHARGE", "DESTINATION", "CUSTOMS", "DUTY_TAX",
    "DOCUMENTATION", "DEMURRAGE_DETENTION", "INSURANCE", "PLATFORM_FEE", "OTHER">>

\* A company's own spellings beat the built-in ones, and what nobody knows is
\* filed under other.
NormaliseChargeCode(raw, own) ==
  IF raw \in DOMAIN own
    THEN [code |-> own[raw], match |-> IF own[raw] = raw THEN "exact" ELSE "alias"]
  ELSE IF raw \in DOMAIN ChargeDef THEN [code |-> raw, match |-> "exact"]
  ELSE IF raw \in DOMAIN Spellings THEN [code |-> Spellings[raw], match |-> "alias"]
  ELSE [code |-> "MSC", match |-> "fallback"]

\* The fields of a charge that follow from its code, without a company's own
\* spellings, which no caller passes.
ChargeMetadata(raw, vatBps, provenance) ==
  LET code == NormaliseChargeCode(raw, <<>>).code
      def == ChargeDef[code]
  IN [code |-> code, category |-> def.category, basis |-> def.basis,
      provenance |-> provenance, vatBps |-> IF def.taxable THEN vatBps ELSE 0]
=============================================================================
