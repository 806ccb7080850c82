------------------------- MODULE MCDeliveryGuide -------------------------
EXTENDS DeliveryGuide
==========================================================================
