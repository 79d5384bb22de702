SPECIFICATION Spec
CONSTANT Sats = {"s", "t"}
PROPERTY DeselectedByClick
CHECK_DEADLOCK FALSE
