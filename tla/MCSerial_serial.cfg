CONSTANTS
    Byte = {0, 1}
    sSendBuf = 2
    sRecvBuf = 2
    SRECVBUF = 2
    ClosesBusy = FALSE
SPECIFICATION Spec
PROPERTIES ImplementsSerialLine BytesGoOut
